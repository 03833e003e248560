-------------------------- MODULE EngineLoopProof ---------------------------
(***************************************************************************)
(* Why no task is replaced while its batch is executing, however many      *)
(* tasks the plan asks for.  The loop restarts tasks that are done, and    *)
(* those hold no batch; waking up replaces all of them, but the loop never *)
(* comes to rest, so it wakes up once, before there is a task.             *)
(*                                                                         *)
(* And why no request is lost or doubled on its way from the tracker, by a *)
(* task that adds it, to the scheduler, while aborts overtake it.          *)
(*                                                                         *)
(* And that the plan is what its latencies ask for: interpolating in the   *)
(* table gives what was measured, and the loop tries every candidate.      *)
(***************************************************************************)
EXTENDS EngineLoop, BatchPlan, QueueLemmas

Fields == {"at", "adds", "drops", "ignored", "batch"}
Executing(i) == IF i \in DOMAIN tasks THEN tasks[i].batch ELSE {}

TasksInv ==
    /\ DOMAIN tasks \subseteq Nat
    /\ \A i \in DOMAIN tasks :
          DOMAIN tasks[i] = Fields /\ (tasks[i].at # "executing" => tasks[i].batch = {})

(* Task 0 of the code, 1 here, is flagged in progress from the first turn. *)
NeverRests ==
    /\ looping \in BOOLEAN /\ batchNum \in 1..MaxBatchNum
    /\ looping => 1 \in DOMAIN tasks /\ 1 \in DOMAIN inProgress /\ inProgress[1] = TRUE
    /\ ~looping => DOMAIN tasks = {}

(* The marks are the batches and what a failed step left behind; no two    *)
(* batches meet, and what was left behind is in none.                      *)
MarksInv ==
    /\ forsaken \subseteq onFly
    /\ \A r \in onFly \ forsaken : \E i \in Nat : r \in Executing(i)
    /\ \A i \in Nat : Executing(i) \subseteq onFly \ forsaken
    /\ \A i, j \in Nat : i # j => Executing(i) \cap Executing(j) = {}

EngineInv == TasksInv /\ NeverRests /\ MarksInv

-----------------------------------------------------------------------------
(* The invariant says nothing about clients, the tracker and the queue.    *)
LEMMA EngineInvFrame ==
  ASSUME EngineInv, UNCHANGED <<tasks, inProgress, looping, batchNum, onFly, forsaken>>
  PROVE  EngineInv'
  BY DEF EngineInv, TasksInv, NeverRests, MarksInv, Executing

(* Marks stay as they are if every batch does.                             *)
LEMMA MarksInvFrame ==
  ASSUME MarksInv, onFly' = onFly, forsaken' = forsaken,
         \A i \in Nat : Executing(i)' = Executing(i)
  PROVE  MarksInv'
  BY DEF MarksInv

LEMMA InitEngineInv == Init => EngineInv
<1> SUFFICES ASSUME Init PROVE EngineInv
  OBVIOUS
<1>1. DOMAIN tasks = {} /\ onFly = {} /\ forsaken = {} /\ looping = FALSE
  BY DEF Init
<1>2. TasksInv /\ NeverRests
  <2>1. batchNum \in 1..MaxBatchNum
    BY EngineLoopAssumption DEF Init, EngineLoopAssumption
  <2> QED
    BY <1>1, <2>1 DEF TasksInv, NeverRests
<1>3. MarksInv
  BY <1>1 DEF MarksInv, Executing
<1> QED
  BY <1>2, <1>3 DEF EngineInv

LEMMA FreshTask == DOMAIN Fresh = Fields /\ Fresh.batch = {} /\ Fresh.at = "start"
  BY DEF Fresh, Fields

LEMMA EndedTask == DOMAIN Ended = Fields /\ Ended.batch = {} /\ Ended.at = "done"
  BY DEF Ended, Fresh, Fields

LEMMA WakeUpKeepsEngineInv ==
  ASSUME EngineInv, WakeUp
  PROVE  EngineInv'
<1>1. batchNum' \in 1..MaxBatchNum /\ looping' = TRUE
      /\ onFly' = onFly /\ forsaken' = forsaken
      /\ tasks' = [i \in 1..batchNum' |-> Fresh]
      /\ inProgress' = [i \in 1..batchNum' |-> TRUE]
  BY DEF WakeUp, Plan, scheduler, fates
<1>2. DOMAIN tasks = {}
  BY DEF EngineInv, NeverRests, WakeUp
<1>3. 1..batchNum' \subseteq Nat /\ 1 \in 1..batchNum'
  BY <1>1, EngineLoopAssumption DEF EngineLoopAssumption
<1>4. TasksInv'
  BY <1>1, <1>3, FreshTask DEF TasksInv
<1>5. NeverRests'
  BY <1>1, <1>3 DEF NeverRests
<1>6. \A i \in Nat : Executing(i)' = Executing(i)
  BY <1>1, <1>2, FreshTask DEF Executing
<1> QED
  BY <1>1, <1>4, <1>5, <1>6, MarksInvFrame DEF EngineInv

LEMMA LoopTurnKeepsEngineInv ==
  ASSUME EngineInv, LoopTurn
  PROVE  EngineInv'
<1> DEFINE again(i) == i <= batchNum' /\ Restarts(Grown[i])
           flag(i) == IF i > batchNum' THEN FALSE
                      ELSE IF Restarts(Grown[i]) THEN TRUE ELSE GrownFlags[i]
<1>1. /\ tasks' = [i \in Indices |-> IF again(i) THEN Fresh ELSE Grown[i]]
      /\ inProgress' = [i \in Indices |-> flag(i)]
      /\ looping' = \E i \in Indices : inProgress'[i]
      /\ looping = TRUE
      /\ onFly' = onFly /\ forsaken' = forsaken
  BY DEF LoopTurn, scheduler, fates, EngineInv, NeverRests
<1>2. /\ batchNum' \in 1..MaxBatchNum /\ batchNum \in 1..MaxBatchNum
      /\ 1 \in DOMAIN tasks /\ 1 \in DOMAIN inProgress /\ inProgress[1] = TRUE
  BY DEF LoopTurn, Plan, EngineInv, NeverRests
<1>3. Indices \subseteq Nat /\ DOMAIN tasks \subseteq Indices /\ 1 \in Indices
  BY <1>2 DEF Indices, EngineInv, TasksInv
<1>4. \A i \in Indices : Grown[i] = IF i \in DOMAIN tasks THEN tasks[i] ELSE Fresh
  BY DEF Grown
<1>5. \A i \in Indices : tasks'[i] = IF again(i) THEN Fresh ELSE Grown[i]
  BY <1>1
<1>6. \A i \in Indices :
         DOMAIN Grown[i] = Fields /\ (Grown[i].at # "executing" => Grown[i].batch = {})
  BY <1>4, FreshTask DEF EngineInv, TasksInv
<1>7. \A i \in Indices : again(i) => Grown[i].batch = {}
  BY <1>6 DEF Restarts, IsDone
<1>8. DOMAIN tasks' = Indices
  BY <1>1
<1> HIDE DEF again
<1>9. TasksInv'
  <2>1. \A i \in Indices : DOMAIN tasks'[i] = Fields
    BY <1>5, <1>6, FreshTask
  <2>2. \A i \in Indices : tasks'[i].at # "executing" => tasks'[i].batch = {}
    BY <1>5, <1>6, FreshTask
  <2> QED
    BY <1>3, <1>8, <2>1, <2>2 DEF TasksInv
<1>10. NeverRests'
  <2>1. ~(1 > batchNum') /\ GrownFlags[1] = TRUE
    BY <1>2, <1>3 DEF GrownFlags
  <2>2. flag(1) = TRUE
    BY <2>1
  <2> HIDE DEF flag
  <2>3. 1 \in DOMAIN inProgress' /\ inProgress'[1] = TRUE
    BY <1>1, <1>3, <2>2
  <2>4. looping' = TRUE
    BY <1>1, <1>3, <2>3
  <2> QED
    BY <1>2, <1>3, <1>8, <2>3, <2>4 DEF NeverRests
<1>11. \A i \in Nat : Executing(i)' = Executing(i)
  <2>1. ASSUME NEW i \in Indices PROVE Executing(i)' = Grown[i].batch
    BY <1>5, <1>7, <1>8, FreshTask DEF Executing
  <2>2. ASSUME NEW i \in Indices PROVE Executing(i) = Grown[i].batch
    BY <1>4, FreshTask DEF Executing
  <2>3. ASSUME NEW i \in Nat \ Indices PROVE Executing(i)' = {} /\ Executing(i) = {}
    BY <1>3, <1>8 DEF Executing
  <2> QED
    BY <2>1, <2>2, <2>3
<1> QED
  BY <1>1, <1>9, <1>10, <1>11, MarksInvFrame DEF EngineInv

-----------------------------------------------------------------------------
(* What a task does is seen in its own record only.                        *)
LEMMA OneTaskMoves ==
  ASSUME EngineInv, NEW i \in DOMAIN tasks, NEW t,
         tasks' = [tasks EXCEPT ![i] = t],
         DOMAIN t = Fields, t.at # "executing" => t.batch = {},
         UNCHANGED <<inProgress, looping, batchNum>>
  PROVE  /\ TasksInv' /\ NeverRests'
         /\ Executing(i)' = t.batch
         /\ \A j \in Nat \ {i} : Executing(j)' = Executing(j)
<1>1. DOMAIN tasks' = DOMAIN tasks /\ tasks'[i] = t
      /\ \A j \in DOMAIN tasks \ {i} : tasks'[j] = tasks[j]
  OBVIOUS
<1>2. TasksInv'
  BY <1>1 DEF EngineInv, TasksInv
<1>3. NeverRests'
  BY <1>1 DEF EngineInv, NeverRests
<1>4. Executing(i)' = t.batch
  BY <1>1 DEF Executing
<1>5. \A j \in Nat \ {i} : Executing(j)' = Executing(j)
  BY <1>1 DEF Executing
<1> QED
  BY <1>2, <1>3, <1>4, <1>5

LEMMA TakeInKeepsEngineInv ==
  ASSUME EngineInv, NEW i \in DOMAIN tasks, TakeIn(i)
  PROVE  EngineInv'
<1> DEFINE adds == Without(newRequests, Stillborn(newRequests))
           t == [Fresh EXCEPT !.at = "adding", !.adds = adds,
                              !.drops = abortedRequests \ Stillborn(newRequests)]
<1>1. /\ tasks' = [tasks EXCEPT ![i] = t] /\ tasks[i].at = "start"
      /\ UNCHANGED <<inProgress, looping, batchNum, onFly, forsaken>>
  BY DEF TakeIn, scheduler, fates
<1>2. DOMAIN t = Fields /\ t.batch = {}
  BY FreshTask DEF Fields
<1> HIDE DEF t
<1>3. tasks[i].batch = {} /\ i \in Nat
  BY <1>1 DEF EngineInv, TasksInv
<1>4. TasksInv' /\ NeverRests' /\ \A j \in Nat : Executing(j)' = Executing(j)
  <2>1. Executing(i) = {}
    BY <1>3 DEF Executing
  <2> QED
    BY <1>1, <1>2, <2>1, OneTaskMoves
<1> QED
  BY <1>1, <1>4, MarksInvFrame DEF EngineInv

LEMMA AddingKeepsEngineInv ==
  ASSUME EngineInv, NEW i \in DOMAIN tasks,
         AddRequest(i) \/ RefuseRequest(i) \/ AddingRaises(i)
  PROVE  EngineInv'
<1>1. PICK t \in {[tasks[i] EXCEPT !.adds = Tail(tasks[i].adds)], Ended} :
        tasks' = [tasks EXCEPT ![i] = t]
  BY DEF AddRequest, RefuseRequest, AddingRaises
<1>2. /\ tasks[i].at = "adding"
      /\ UNCHANGED <<inProgress, looping, batchNum, onFly, forsaken>>
  BY DEF AddRequest, RefuseRequest, AddingRaises, scheduler, fates
<1>3. DOMAIN tasks[i] = Fields /\ tasks[i].batch = {} /\ i \in Nat
  BY <1>2 DEF EngineInv, TasksInv
<1>4. DOMAIN t = Fields /\ t.batch = {}
  BY <1>1, <1>3, EndedTask DEF Fields
<1>5. TasksInv' /\ NeverRests' /\ \A j \in Nat : Executing(j)' = Executing(j)
  <2>1. Executing(i) = {}
    BY <1>3 DEF Executing
  <2> QED
    BY <1>1, <1>2, <1>4, <2>1, OneTaskMoves
<1> QED
  BY <1>2, <1>5, MarksInvFrame DEF EngineInv

LEMMA FirstFreeIsFree == ASSUME NEW q PROVE FirstFree(q) \cap onFly = {}
  BY DEF FirstFree

LEMMA StepKeepsEngineInv ==
  ASSUME EngineInv, NEW i \in DOMAIN tasks, Step(i)
  PROVE  EngineInv'
<1>1. PICK q \in WithoutIgnored(Kept(tasks[i].drops)) :
         LET ignored == ToSet(Kept(tasks[i].drops)) \ ToSet(q)
             batch == FirstFree(q)
         IN  /\ onFly' = onFly \union batch
             /\ tasks' = [tasks EXCEPT ![i] =
                    IF batch = {} THEN Ended
                    ELSE [Fresh EXCEPT !.at = "executing", !.batch = batch,
                                       !.ignored = ignored]]
  BY DEF Step
<1> DEFINE batch == FirstFree(q)
           ignored == ToSet(Kept(tasks[i].drops)) \ ToSet(q)
           t == IF batch = {} THEN Ended
                ELSE [Fresh EXCEPT !.at = "executing", !.batch = batch,
                                   !.ignored = ignored]
<1>2. /\ tasks' = [tasks EXCEPT ![i] = t] /\ onFly' = onFly \union batch
  BY <1>1
<1>3. tasks[i].at = "adding" /\ UNCHANGED <<inProgress, looping, batchNum, forsaken>>
  BY DEF Step
<1>4. batch \cap onFly = {}
  BY FirstFreeIsFree
<1> HIDE DEF batch, ignored
<1>5. DOMAIN t = Fields /\ t.batch = batch /\ (t.at # "executing" => t.batch = {})
  BY FreshTask, EndedTask DEF Fields
<1> HIDE DEF t
<1>6. Executing(i) = {} /\ i \in Nat
  BY <1>3 DEF EngineInv, TasksInv, Executing
<1>7. /\ TasksInv' /\ NeverRests' /\ Executing(i)' = batch
      /\ \A j \in Nat \ {i} : Executing(j)' = Executing(j)
  BY <1>2, <1>3, <1>5, OneTaskMoves
<1>8. MarksInv'
  <2>1. forsaken' \subseteq onFly'
    BY <1>2, <1>3 DEF EngineInv, MarksInv
  <2>2. \A r \in onFly' \ forsaken' : \E j \in Nat : r \in Executing(j)'
    BY <1>2, <1>3, <1>6, <1>7 DEF EngineInv, MarksInv
  <2>3. \A j \in Nat : Executing(j)' \subseteq onFly' \ forsaken'
    BY <1>2, <1>3, <1>4, <1>7 DEF EngineInv, MarksInv
  <2>4. \A j, k \in Nat : j # k => Executing(j)' \cap Executing(k)' = {}
    BY <1>4, <1>7 DEF EngineInv, MarksInv
  <2> QED
    BY <2>1, <2>2, <2>3, <2>4 DEF MarksInv
<1> QED
  BY <1>7, <1>8 DEF EngineInv

(* A step ends: its marks are taken off, or left behind.                   *)
LEMMA EndKeepsEngineInv ==
  ASSUME EngineInv, NEW i \in DOMAIN tasks, Answer(i) \/ StepFails(i)
  PROVE  EngineInv'
<1>1. /\ tasks' = [tasks EXCEPT ![i] = Ended]
      /\ \/ onFly' = onFly \ tasks[i].batch /\ forsaken' = forsaken
         \/ onFly' = onFly /\ forsaken' = forsaken \union tasks[i].batch
      /\ UNCHANGED <<inProgress, looping, batchNum>>
  BY DEF Answer, StepFails, scheduler, fates
<1>2. Executing(i) = tasks[i].batch /\ i \in Nat
  BY DEF EngineInv, TasksInv, Executing
<1>3. /\ TasksInv' /\ NeverRests' /\ Executing(i)' = {}
      /\ \A j \in Nat \ {i} : Executing(j)' = Executing(j)
  BY <1>1, EndedTask, OneTaskMoves
<1>4. /\ Executing(i) \subseteq onFly \ forsaken /\ forsaken \subseteq onFly
      /\ \A j \in Nat \ {i} : Executing(j) \cap Executing(i) = {}
  BY <1>2 DEF EngineInv, MarksInv
<1>5. MarksInv'
  <2>1. forsaken' \subseteq onFly'
    BY <1>1, <1>2, <1>4
  <2>2. \A r \in onFly' \ forsaken' : \E j \in Nat : r \in Executing(j)'
    BY <1>1, <1>2, <1>3 DEF EngineInv, MarksInv
  <2>3. \A j \in Nat : Executing(j)' \subseteq onFly' \ forsaken'
    BY <1>1, <1>2, <1>3, <1>4 DEF EngineInv, MarksInv
  <2>4. \A j, k \in Nat : j # k => Executing(j)' \cap Executing(k)' = {}
    BY <1>3 DEF EngineInv, MarksInv
  <2> QED
    BY <2>1, <2>2, <2>3, <2>4 DEF MarksInv
<1> QED
  BY <1>3, <1>5 DEF EngineInv

-----------------------------------------------------------------------------
LEMMA NextEngineInv == EngineInv /\ [Next]_vars => EngineInv'
<1> SUFFICES ASSUME EngineInv, [Next]_vars PROVE EngineInv'
  OBVIOUS
<1>1. ASSUME NEW r \in Requests, Ask(r) \/ Cancel(r) PROVE EngineInv'
  BY <1>1, EngineInvFrame DEF Ask, Cancel, loop, scheduler, fates
<1>2. CASE WakeUp
  BY <1>2, WakeUpKeepsEngineInv
<1>3. CASE LoopTurn
  BY <1>3, LoopTurnKeepsEngineInv
<1>4. ASSUME NEW i \in DOMAIN tasks, TaskMoves(i) \/ TaskRaises(i) PROVE EngineInv'
  BY <1>4, TakeInKeepsEngineInv, AddingKeepsEngineInv, StepKeepsEngineInv,
     EndKeepsEngineInv DEF TaskMoves, TaskRaises
<1>5. CASE UNCHANGED vars
  BY <1>5, EngineInvFrame DEF vars, loop, scheduler, fates
<1> QED
  BY <1>1, <1>2, <1>3, <1>4, <1>5 DEF Next

LEMMA EngineInvMarks == EngineInv => MarksAreExecuted
<1> SUFFICES ASSUME EngineInv, NEW r \in Requests
             PROVE  Cardinality(ExecutingTasks(r)) =
                       IF r \in onFly /\ r \notin forsaken THEN 1 ELSE 0
  BY DEF MarksAreExecuted
<1>1. ASSUME NEW j \in ExecutingTasks(r) PROVE j \in Nat /\ r \in Executing(j)
  BY DEF EngineInv, TasksInv, ExecutingTasks, Executing
<1>2. CASE r \in onFly /\ r \notin forsaken
  <2>1. PICK i \in Nat : r \in Executing(i)
    BY <1>2 DEF EngineInv, MarksInv
  <2>2. i \in ExecutingTasks(r)
    BY <2>1 DEF Executing, ExecutingTasks
  <2>3. ASSUME NEW j \in ExecutingTasks(r) PROVE j = i
    BY <1>1, <2>1 DEF EngineInv, MarksInv
  <2>4. ExecutingTasks(r) = {i}
    BY <2>2, <2>3
  <2> QED
    BY <1>2, <2>4, FS_Singleton
<1>3. CASE ~(r \in onFly /\ r \notin forsaken)
  <2>1. \A j \in Nat : r \notin Executing(j)
    BY <1>3 DEF EngineInv, MarksInv
  <2>2. ExecutingTasks(r) = {}
    BY <1>1, <2>1
  <2> QED
    BY <1>3, <2>2, FS_EmptySet
<1> QED
  BY <1>2, <1>3

(* A request is executed by one task while it is marked as on the fly, and *)
(* by none when it is not marked or its step failed, for any number of     *)
(* requests and tasks, however the plan changes, whether or not adding a   *)
(* request suspends, and whichever steps fail (molink_engine.py:519, 221). *)
THEOREM EveryMarkIsExecuted == Spec => []MarksAreExecuted
<1>1. Spec => []EngineInv
  BY InitEngineInv, NextEngineInv, PTL DEF Spec
<1> QED
  BY <1>1, EngineInvMarks, PTL

-----------------------------------------------------------------------------
(* Where a request is, and who is to abort it.                             *)
Adds(i) == IF i \in DOMAIN tasks THEN ToSet(tasks[i].adds) ELSE {}
Drops(i) == IF i \in DOMAIN tasks THEN tasks[i].drops ELSE {}
Ignored(i) == IF i \in DOMAIN tasks THEN tasks[i].ignored ELSE {}
Busy(i) == i \in DOMAIN tasks /\ tasks[i].at = "adding"
News == ToSet(newRequests)
Queued == ToSet(queue)

Present(r) == r \in News \/ r \in Queued \/ \E i \in Nat : r \in Adds(i)
Waiting(r) == Present(r) \/ \E i \in Nat : r \in Ignored(i)
Unwanted(r) == r \in abortedRequests \/ \E i \in Nat : r \in Drops(i)

GivenUp == {"cancelled", "refused"}
Ends == {"answered"} \union GivenUp
ClientStates == {"absent", "asked"} \union Ends

PlaceTypes ==
    /\ client \in [Requests -> ClientStates]
    /\ newRequests \in Seq(Requests) /\ Distinct(newRequests)
    /\ queue \in Seq(Requests) /\ Distinct(queue)

TaskPlaces ==
    \A i \in DOMAIN tasks :
        /\ tasks[i].adds \in Seq(Requests) /\ Distinct(tasks[i].adds)
        /\ tasks[i].at # "adding" => tasks[i].adds = <<>> /\ tasks[i].drops = {}
        /\ tasks[i].at # "executing" => tasks[i].ignored = {}

Disjoint ==
    /\ News \cap Queued = {}
    /\ \A i \in Nat : Adds(i) \cap News = {} /\ Adds(i) \cap Queued = {}
    /\ \A i, j \in Nat : i # j => Adds(i) \cap Adds(j) = {}

(* What a step ignores has left the queue.                                 *)
IgnoredApart ==
    /\ \A i \in Nat : \A r \in Ignored(i) : ~Present(r)
    /\ \A i, j \in Nat : i # j => Ignored(i) \cap Ignored(j) = {}

(* A request that is waited for is somewhere, and can be answered, unless  *)
(* it ended with a task.                                                   *)
Placed ==
    \A r \in Requests :
        /\ client[r] = "absent" => ~Waiting(r) /\ r \notin lost
        /\ client[r] = "asked" => /\ Waiting(r) <=> r \notin lost
                                  /\ r \in News \/ r \in streams

(* Only what has ended is aborted; the tracker learns of it at once.       *)
AbortsAreAsked ==
    /\ \A r \in Requests : Unwanted(r) => client[r] \in Ends
    /\ \A r \in News : client[r] \in GivenUp => r \in abortedRequests

(* If adding does not suspend, one task adds at a time, and what was given *)
(* up and is still there has its abort ahead of it.                        *)
AbortsComeLast ==
    ~slowAdd =>
        /\ \A i, j \in Nat : Busy(i) /\ Busy(j) => i = j
        /\ \A r \in Requests \ lost : client[r] \in GivenUp /\ Present(r) => Unwanted(r)

PlacesInv ==
    /\ PlaceTypes /\ TaskPlaces /\ Disjoint /\ IgnoredApart
    /\ Placed /\ AbortsAreAsked /\ AbortsComeLast

LEMMA InitPlacesInv == Init => PlacesInv
<1> SUFFICES ASSUME Init PROVE PlacesInv
  OBVIOUS
<1>1. /\ client = [r \in Requests |-> "absent"] /\ newRequests = <<>> /\ queue = <<>>
      /\ abortedRequests = {} /\ lost = {} /\ DOMAIN tasks = {}
  BY DEF Init
<1>2. ToSet(<<>>) = {} /\ <<>> \in Seq(Requests) /\ Distinct(<<>>)
  BY DEF ToSet, Distinct
<1>3. PlaceTypes /\ TaskPlaces
  BY <1>1, <1>2 DEF PlaceTypes, ClientStates, TaskPlaces
<1>4. /\ News = {} /\ Queued = {}
      /\ \A i \in Nat : Adds(i) = {} /\ Drops(i) = {} /\ Ignored(i) = {} /\ ~Busy(i)
  BY <1>1, <1>2 DEF News, Queued, Adds, Drops, Ignored, Busy
<1>5. \A r : ~Present(r) /\ ~Waiting(r) /\ ~Unwanted(r)
  BY <1>1, <1>4 DEF Present, Waiting, Unwanted
<1> QED
  BY <1>1, <1>3, <1>4, <1>5
     DEF PlacesInv, Disjoint, IgnoredApart, Placed, AbortsAreAsked, AbortsComeLast

(* The invariant is about clients, the tracker, the queue, and what tasks  *)
(* add, drop and ignore.                                                   *)
LEMMA PlacesInvFrame ==
  ASSUME PlacesInv, TaskPlaces', UNCHANGED <<slowAdd, client, tracker, queue, lost>>,
         \A i \in Nat : /\ Adds(i)' = Adds(i) /\ Drops(i)' = Drops(i)
                        /\ Ignored(i)' = Ignored(i) /\ (Busy(i)' => Busy(i))
  PROVE  PlacesInv'
<1>1. \A r : (Present(r)' <=> Present(r)) /\ (Unwanted(r)' <=> Unwanted(r))
  BY DEF Present, Unwanted, News, Queued, tracker
<1>2. \A r : Waiting(r)' <=> Waiting(r)
  BY <1>1 DEF Waiting
<1>3. PlaceTypes'
  BY DEF PlacesInv, PlaceTypes, tracker
<1>4. Disjoint' /\ IgnoredApart'
  BY <1>1 DEF PlacesInv, Disjoint, IgnoredApart, News, Queued, tracker
<1>5. Placed' /\ AbortsAreAsked' /\ AbortsComeLast'
  BY <1>1, <1>2 DEF PlacesInv, Placed, AbortsAreAsked, AbortsComeLast, News, tracker
<1> QED
  BY <1>3, <1>4, <1>5 DEF PlacesInv

LEMMA IdleTask ==
  ASSUME PlacesInv, NEW i \in Nat, ~Busy(i)
  PROVE  Adds(i) = {} /\ Drops(i) = {}
  BY DEF PlacesInv, TaskPlaces, Busy, Adds, Drops, ToSet

(* What is given up is neither absent nor asked, and the other way round.  *)
LEMMA ClientIs ==
  ASSUME PlacesInv, NEW r \in Requests
  PROVE  client[r] \notin Ends <=> client[r] = "absent" \/ client[r] = "asked"
  BY DEF PlacesInv, PlaceTypes, ClientStates, Ends, GivenUp

LEMMA FreshPlaces ==
    /\ Fresh.adds = <<>> /\ Fresh.drops = {} /\ Fresh.ignored = {} /\ Fresh.at # "adding"
    /\ Ended.adds = <<>> /\ Ended.drops = {} /\ Ended.ignored = {} /\ Ended.at = "done"
    /\ <<>> \in Seq(Requests) /\ Distinct(<<>>) /\ ToSet(<<>>) = {}
  BY DEF Fresh, Ended, Distinct, ToSet

-----------------------------------------------------------------------------
(* A client asks, or gives up: what the tasks hold stays.                  *)
LEMMA SameTasks ==
  ASSUME UNCHANGED tasks
  PROVE  \A i \in Nat : /\ Adds(i)' = Adds(i) /\ Drops(i)' = Drops(i)
                        /\ Ignored(i)' = Ignored(i) /\ (Busy(i)' <=> Busy(i))
  BY DEF Adds, Drops, Ignored, Busy

LEMMA AskKeepsPlaces ==
  ASSUME PlacesInv, NEW r \in Requests, Ask(r)
  PROVE  PlacesInv'
<1>1. /\ client[r] = "absent" /\ client' = [client EXCEPT ![r] = "asked"]
      /\ newRequests' = Append(newRequests, r)
      /\ UNCHANGED <<slowAdd, abortedRequests, streams, queue, tasks, lost>>
  BY DEF Ask, scheduler, loop, fates
<1>2. ~Waiting(r) /\ ~Present(r) /\ r \notin lost
  BY <1>1 DEF PlacesInv, Placed, Waiting
<1>3. ~Unwanted(r)
  BY <1>1, ClientIs DEF PlacesInv, AbortsAreAsked
<1>4. newRequests' \in Seq(Requests) /\ Distinct(newRequests') /\ News' = News \cup {r}
  BY <1>1, <1>2, AppendAdds DEF PlacesInv, PlaceTypes, News, Present
<1>5. Queued' = Queued
  BY <1>1 DEF Queued
<1>6. \A s : /\ Present(s)' <=> s = r \/ Present(s)
             /\ Waiting(s)' <=> s = r \/ Waiting(s)
             /\ Unwanted(s)' <=> Unwanted(s)
  BY <1>1, <1>4, <1>5, SameTasks DEF Present, Waiting, Unwanted
<1>7. /\ client' \in [Requests -> ClientStates]
      /\ client'[r] = "asked" /\ \A s \in Requests \ {r} : client'[s] = client[s]
  BY <1>1 DEF PlacesInv, PlaceTypes, ClientStates
<1>8. PlaceTypes' /\ TaskPlaces'
  BY <1>1, <1>4, <1>7 DEF PlacesInv, PlaceTypes, TaskPlaces
<1>9. Disjoint'
  BY <1>2, <1>4, <1>5, <1>1, SameTasks DEF PlacesInv, Disjoint, Present
<1>10. IgnoredApart'
  BY <1>1, <1>2, <1>6, SameTasks DEF PlacesInv, IgnoredApart, Waiting
<1>11. Placed'
  BY <1>1, <1>2, <1>4, <1>6, <1>7 DEF PlacesInv, Placed
<1>12. AbortsAreAsked'
  <2>1. \A s \in Requests : Unwanted(s)' => client'[s] \in Ends
    BY <1>3, <1>6, <1>7 DEF PlacesInv, AbortsAreAsked
  <2>2. News \subseteq Requests
    BY SetOfSeq DEF PlacesInv, PlaceTypes, News
  <2>3. \A s \in News' : client'[s] \in GivenUp => s \in abortedRequests'
    BY <1>1, <1>4, <1>7, <2>2 DEF PlacesInv, AbortsAreAsked, GivenUp
  <2> QED
    BY <2>1, <2>3 DEF AbortsAreAsked, Ends, GivenUp
<1>13. AbortsComeLast'
  <2>1. client'[r] \notin GivenUp
    BY <1>7 DEF GivenUp
  <2> QED
    BY <1>1, <1>6, <1>7, <2>1, SameTasks DEF PlacesInv, AbortsComeLast
<1> QED
  BY <1>8, <1>9, <1>10, <1>11, <1>12, <1>13 DEF PlacesInv

LEMMA CancelKeepsPlaces ==
  ASSUME PlacesInv, NEW r \in Requests, Cancel(r)
  PROVE  PlacesInv'
<1>1. /\ client[r] = "asked" /\ client' = [client EXCEPT ![r] = "cancelled"]
      /\ abortedRequests' = abortedRequests \union {r}
      /\ streams' = streams \ {r}
      /\ UNCHANGED <<slowAdd, newRequests, queue, tasks, lost>>
  BY DEF Cancel, scheduler, loop, fates
<1>2. News' = News /\ Queued' = Queued
  BY <1>1 DEF News, Queued
<1>3. \A s : /\ Present(s)' <=> Present(s)
             /\ Waiting(s)' <=> Waiting(s)
             /\ Unwanted(s)' <=> s = r \/ Unwanted(s)
  BY <1>1, <1>2, SameTasks DEF Present, Waiting, Unwanted
<1>4. /\ client' \in [Requests -> ClientStates] /\ "cancelled" \in Ends
      /\ client'[r] = "cancelled" /\ \A s \in Requests \ {r} : client'[s] = client[s]
  BY <1>1 DEF PlacesInv, PlaceTypes, ClientStates, Ends, GivenUp
<1>5. PlaceTypes' /\ TaskPlaces' /\ Disjoint' /\ IgnoredApart'
  BY <1>1, <1>2, <1>3, <1>4, SameTasks
     DEF PlacesInv, PlaceTypes, TaskPlaces, Disjoint, IgnoredApart
<1>6. Placed'
  BY <1>1, <1>2, <1>3, <1>4 DEF PlacesInv, Placed
<1>7. AbortsAreAsked'
  <2>1. News \subseteq Requests
    BY SetOfSeq DEF PlacesInv, PlaceTypes, News
  <2> QED
    BY <1>1, <1>2, <1>3, <1>4, <2>1 DEF PlacesInv, AbortsAreAsked
<1>8. AbortsComeLast'
  BY <1>1, <1>2, <1>3, <1>4, SameTasks DEF PlacesInv, AbortsComeLast
<1> QED
  BY <1>5, <1>6, <1>7, <1>8 DEF PlacesInv

LEMMA WakeUpKeepsPlaces ==
  ASSUME EngineInv, PlacesInv, WakeUp
  PROVE  PlacesInv'
<1>1. /\ tasks' = [i \in 1..batchNum' |-> Fresh]
      /\ UNCHANGED <<slowAdd, client, tracker, queue, lost>>
  BY DEF WakeUp, scheduler, fates
<1>2. DOMAIN tasks = {}
  BY DEF EngineInv, NeverRests, WakeUp
<1>3. TaskPlaces'
  BY <1>1, FreshPlaces DEF TaskPlaces
<1>4. \A i \in Nat : /\ Adds(i)' = Adds(i) /\ Drops(i)' = Drops(i)
                      /\ Ignored(i)' = Ignored(i) /\ (Busy(i)' => Busy(i))
  BY <1>1, <1>2, FreshPlaces DEF Adds, Drops, Ignored, Busy
<1> QED
  BY <1>1, <1>3, <1>4, PlacesInvFrame

LEMMA LoopTurnKeepsPlaces ==
  ASSUME EngineInv, PlacesInv, LoopTurn
  PROVE  PlacesInv'
<1> DEFINE again(i) == i <= batchNum' /\ Restarts(Grown[i])
<1>1. /\ tasks' = [i \in Indices |-> IF again(i) THEN Fresh ELSE Grown[i]]
      /\ UNCHANGED <<slowAdd, client, tracker, queue, lost>>
  BY DEF LoopTurn, scheduler, fates
<1>2. DOMAIN tasks \subseteq Indices
  BY DEF Indices
<1>3. \A i \in Indices : Grown[i] = IF i \in DOMAIN tasks THEN tasks[i] ELSE Fresh
  BY DEF Grown
<1>4. \A i \in Indices : again(i) => Grown[i].at = "done"
  BY DEF Restarts, IsDone
<1> HIDE DEF again
<1>5. DOMAIN tasks' = Indices
      /\ \A i \in Indices : tasks'[i] = IF again(i) THEN Fresh ELSE Grown[i]
  BY <1>1
<1>6. TaskPlaces'
  <2>1. ASSUME NEW i \in Indices
        PROVE  /\ Grown[i].adds \in Seq(Requests) /\ Distinct(Grown[i].adds)
               /\ Grown[i].at # "adding" => Grown[i].adds = <<>> /\ Grown[i].drops = {}
               /\ Grown[i].at # "executing" => Grown[i].ignored = {}
    BY <1>3, FreshPlaces DEF PlacesInv, TaskPlaces
  <2> QED
    BY <1>5, <2>1, FreshPlaces DEF TaskPlaces
<1>7. ASSUME NEW i \in Nat
      PROVE  /\ Adds(i)' = Adds(i) /\ Drops(i)' = Drops(i)
             /\ Ignored(i)' = Ignored(i) /\ (Busy(i)' => Busy(i))
  <2>1. CASE i \notin Indices
    BY <1>2, <1>5, <2>1 DEF Adds, Drops, Ignored, Busy
  <2>2. CASE i \in Indices \ DOMAIN tasks
    BY <1>3, <1>5, <2>2, FreshPlaces DEF Adds, Drops, Ignored, Busy
  <2>3. CASE i \in DOMAIN tasks /\ ~again(i)
    BY <1>2, <1>3, <1>5, <2>3 DEF Adds, Drops, Ignored, Busy
  <2>4. CASE i \in DOMAIN tasks /\ again(i)
    <3>1. ~Busy(i) /\ Ignored(i) = {}
      BY <1>2, <1>3, <1>4, <2>4 DEF Busy, Ignored, PlacesInv, TaskPlaces
    <3>2. Adds(i)' = {} /\ Drops(i)' = {} /\ Ignored(i)' = {} /\ ~Busy(i)'
      BY <1>2, <1>5, <2>4, FreshPlaces DEF Adds, Drops, Ignored, Busy
    <3> QED
      BY <3>1, <3>2, IdleTask
  <2> QED
    BY <2>1, <2>2, <2>3, <2>4
<1> QED
  BY <1>1, <1>6, <1>7, PlacesInvFrame

-----------------------------------------------------------------------------
LEMMA OneTaskPlaces ==
  ASSUME EngineInv, PlacesInv, NEW i \in DOMAIN tasks, NEW t,
         tasks' = [tasks EXCEPT ![i] = t],
         t.adds \in Seq(Requests), Distinct(t.adds),
         t.at # "adding" => t.adds = <<>> /\ t.drops = {},
         t.at # "executing" => t.ignored = {}
  PROVE  /\ TaskPlaces' /\ i \in Nat
         /\ Adds(i)' = ToSet(t.adds) /\ Drops(i)' = t.drops /\ Ignored(i)' = t.ignored
         /\ Busy(i)' <=> t.at = "adding"
         /\ \A j \in Nat \ {i} : /\ Adds(j)' = Adds(j) /\ Drops(j)' = Drops(j)
                                 /\ Ignored(j)' = Ignored(j) /\ (Busy(j)' <=> Busy(j))
<1>1. DOMAIN tasks' = DOMAIN tasks /\ tasks'[i] = t
      /\ \A j \in DOMAIN tasks \ {i} : tasks'[j] = tasks[j]
  OBVIOUS
<1>2. TaskPlaces'
  BY <1>1 DEF PlacesInv, TaskPlaces
<1>3. i \in Nat
  BY DEF EngineInv, TasksInv
<1>4. /\ Adds(i)' = ToSet(t.adds) /\ Drops(i)' = t.drops /\ Ignored(i)' = t.ignored
      /\ Busy(i)' <=> t.at = "adding"
  BY <1>1 DEF Adds, Drops, Ignored, Busy
<1>5. \A j \in Nat \ {i} : /\ Adds(j)' = Adds(j) /\ Drops(j)' = Drops(j)
                           /\ Ignored(j)' = Ignored(j) /\ (Busy(j)' <=> Busy(j))
  BY <1>1 DEF Adds, Drops, Ignored, Busy
<1> QED
  BY <1>2, <1>3, <1>4, <1>5

(* A task that is adding or done ignores nothing.                          *)
LEMMA NothingIgnored ==
  ASSUME PlacesInv, NEW i \in DOMAIN tasks, tasks[i].at # "executing"
  PROVE  Ignored(i) = {}
  BY DEF PlacesInv, TaskPlaces, Ignored

(* A task ends, and drops what it held.                                    *)
LEMMA EndedPlaces ==
  ASSUME EngineInv, PlacesInv, NEW i \in DOMAIN tasks, tasks' = [tasks EXCEPT ![i] = Ended]
  PROVE  /\ TaskPlaces' /\ i \in Nat
         /\ Adds(i)' = {} /\ Drops(i)' = {} /\ Ignored(i)' = {} /\ ~Busy(i)'
         /\ \A j \in Nat \ {i} : /\ Adds(j)' = Adds(j) /\ Drops(j)' = Drops(j)
                                 /\ Ignored(j)' = Ignored(j) /\ (Busy(j)' <=> Busy(j))
  BY FreshPlaces, OneTaskPlaces

(* If adding does not suspend, a task that moves is alone in adding.       *)
LEMMA AloneInAdding ==
  ASSUME EngineInv, NEW i \in DOMAIN tasks, Suspended(i), ~slowAdd
  PROVE  \A j \in Nat \ {i} : ~Busy(j)
  BY DEF Suspended, Busy

LEMMA TakeInKeepsPlaces ==
  ASSUME EngineInv, PlacesInv, NEW i \in DOMAIN tasks, TakeIn(i)
  PROVE  PlacesInv'
<1> DEFINE stillborn == Stillborn(newRequests)
           adds == Without(newRequests, stillborn)
           t == [Fresh EXCEPT !.at = "adding", !.adds = adds,
                              !.drops = abortedRequests \ stillborn]
<1>1. /\ tasks' = [tasks EXCEPT ![i] = t] /\ tasks[i].at = "start" /\ Suspended(i)
      /\ streams' = streams \union ToSet(adds)
      /\ newRequests' = <<>> /\ abortedRequests' = {}
      /\ UNCHANGED <<slowAdd, client, queue, lost>>
  BY DEF TakeIn, scheduler, fates
<1>2. stillborn = News \cap abortedRequests
  BY DEF Stillborn, News
<1>3. /\ adds \in Seq(Requests) /\ Distinct(adds) /\ ToSet(adds) = News \ stillborn
  BY WithoutKeeps DEF PlacesInv, PlaceTypes, News
<1>4. t.at = "adding" /\ t.adds = adds /\ t.drops = abortedRequests \ stillborn
      /\ t.ignored = {}
  BY DEF Fresh
<1> HIDE DEF t, adds, stillborn
<1>5. /\ TaskPlaces' /\ i \in Nat
      /\ Adds(i)' = News \ stillborn /\ Drops(i)' = abortedRequests \ stillborn
      /\ Ignored(i)' = {} /\ Busy(i)'
      /\ \A j \in Nat \ {i} : /\ Adds(j)' = Adds(j) /\ Drops(j)' = Drops(j)
                              /\ Ignored(j)' = Ignored(j) /\ (Busy(j)' <=> Busy(j))
  BY <1>1, <1>3, <1>4, OneTaskPlaces
<1>6. Adds(i) = {} /\ Drops(i) = {} /\ Ignored(i) = {} /\ ~Busy(i)
  <2>1. ~Busy(i)
    BY <1>1 DEF Busy
  <2> QED
    BY <1>1, <1>5, <2>1, IdleTask, NothingIgnored
<1>7. News' = {} /\ Queued' = Queued
  BY <1>1, FreshPlaces DEF News, Queued
<1>8. \A r : Present(r)' <=> Present(r) /\ r \notin stillborn
  <2>1. ASSUME NEW r PROVE Present(r)' => Present(r) /\ r \notin stillborn
    BY <1>2, <1>5, <1>6, <1>7 DEF Present, PlacesInv, Disjoint
  <2>2. ASSUME NEW r, Present(r), r \notin stillborn PROVE Present(r)'
    BY <1>5, <1>6, <1>7, <2>2 DEF Present
  <2> QED
    BY <2>1, <2>2
<1>9. \A j \in Nat : Ignored(j)' = Ignored(j)
  BY <1>5, <1>6
<1>10. \A r : Waiting(r)' <=> Present(r)' \/ \E j \in Nat : r \in Ignored(j)
  BY <1>9 DEF Waiting
<1>11. \A r : Unwanted(r)' <=> \/ r \in abortedRequests /\ r \notin stillborn
                              \/ \E j \in Nat : r \in Drops(j)
  BY <1>1, <1>5, <1>6 DEF Unwanted
<1>12. News \subseteq Requests
  BY SetOfSeq DEF PlacesInv, PlaceTypes, News
<1>13. PlaceTypes'
  BY <1>1, FreshPlaces DEF PlacesInv, PlaceTypes
<1>14. Disjoint'
  <2>1. \A j \in Nat : Adds(j)' \cap News' = {} /\ Adds(j)' \cap Queued' = {}
    BY <1>5, <1>7 DEF PlacesInv, Disjoint
  <2>2. \A j, k \in Nat : j # k => Adds(j)' \cap Adds(k)' = {}
    BY <1>5 DEF PlacesInv, Disjoint
  <2> QED
    BY <1>7, <2>1, <2>2 DEF Disjoint
<1>15. IgnoredApart'
  BY <1>8, <1>9 DEF PlacesInv, IgnoredApart
<1>16. Placed'
  <2> SUFFICES ASSUME NEW r \in Requests
               PROVE  /\ client'[r] = "absent" => ~Waiting(r)' /\ r \notin lost'
                      /\ client'[r] = "asked" => /\ Waiting(r)' <=> r \notin lost'
                                                 /\ r \in News' \/ r \in streams'
    BY DEF Placed
  <2>1. ASSUME client[r] = "absent" PROVE ~Waiting(r)' /\ r \notin lost
    BY <1>8, <1>10, <2>1 DEF PlacesInv, Placed, Waiting
  <2>2. ASSUME client[r] = "asked" PROVE (Waiting(r)' <=> r \notin lost) /\ r \in streams'
    <3>1. r \notin abortedRequests
      BY <2>2, ClientIs DEF PlacesInv, AbortsAreAsked, Unwanted
    <3>2. r \notin stillborn
      BY <1>2, <3>1
    <3>3. Waiting(r)' <=> Waiting(r)
      BY <1>8, <1>10, <3>2 DEF Waiting
    <3> QED
      BY <1>1, <1>3, <2>2, <3>2, <3>3 DEF PlacesInv, Placed
  <2> QED
    BY <1>1, <2>1, <2>2
<1>17. AbortsAreAsked'
  BY <1>1, <1>7, <1>11 DEF PlacesInv, AbortsAreAsked, Unwanted
<1>18. AbortsComeLast'
  <2> SUFFICES ASSUME ~slowAdd
               PROVE  /\ \A j, k \in Nat : Busy(j)' /\ Busy(k)' => j = k
                      /\ \A r \in Requests \ lost : client[r] \in GivenUp /\ Present(r)'
                                                   => Unwanted(r)'
    BY <1>1 DEF AbortsComeLast
  <2>1. \A j \in Nat \ {i} : ~Busy(j)'
    BY <1>1, <1>5, AloneInAdding
  <2>2. ASSUME NEW r \in Requests \ lost, client[r] \in GivenUp, Present(r)'
        PROVE  Unwanted(r)'
    BY <1>8, <1>11, <2>2 DEF PlacesInv, AbortsComeLast, Unwanted
  <2> QED
    BY <2>1, <2>2
<1> QED
  BY <1>5, <1>13, <1>14, <1>16, <1>17, <1>18, <1>15 DEF PlacesInv

(* A task is through with the first of the requests it adds.               *)
LEMMA HeadLeaves ==
  ASSUME EngineInv, PlacesInv, NEW i \in DOMAIN tasks, tasks[i].at = "adding",
         tasks[i].adds # <<>>, tasks' = [tasks EXCEPT ![i].adds = Tail(@)]
  PROVE  LET new == Head(tasks[i].adds)
         IN  /\ TaskPlaces' /\ i \in Nat /\ new \in Requests
             /\ Adds(i) = Adds(i)' \cup {new} /\ new \notin Adds(i)'
             /\ \A j \in Nat \ {i} : Adds(j)' = Adds(j)
             /\ \A j \in Nat : /\ Drops(j)' = Drops(j) /\ Ignored(j)' = Ignored(j)
                               /\ Busy(j)' <=> Busy(j)
             /\ new \notin Queued /\ new \notin News
             /\ \A j \in Nat \ {i} : new \notin Adds(j)
<1> DEFINE q == tasks[i].adds
           t == [tasks[i] EXCEPT !.adds = Tail(q)]
           new == Head(q)
<1>1. tasks' = [tasks EXCEPT ![i] = t] /\ q # <<>>
  OBVIOUS
<1>2. /\ Tail(q) \in Seq(Requests) /\ Distinct(Tail(q)) /\ new \in Requests
      /\ ToSet(q) = ToSet(Tail(q)) \cup {new} /\ new \notin ToSet(Tail(q))
  BY <1>1, TailRemoves DEF PlacesInv, TaskPlaces
<1>3. /\ t.adds = Tail(q) /\ t.drops = tasks[i].drops /\ t.ignored = tasks[i].ignored
      /\ t.at = "adding"
  BY <1>1 DEF EngineInv, TasksInv, Fields
<1>4. tasks[i].ignored = {}
  BY DEF PlacesInv, TaskPlaces
<1>5. /\ Busy(i) /\ Drops(i) = tasks[i].drops /\ Adds(i) = ToSet(q)
      /\ Ignored(i) = tasks[i].ignored
  BY DEF Busy, Drops, Adds, Ignored
<1> HIDE DEF t, new, q
<1>6. t.adds \in Seq(Requests) /\ Distinct(t.adds) /\ t.at = "adding" /\ t.ignored = {}
  BY <1>2, <1>3, <1>4
<1>7. /\ TaskPlaces' /\ i \in Nat
      /\ Adds(i)' = ToSet(t.adds) /\ Drops(i)' = t.drops /\ Ignored(i)' = t.ignored
      /\ Busy(i)' <=> t.at = "adding"
      /\ \A j \in Nat \ {i} : /\ Adds(j)' = Adds(j) /\ Drops(j)' = Drops(j)
                              /\ Ignored(j)' = Ignored(j) /\ (Busy(j)' <=> Busy(j))
  BY <1>1, <1>6, OneTaskPlaces
<1>8. Adds(i) = Adds(i)' \cup {new} /\ new \notin Adds(i)'
  BY <1>2, <1>3, <1>5, <1>7
<1>9. new \notin Queued /\ new \notin News /\ \A j \in Nat \ {i} : new \notin Adds(j)
  BY <1>7, <1>8 DEF PlacesInv, Disjoint
<1>10. \A j \in Nat : /\ Drops(j)' = Drops(j) /\ Ignored(j)' = Ignored(j)
                      /\ Busy(j)' <=> Busy(j)
  BY <1>3, <1>5, <1>7
<1> QED
  BY <1>2, <1>7, <1>8, <1>9, <1>10 DEF new, q

LEMMA AddRequestKeepsPlaces ==
  ASSUME EngineInv, PlacesInv, NEW i \in DOMAIN tasks, AddRequest(i)
  PROVE  PlacesInv'
<1> DEFINE new == Head(tasks[i].adds)
<1>1. /\ queue' = Append(queue, new)
      /\ UNCHANGED <<slowAdd, client, tracker, lost>>
  BY DEF AddRequest, fates
<1>2. /\ TaskPlaces' /\ i \in Nat /\ new \in Requests
      /\ Adds(i) = Adds(i)' \cup {new} /\ new \notin Adds(i)'
      /\ \A j \in Nat \ {i} : Adds(j)' = Adds(j)
      /\ \A j \in Nat : /\ Drops(j)' = Drops(j) /\ Ignored(j)' = Ignored(j)
                        /\ Busy(j)' <=> Busy(j)
      /\ new \notin Queued /\ new \notin News
      /\ \A j \in Nat \ {i} : new \notin Adds(j)
  BY HeadLeaves DEF AddRequest
<1> HIDE DEF new
<1>3. News' = News
  BY <1>1 DEF News, tracker
<1>4. queue' \in Seq(Requests) /\ Distinct(queue') /\ Queued' = Queued \cup {new}
  BY <1>1, <1>2, AppendAdds DEF PlacesInv, PlaceTypes, Queued
<1>5. \A r : (Present(r)' <=> Present(r)) /\ (Unwanted(r)' <=> Unwanted(r))
  <2>1. ASSUME NEW r PROVE (\E j \in Nat : r \in Adds(j)) <=>
                              r = new \/ \E j \in Nat : r \in Adds(j)'
    BY <1>2
  <2>2. ASSUME NEW r PROVE Unwanted(r)' <=> Unwanted(r)
    BY <1>1, <1>2 DEF Unwanted, tracker
  <2> QED
    BY <1>3, <1>4, <2>1, <2>2 DEF Present
<1>6. \A r : Waiting(r)' <=> Waiting(r)
  BY <1>2, <1>5 DEF Waiting
<1>7. PlaceTypes'
  BY <1>1, <1>4 DEF PlacesInv, PlaceTypes, tracker
<1>8. Disjoint'
  <2>1. News' \cap Queued' = {}
    BY <1>2, <1>3, <1>4 DEF PlacesInv, Disjoint
  <2>2. \A j \in Nat : Adds(j)' \subseteq Adds(j) /\ new \notin Adds(j)'
    BY <1>2
  <2>3. \A j \in Nat : Adds(j)' \cap News' = {} /\ Adds(j)' \cap Queued' = {}
    BY <1>3, <1>4, <2>2 DEF PlacesInv, Disjoint
  <2>4. \A j, k \in Nat : j # k => Adds(j)' \cap Adds(k)' = {}
    BY <2>2 DEF PlacesInv, Disjoint
  <2> QED
    BY <2>1, <2>3, <2>4 DEF Disjoint
<1>9. IgnoredApart'
  BY <1>2, <1>5 DEF PlacesInv, IgnoredApart
<1>10. Placed' /\ AbortsAreAsked' /\ AbortsComeLast'
  BY <1>1, <1>2, <1>3, <1>5, <1>6
     DEF PlacesInv, Placed, AbortsAreAsked, AbortsComeLast, tracker
<1> QED
  BY <1>2, <1>7, <1>8, <1>9, <1>10 DEF PlacesInv

(* A refused request is nowhere, and its abort with the tracker.           *)
LEMMA RefuseRequestKeepsPlaces ==
  ASSUME EngineInv, PlacesInv, NEW i \in DOMAIN tasks, RefuseRequest(i)
  PROVE  PlacesInv'
<1> DEFINE new == Head(tasks[i].adds)
<1>1. /\ client' = [client EXCEPT ![new] = IF new \in streams THEN "refused" ELSE @]
      /\ abortedRequests' = abortedRequests \union {new}
      /\ streams' = streams \ {new}
      /\ UNCHANGED <<slowAdd, newRequests, queue, lost>>
  BY DEF RefuseRequest, scheduler, fates
<1>2. /\ TaskPlaces' /\ i \in Nat /\ new \in Requests
      /\ Adds(i) = Adds(i)' \cup {new} /\ new \notin Adds(i)'
      /\ \A j \in Nat \ {i} : Adds(j)' = Adds(j)
      /\ \A j \in Nat : /\ Drops(j)' = Drops(j) /\ Ignored(j)' = Ignored(j)
                        /\ Busy(j)' <=> Busy(j)
      /\ new \notin Queued /\ new \notin News
      /\ \A j \in Nat \ {i} : new \notin Adds(j)
  BY HeadLeaves DEF RefuseRequest
<1> HIDE DEF new
<1>3. News' = News /\ Queued' = Queued
  BY <1>1 DEF News, Queued
<1>4. Present(new) /\ Waiting(new)
  BY <1>2 DEF Present, Waiting
<1>5. \A r : /\ Present(r)' <=> Present(r) /\ r # new
             /\ Unwanted(r)' <=> Unwanted(r) \/ r = new
  <2>1. ASSUME NEW r PROVE (\E j \in Nat : r \in Adds(j)') <=>
                              r # new /\ \E j \in Nat : r \in Adds(j)
    BY <1>2
  <2>2. ASSUME NEW r PROVE Unwanted(r)' <=> Unwanted(r) \/ r = new
    BY <1>1, <1>2 DEF Unwanted
  <2> QED
    BY <1>2, <1>3, <2>1, <2>2 DEF Present
<1>6. \A r : r # new => (Waiting(r)' <=> Waiting(r))
  BY <1>2, <1>5 DEF Waiting
<1>7. /\ \A r \in Requests \ {new} : client'[r] = client[r]
      /\ client'[new] = IF new \in streams THEN "refused" ELSE client[new]
  BY <1>1, <1>2 DEF PlacesInv, PlaceTypes
<1>8. client[new] # "absent" /\ (client[new] = "asked" => new \in streams)
  BY <1>2, <1>4 DEF PlacesInv, Placed
<1>9. client'[new] \in Ends
  BY <1>2, <1>7, <1>8, ClientIs DEF Ends, GivenUp
<1>10. PlaceTypes'
  <2>1. client' \in [Requests -> ClientStates]
    BY <1>1 DEF PlacesInv, PlaceTypes, ClientStates, Ends, GivenUp
  <2> QED
    BY <1>1, <2>1 DEF PlacesInv, PlaceTypes
<1>11. Disjoint'
  <2>1. \A j \in Nat : Adds(j)' \subseteq Adds(j)
    BY <1>2
  <2> QED
    BY <1>3, <2>1 DEF PlacesInv, Disjoint
<1>12. IgnoredApart'
  BY <1>2, <1>5 DEF PlacesInv, IgnoredApart
<1>13. Placed'
  <2>1. client'[new] # "absent" /\ client'[new] # "asked"
    BY <1>9 DEF Ends, GivenUp
  <2> QED
    BY <1>1, <1>3, <1>6, <1>7, <2>1 DEF PlacesInv, Placed
<1>14. AbortsAreAsked'
  <2>1. News \subseteq Requests
    BY SetOfSeq DEF PlacesInv, PlaceTypes, News
  <2> QED
    BY <1>1, <1>2, <1>3, <1>5, <1>7, <1>9, <2>1 DEF PlacesInv, AbortsAreAsked
<1>15. AbortsComeLast'
  BY <1>1, <1>2, <1>5, <1>7 DEF PlacesInv, AbortsComeLast
<1> QED
  BY <1>2, <1>10, <1>11, <1>12, <1>13, <1>14, <1>15 DEF PlacesInv

(* A task that raises while it adds loses what it had yet to add and abort.*)
LEMMA AddingRaisesKeepsPlaces ==
  ASSUME EngineInv, PlacesInv, NEW i \in DOMAIN tasks, AddingRaises(i)
  PROVE  PlacesInv'
<1>1. /\ tasks' = [tasks EXCEPT ![i] = Ended] /\ tasks[i].at = "adding"
      /\ lost' = lost \union ToSet(tasks[i].adds) \union tasks[i].drops
      /\ UNCHANGED <<slowAdd, client, tracker, queue>>
  BY DEF AddingRaises, scheduler
<1>2. /\ TaskPlaces' /\ i \in Nat
      /\ Adds(i)' = {} /\ Drops(i)' = {} /\ Ignored(i)' = {} /\ ~Busy(i)'
      /\ \A j \in Nat \ {i} : /\ Adds(j)' = Adds(j) /\ Drops(j)' = Drops(j)
                              /\ Ignored(j)' = Ignored(j) /\ (Busy(j)' <=> Busy(j))
  BY <1>1, EndedPlaces
<1>3. lost' = lost \union Adds(i) \union Drops(i) /\ Ignored(i) = {} /\ Busy(i)
  BY <1>1, NothingIgnored DEF Adds, Drops, Busy
<1>4. /\ News' = News /\ Queued' = Queued
      /\ abortedRequests' = abortedRequests /\ streams' = streams
  BY <1>1 DEF News, Queued, tracker
<1>5. \A r : r \in Adds(i) =>
         r \notin News /\ r \notin Queued /\ \A j \in Nat \ {i} : r \notin Adds(j)
  BY <1>2 DEF PlacesInv, Disjoint
<1>6. \A r : Present(r)' <=> Present(r) /\ r \notin Adds(i)
  BY <1>2, <1>4, <1>5 DEF Present
<1>7. \A j \in Nat : Ignored(j)' = Ignored(j)
  BY <1>2, <1>3
<1>8. \A r \in Adds(i) : Waiting(r) /\ ~Waiting(r)'
  <2>1. \A r \in Adds(i) : Present(r)
    BY <1>2 DEF Present
  <2> QED
    BY <1>6, <1>7, <2>1 DEF Waiting, PlacesInv, IgnoredApart
<1>9. \A r : r \notin Adds(i) => (Waiting(r)' <=> Waiting(r))
  BY <1>6, <1>7 DEF Waiting
<1>10. \A r : /\ Unwanted(r)' => Unwanted(r)
              /\ Unwanted(r) => Unwanted(r)' \/ r \in Drops(i)
              /\ r \in Drops(i) => Unwanted(r)
  BY <1>2, <1>4 DEF Unwanted
<1>11. PlaceTypes' /\ Disjoint' /\ IgnoredApart'
  BY <1>1, <1>2, <1>4, <1>6, <1>7
     DEF PlacesInv, PlaceTypes, Disjoint, IgnoredApart, tracker
<1>12. Placed'
  <2> SUFFICES ASSUME NEW r \in Requests
               PROVE  /\ client[r] = "absent" => ~Waiting(r)' /\ r \notin lost'
                      /\ client[r] = "asked" => /\ Waiting(r)' <=> r \notin lost'
                                                /\ r \in News \/ r \in streams
    BY <1>1, <1>4 DEF Placed
  <2>1. client[r] \notin Ends => r \notin Drops(i)
    BY <1>10 DEF PlacesInv, AbortsAreAsked
  <2>2. "absent" \notin Ends /\ "asked" \notin Ends
    BY DEF Ends, GivenUp
  <2>3. CASE r \in Adds(i)
    BY <1>3, <1>8, <2>3 DEF PlacesInv, Placed
  <2>4. CASE r \notin Adds(i)
    BY <1>3, <1>9, <2>1, <2>2, <2>4 DEF PlacesInv, Placed
  <2> QED
    BY <2>3, <2>4
<1>13. AbortsAreAsked'
  BY <1>1, <1>4, <1>10 DEF PlacesInv, AbortsAreAsked
<1>14. AbortsComeLast'
  <2>1. \A j, k \in Nat : Busy(j)' /\ Busy(k)' => Busy(j) /\ Busy(k)
    BY <1>2
  <2> QED
    BY <1>1, <1>3, <1>6, <1>10, <2>1 DEF PlacesInv, AbortsComeLast
<1> QED
  BY <1>2, <1>11, <1>12, <1>13, <1>14 DEF PlacesInv

(* What a step takes out of the queue, and what it leaves in it.           *)
LEMMA StepPlaces ==
  ASSUME EngineInv, PlacesInv, NEW i \in DOMAIN tasks, Step(i)
  PROVE  \E ignored \in SUBSET (Queued \ tasks[i].drops) :
            /\ queue' \in Seq(Requests) /\ Distinct(queue')
            /\ Queued' = Queued \ (tasks[i].drops \cup ignored)
            /\ \/ lost' = lost /\ Ignored(i)' = ignored
               \/ lost' = lost \cup ignored /\ Ignored(i)' = {}
            /\ TaskPlaces' /\ i \in Nat /\ Adds(i)' = {} /\ Drops(i)' = {} /\ ~Busy(i)'
            /\ \A j \in Nat \ {i} : /\ Adds(j)' = Adds(j) /\ Drops(j)' = Drops(j)
                                    /\ Ignored(j)' = Ignored(j) /\ (Busy(j)' <=> Busy(j))
<1> DEFINE drops == tasks[i].drops
           kept == Kept(drops)
<1>1. kept \in Seq(Requests) /\ Distinct(kept) /\ ToSet(kept) = Queued \ drops
  BY WithoutKeeps DEF Kept, PlacesInv, PlaceTypes, Queued
<1>2. PICK q \in WithoutIgnored(kept) :
         LET ignored == ToSet(kept) \ ToSet(q)
             batch == FirstFree(q)
         IN  /\ queue' = Without(q, batch) \o Without(q, ToSet(q) \ batch)
             /\ tasks' = [tasks EXCEPT ![i] =
                    IF batch = {} THEN Ended
                    ELSE [Fresh EXCEPT !.at = "executing", !.batch = batch,
                                       !.ignored = ignored]]
             /\ lost' = IF batch = {} THEN lost \union ignored ELSE lost
  BY DEF Step
<1> DEFINE ignored == ToSet(kept) \ ToSet(q)
           batch == FirstFree(q)
           t == IF batch = {} THEN Ended
                ELSE [Fresh EXCEPT !.at = "executing", !.batch = batch,
                                   !.ignored = ignored]
<1>3. /\ queue' = Without(q, batch) \o Without(q, ToSet(q) \ batch)
      /\ tasks' = [tasks EXCEPT ![i] = t]
      /\ lost' = IF batch = {} THEN lost \union ignored ELSE lost
  BY <1>2
<1>4. /\ t.at # "adding" /\ t.adds = <<>> /\ t.drops = {}
      /\ t.at # "executing" => t.ignored = {}
      /\ \/ lost' = lost /\ t.ignored = ignored
         \/ lost' = lost \cup ignored /\ t.ignored = {}
  <2>1. CASE batch = {}
    BY <1>3, <2>1, FreshPlaces
  <2>2. CASE batch # {}
    <3> HIDE DEF batch, ignored
    <3>1. t = [Fresh EXCEPT !.at = "executing", !.batch = batch, !.ignored = ignored]
      BY <2>2
    <3> HIDE DEF t
    <3> QED
      BY <1>3, <2>2, <3>1 DEF Fresh
  <2> QED
    BY <2>1, <2>2
<1> HIDE DEF kept, t
<1>5. PICK away : q = Without(kept, away)
  BY DEF WithoutIgnored
<1>6. q \in Seq(Requests) /\ Distinct(q) /\ ToSet(q) \subseteq ToSet(kept)
  BY <1>1, <1>5, WithoutKeeps
<1> HIDE DEF batch, ignored
<1>7. queue' \in Seq(Requests) /\ Distinct(queue') /\ Queued' = ToSet(q)
  <2> DEFINE first == Without(q, batch)
             last == Without(q, ToSet(q) \ batch)
  <2>1. first \in Seq(Requests) /\ Distinct(first) /\ ToSet(first) = ToSet(q) \ batch
    BY <1>6, WithoutKeeps
  <2>2. /\ last \in Seq(Requests) /\ Distinct(last)
        /\ ToSet(last) = ToSet(q) \ (ToSet(q) \ batch)
    BY <1>6, WithoutKeeps
  <2> HIDE DEF first, last
  <2>3. ToSet(first) \cap ToSet(last) = {}
    BY <2>1, <2>2
  <2>4. /\ first \o last \in Seq(Requests) /\ Distinct(first \o last)
        /\ ToSet(first \o last) = ToSet(first) \cup ToSet(last)
    BY <2>1, <2>2, <2>3, ConcatJoins
  <2>5. ToSet(first) \cup ToSet(last) = ToSet(q)
    BY <2>1, <2>2
  <2> QED
    BY <1>3, <2>4, <2>5 DEF first, last, Queued
<1>8. ignored \subseteq Queued \ drops /\ Queued' = Queued \ (drops \cup ignored)
  BY <1>1, <1>6, <1>7 DEF ignored
<1> HIDE DEF drops
<1>9. /\ TaskPlaces' /\ i \in Nat
      /\ Adds(i)' = {} /\ Drops(i)' = {} /\ Ignored(i)' = t.ignored /\ ~Busy(i)'
      /\ \A j \in Nat \ {i} : /\ Adds(j)' = Adds(j) /\ Drops(j)' = Drops(j)
                              /\ Ignored(j)' = Ignored(j) /\ (Busy(j)' <=> Busy(j))
  <2>1. t.adds \in Seq(Requests) /\ Distinct(t.adds) /\ ToSet(t.adds) = {}
    BY <1>4, FreshPlaces
  <2> QED
    BY <1>3, <1>4, <2>1, OneTaskPlaces
<1> QED
  BY <1>4, <1>7, <1>8, <1>9 DEF drops

LEMMA StepKeepsPlaces ==
  ASSUME EngineInv, PlacesInv, NEW i \in DOMAIN tasks, Step(i)
  PROVE  PlacesInv'
<1> DEFINE drops == tasks[i].drops
<1>1. /\ tasks[i].at = "adding" /\ tasks[i].adds = <<>> /\ Suspended(i)
      /\ UNCHANGED <<slowAdd, client, tracker>>
  BY DEF Step
<1>2. PICK ignored \in SUBSET (Queued \ drops) :
            /\ queue' \in Seq(Requests) /\ Distinct(queue')
            /\ Queued' = Queued \ (drops \cup ignored)
            /\ \/ lost' = lost /\ Ignored(i)' = ignored
               \/ lost' = lost \cup ignored /\ Ignored(i)' = {}
            /\ TaskPlaces' /\ i \in Nat /\ Adds(i)' = {} /\ Drops(i)' = {} /\ ~Busy(i)'
            /\ \A j \in Nat \ {i} : /\ Adds(j)' = Adds(j) /\ Drops(j)' = Drops(j)
                                    /\ Ignored(j)' = Ignored(j) /\ (Busy(j)' <=> Busy(j))
  BY StepPlaces
<1>3. Adds(i) = {} /\ Drops(i) = drops /\ Ignored(i) = {} /\ Busy(i)
  BY <1>1, FreshPlaces, NothingIgnored DEF Adds, Drops, Busy, drops
<1> HIDE DEF drops
<1>4. News' = News /\ abortedRequests' = abortedRequests /\ streams' = streams
  BY <1>1 DEF News, tracker
<1>5. \A j \in Nat : Adds(j)' = Adds(j)
  BY <1>2, <1>3
<1>6. \A r \in ignored : Present(r) /\ ~Present(r)' /\ \A j \in Nat : r \notin Ignored(j)
  <2>1. \A r \in ignored : r \in Queued /\ r \notin Queued'
    BY <1>2
  <2>2. \A r \in Queued : Present(r) /\ r \notin News /\ \A j \in Nat : r \notin Adds(j)
    BY DEF Present, PlacesInv, Disjoint
  <2> QED
    BY <1>4, <1>5, <2>1, <2>2 DEF Present, PlacesInv, IgnoredApart
<1>7. \A r : /\ Present(r)' => Present(r)
             /\ Present(r) /\ r \notin drops /\ r \notin ignored => Present(r)'
  BY <1>2, <1>4, <1>5 DEF Present
<1>8. \A r : /\ r \in ignored => (Waiting(r)' <=> Ignored(i)' = ignored) /\ Waiting(r)
             /\ r \notin ignored => (Waiting(r)' => Waiting(r))
             /\ r \notin ignored /\ r \notin drops => (Waiting(r) => Waiting(r)')
  <2>1. ASSUME NEW r \in ignored PROVE (Waiting(r)' <=> Ignored(i)' = ignored) /\ Waiting(r)
    <3>1. Waiting(r)' <=> r \in Ignored(i)'
      BY <1>2, <1>6 DEF Waiting
    <3>2. r \in Ignored(i)' <=> Ignored(i)' = ignored
      BY <1>2
    <3> QED
      BY <1>6, <3>1, <3>2 DEF Waiting
  <2>2. ASSUME NEW r, r \notin ignored, Waiting(r)' PROVE Waiting(r)
    BY <1>2, <1>7, <2>2 DEF Waiting
  <2>3. ASSUME NEW r, r \notin ignored, r \notin drops, Waiting(r) PROVE Waiting(r)'
    BY <1>2, <1>3, <1>7, <2>3 DEF Waiting
  <2> QED
    BY <2>1, <2>2, <2>3
<1>9. \A r : Unwanted(r)' <=> \/ r \in abortedRequests
                              \/ \E j \in Nat \ {i} : r \in Drops(j)
  BY <1>2, <1>4 DEF Unwanted
<1>10. \A r : Unwanted(r) <=> r \in drops \/ Unwanted(r)'
  BY <1>2, <1>3, <1>9 DEF Unwanted
<1>11. PlaceTypes'
  BY <1>1, <1>2 DEF PlacesInv, PlaceTypes, tracker
<1>12. Disjoint'
  BY <1>2, <1>4, <1>5 DEF PlacesInv, Disjoint
<1>13. IgnoredApart'
  <2>1. Ignored(i)' \subseteq ignored
    BY <1>2
  <2>2. \A j \in Nat \ {i} : Ignored(j)' = Ignored(j)
    BY <1>2
  <2>3. \A j \in Nat : \A r \in Ignored(j)' : ~Present(r)'
    BY <1>6, <1>7, <2>1, <2>2 DEF PlacesInv, IgnoredApart
  <2>4. \A j, k \in Nat : j # k => Ignored(j)' \cap Ignored(k)' = {}
    BY <1>6, <2>1, <2>2 DEF PlacesInv, IgnoredApart
  <2> QED
    BY <2>3, <2>4 DEF IgnoredApart
<1>14. Placed'
  <2> SUFFICES ASSUME NEW r \in Requests
               PROVE  /\ client[r] = "absent" => ~Waiting(r)' /\ r \notin lost'
                      /\ client[r] = "asked" => /\ Waiting(r)' <=> r \notin lost'
                                                /\ r \in News \/ r \in streams
    BY <1>1, <1>4 DEF Placed
  <2>1. client[r] \in {"absent", "asked"} => r \notin drops
    BY <1>10 DEF PlacesInv, AbortsAreAsked, Ends, GivenUp
  <2>2. CASE r \in ignored
    <3>1. Waiting(r)
      BY <1>8, <2>2
    <3>2. r \notin lost => (r \notin lost' <=> Ignored(i)' = ignored)
      BY <1>2, <2>2
    <3> QED
      BY <1>8, <2>2, <3>1, <3>2 DEF PlacesInv, Placed
  <2>3. CASE r \notin ignored
    BY <1>2, <1>8, <2>1, <2>3 DEF PlacesInv, Placed
  <2> QED
    BY <2>2, <2>3
<1>15. AbortsAreAsked'
  BY <1>1, <1>4, <1>10 DEF PlacesInv, AbortsAreAsked
<1>16. AbortsComeLast'
  <2> SUFFICES ASSUME ~slowAdd
               PROVE  /\ \A j, k \in Nat : Busy(j)' /\ Busy(k)' => j = k
                      /\ \A r \in Requests \ lost' : client[r] \in GivenUp /\ Present(r)'
                                                    => Unwanted(r)'
    BY <1>1 DEF AbortsComeLast
  <2>1. \A j \in Nat \ {i} : ~Busy(j)
    BY <1>1, AloneInAdding
  <2>2. \A j \in Nat : Adds(j) = {}
    BY <1>3, <2>1, IdleTask
  <2>3. ASSUME NEW r \in Requests \ lost', client[r] \in GivenUp, Present(r)'
        PROVE  Unwanted(r)'
    <3>1. Unwanted(r)
      <4>1. r \notin lost
        BY <1>2
      <4> QED
        BY <1>7, <2>3, <4>1 DEF PlacesInv, AbortsComeLast
    <3>2. r \in News \/ r \notin drops
      BY <1>2, <1>4, <1>5, <2>2, <2>3 DEF Present
    <3>3. CASE r \in News
      BY <1>9, <2>3, <3>3 DEF PlacesInv, AbortsAreAsked
    <3>4. CASE r \notin drops
      BY <1>10, <3>1, <3>4
    <3> QED
      BY <3>2, <3>3, <3>4
  <2> QED
    BY <1>2, <2>1, <2>3
<1> QED
  BY <1>2, <1>11, <1>12, <1>13, <1>14, <1>15, <1>16 DEF PlacesInv

(* The step of a task ends: what it held was the task's alone.             *)
LEMMA StepEnds ==
  ASSUME EngineInv, PlacesInv, NEW i \in DOMAIN tasks, tasks[i].at = "executing",
         tasks' = [tasks EXCEPT ![i] = Ended], UNCHANGED <<newRequests, abortedRequests>>
  PROVE  /\ TaskPlaces' /\ i \in Nat /\ News' = News
         /\ Ignored(i)' = {} /\ Ignored(i) = tasks[i].ignored
         /\ \A j \in Nat : /\ Adds(j)' = Adds(j) /\ Drops(j)' = Drops(j)
                           /\ Busy(j)' <=> Busy(j)
         /\ \A j \in Nat \ {i} : Ignored(j)' = Ignored(j)
         /\ \A r : Unwanted(r)' <=> Unwanted(r)
<1>1. /\ TaskPlaces' /\ i \in Nat
      /\ Adds(i)' = {} /\ Drops(i)' = {} /\ Ignored(i)' = {} /\ ~Busy(i)'
      /\ \A j \in Nat \ {i} : /\ Adds(j)' = Adds(j) /\ Drops(j)' = Drops(j)
                              /\ Ignored(j)' = Ignored(j) /\ (Busy(j)' <=> Busy(j))
  BY EndedPlaces
<1>2. ~Busy(i) /\ Adds(i) = {} /\ Drops(i) = {}
  <2>1. ~Busy(i)
    BY DEF Busy
  <2> QED
    BY <1>1, <2>1, IdleTask
<1>3. News' = News /\ Ignored(i) = tasks[i].ignored
  BY DEF News, Ignored
<1>4. \A j \in Nat : /\ Adds(j)' = Adds(j) /\ Drops(j)' = Drops(j)
                     /\ Busy(j)' <=> Busy(j)
  BY <1>1, <1>2
<1>5. \A r : Unwanted(r)' <=> Unwanted(r)
  BY <1>4 DEF Unwanted
<1> QED
  BY <1>1, <1>3, <1>4, <1>5

LEMMA AnswerKeepsPlaces ==
  ASSUME EngineInv, PlacesInv, NEW i \in DOMAIN tasks, Answer(i)
  PROVE  PlacesInv'
<1> DEFINE live == tasks[i].batch \cap Queued
           final == {r \in live : left[r] = 1}
           over == final \union tasks[i].ignored
<1>1. /\ tasks' = [tasks EXCEPT ![i] = Ended] /\ tasks[i].at = "executing"
      /\ queue' = Without(queue, final)
      /\ streams' = streams \ over
      /\ client' = [r \in Requests |->
            IF r \in over \cap streams THEN "answered" ELSE client[r]]
      /\ UNCHANGED <<slowAdd, newRequests, abortedRequests, lost>>
  BY DEF Answer, Queued, fates
<1>2. final \subseteq Queued
  OBVIOUS
<1> HIDE DEF final
<1>3. queue' \in Seq(Requests) /\ Distinct(queue') /\ Queued' = Queued \ final
  BY <1>1, WithoutKeeps DEF PlacesInv, PlaceTypes, Queued
<1>4. /\ TaskPlaces' /\ i \in Nat /\ News' = News
      /\ Ignored(i)' = {} /\ Ignored(i) = tasks[i].ignored
      /\ \A j \in Nat : /\ Adds(j)' = Adds(j) /\ Drops(j)' = Drops(j)
                        /\ Busy(j)' <=> Busy(j)
      /\ \A j \in Nat \ {i} : Ignored(j)' = Ignored(j)
      /\ \A r : Unwanted(r)' <=> Unwanted(r)
  BY <1>1, StepEnds
<1>5. \A r : Present(r)' <=> Present(r) /\ r \notin final
  <2>1. \A r \in final : r \notin News /\ \A j \in Nat : r \notin Adds(j)
    BY <1>2 DEF PlacesInv, Disjoint
  <2> QED
    BY <1>3, <1>4, <2>1 DEF Present
<1>6. /\ \A r \in over : Waiting(r)
      /\ \A r : Waiting(r)' <=> Waiting(r) /\ r \notin over
  <2>1. \A r \in final : Present(r)
    BY <1>2 DEF Present
  <2>2. \A r \in final, j \in Nat : r \notin Ignored(j)
    BY <2>1 DEF PlacesInv, IgnoredApart
  <2>3. \A r \in Ignored(i) : ~Present(r) /\ \A j \in Nat \ {i} : r \notin Ignored(j)
    BY <1>4 DEF PlacesInv, IgnoredApart
  <2>4. over = final \cup Ignored(i)
    BY <1>4
  <2> HIDE DEF over
  <2>5. ASSUME NEW r PROVE Waiting(r)' => Waiting(r) /\ r \notin over
    BY <1>4, <1>5, <2>2, <2>3, <2>4 DEF Waiting
  <2>6. ASSUME NEW r, Waiting(r), r \notin over PROVE Waiting(r)'
    BY <1>4, <1>5, <2>4, <2>6 DEF Waiting
  <2>7. \A r \in over : Waiting(r)
    BY <1>4, <2>1, <2>4 DEF Waiting
  <2> QED
    BY <2>5, <2>6, <2>7
<1>7. \A r \in over : r \notin News
  <2>1. \A r \in News : Present(r)
    BY DEF Present
  <2>2. \A r \in Ignored(i) : r \notin News
    BY <1>4, <2>1 DEF PlacesInv, IgnoredApart
  <2> QED
    BY <1>2, <1>4, <2>2 DEF PlacesInv, Disjoint
<1> HIDE DEF over
<1>8. /\ client' \in [Requests -> ClientStates]
      /\ \A r \in Requests :
            client'[r] = IF r \in over \cap streams THEN "answered" ELSE client[r]
  <2>1. client \in [Requests -> ClientStates] /\ "answered" \in ClientStates
    BY DEF PlacesInv, PlaceTypes, ClientStates, Ends
  <2> QED
    BY <1>1, <2>1
<1>9. PlaceTypes'
  BY <1>1, <1>3, <1>8 DEF PlacesInv, PlaceTypes
<1>10. Disjoint'
  BY <1>3, <1>4 DEF PlacesInv, Disjoint
<1>11. IgnoredApart'
  <2>1. \A j \in Nat : Ignored(j)' \subseteq Ignored(j)
    BY <1>4
  <2> QED
    BY <1>5, <2>1 DEF PlacesInv, IgnoredApart
<1>12. Placed'
  <2> SUFFICES ASSUME NEW r \in Requests
               PROVE  /\ client'[r] = "absent" => ~Waiting(r)' /\ r \notin lost'
                      /\ client'[r] = "asked" => /\ Waiting(r)' <=> r \notin lost'
                                                 /\ r \in News' \/ r \in streams'
    BY DEF Placed
  <2>1. ASSUME client'[r] = "absent" PROVE ~Waiting(r)' /\ r \notin lost'
    BY <1>1, <1>6, <1>8, <2>1 DEF PlacesInv, Placed
  <2>2. ASSUME client'[r] = "asked"
        PROVE  (Waiting(r)' <=> r \notin lost') /\ (r \in News' \/ r \in streams')
    <3>1. client[r] = "asked" /\ r \notin over \cap streams
      BY <1>8, <2>2
    <3>2. (Waiting(r) <=> r \notin lost) /\ (r \in News \/ r \in streams)
      BY <3>1 DEF PlacesInv, Placed
    <3>3. r \notin over
      BY <1>7, <3>1, <3>2
    <3> QED
      BY <1>1, <1>4, <1>6, <3>2, <3>3
  <2> QED
    BY <2>1, <2>2
<1>13. "answered" \in Ends /\ "answered" \notin GivenUp
  BY DEF Ends, GivenUp
<1>14. AbortsAreAsked'
  <2>1. News \subseteq Requests
    BY SetOfSeq DEF PlacesInv, PlaceTypes, News
  <2> QED
    BY <1>1, <1>4, <1>8, <1>13, <2>1 DEF PlacesInv, AbortsAreAsked
<1>15. AbortsComeLast'
  BY <1>1, <1>4, <1>5, <1>8, <1>13 DEF PlacesInv, AbortsComeLast
<1> QED
  BY <1>4, <1>9, <1>10, <1>11, <1>12, <1>14, <1>15 DEF PlacesInv

(* A failed step leaves its batch in the queue; what it ignored is lost.   *)
LEMMA StepFailsKeepsPlaces ==
  ASSUME EngineInv, PlacesInv, NEW i \in DOMAIN tasks, StepFails(i)
  PROVE  PlacesInv'
<1>1. /\ tasks' = [tasks EXCEPT ![i] = Ended] /\ tasks[i].at = "executing"
      /\ lost' = lost \union tasks[i].ignored
      /\ UNCHANGED <<slowAdd, client, tracker, queue>>
  BY DEF StepFails, scheduler
<1>2. /\ TaskPlaces' /\ i \in Nat /\ News' = News
      /\ Ignored(i)' = {} /\ Ignored(i) = tasks[i].ignored
      /\ \A j \in Nat : /\ Adds(j)' = Adds(j) /\ Drops(j)' = Drops(j)
                        /\ Busy(j)' <=> Busy(j)
      /\ \A j \in Nat \ {i} : Ignored(j)' = Ignored(j)
      /\ \A r : Unwanted(r)' <=> Unwanted(r)
  BY <1>1, StepEnds DEF tracker
<1>3. /\ Queued' = Queued /\ streams' = streams /\ abortedRequests' = abortedRequests
      /\ lost' = lost \cup Ignored(i)
  BY <1>1, <1>2 DEF Queued, tracker
<1>4. \A r : Present(r)' <=> Present(r)
  BY <1>2, <1>3 DEF Present
<1>5. \A r \in Ignored(i) : Waiting(r) /\ ~Waiting(r)'
  BY <1>2, <1>4 DEF Waiting, PlacesInv, IgnoredApart
<1>6. \A r : r \notin Ignored(i) => (Waiting(r)' <=> Waiting(r))
  BY <1>2, <1>4 DEF Waiting
<1>7. PlaceTypes' /\ Disjoint'
  BY <1>1, <1>2, <1>3 DEF PlacesInv, PlaceTypes, Disjoint, tracker
<1>8. IgnoredApart'
  <2>1. \A j \in Nat : Ignored(j)' \subseteq Ignored(j)
    BY <1>2
  <2> QED
    BY <1>4, <2>1 DEF PlacesInv, IgnoredApart
<1>9. Placed'
  <2>1. ASSUME NEW r \in Requests
        PROVE  /\ client[r] = "absent" => ~Waiting(r)' /\ r \notin lost'
               /\ client[r] = "asked" => /\ Waiting(r)' <=> r \notin lost'
                                         /\ r \in News \/ r \in streams
    <3>1. CASE r \in Ignored(i)
      BY <1>3, <1>5, <3>1 DEF PlacesInv, Placed
    <3>2. CASE r \notin Ignored(i)
      BY <1>3, <1>6, <3>2 DEF PlacesInv, Placed
    <3> QED
      BY <3>1, <3>2
  <2> QED
    BY <1>1, <1>2, <1>3, <2>1 DEF Placed
<1>10. AbortsAreAsked' /\ AbortsComeLast'
  BY <1>1, <1>2, <1>3, <1>4 DEF PlacesInv, AbortsAreAsked, AbortsComeLast
<1> QED
  BY <1>2, <1>7, <1>8, <1>9, <1>10 DEF PlacesInv

LEMMA NextPlacesInv == EngineInv /\ PlacesInv /\ [Next]_vars => PlacesInv'
<1> SUFFICES ASSUME EngineInv, PlacesInv, [Next]_vars PROVE PlacesInv'
  OBVIOUS
<1>1. ASSUME NEW r \in Requests, Ask(r) \/ Cancel(r) PROVE PlacesInv'
  BY <1>1, AskKeepsPlaces, CancelKeepsPlaces
<1>2. CASE WakeUp \/ LoopTurn
  BY <1>2, WakeUpKeepsPlaces, LoopTurnKeepsPlaces
<1>3. ASSUME NEW i \in DOMAIN tasks, TaskMoves(i) PROVE PlacesInv'
  BY <1>3, TakeInKeepsPlaces, AddRequestKeepsPlaces, StepKeepsPlaces,
     AnswerKeepsPlaces DEF TaskMoves
<1>4. ASSUME NEW i \in DOMAIN tasks, TaskRaises(i) PROVE PlacesInv'
  BY <1>4, RefuseRequestKeepsPlaces, AddingRaisesKeepsPlaces, StepFailsKeepsPlaces
     DEF TaskRaises
<1>5. CASE UNCHANGED vars
  <2>1. TaskPlaces' /\ UNCHANGED <<slowAdd, client, tracker, queue, lost, tasks>>
    BY <1>5 DEF vars, scheduler, loop, fates, PlacesInv, TaskPlaces
  <2> QED
    BY <2>1, SameTasks, PlacesInvFrame
<1> QED
  BY <1>1, <1>2, <1>3, <1>4, <1>5 DEF Next

(* At most one of the numbers of a family of disjoint sets has r.          *)
LEMMA OneNumber ==
  ASSUME NEW Number, Number \subseteq Nat, \A i, j \in Number : i = j
  PROVE  Cardinality(Number) = IF Number = {} THEN 0 ELSE 1
<1>1. CASE Number = {}
  BY <1>1, FS_EmptySet
<1>2. ASSUME NEW i \in Number PROVE Cardinality(Number) = 1
  <2>1. Number = {i}
    OBVIOUS
  <2> QED
    BY <2>1, FS_Singleton
<1> QED
  BY <1>1, <1>2

(* Distinct places and at most one request in each: what PlacesOf counts.  *)
LEMMA PlacesCounted ==
  ASSUME EngineInv, PlacesInv, NEW r \in Requests
  PROVE  /\ PlacesOf(r) = IF Present(r) THEN 1 ELSE 0
         /\ PlacesOf(r) + Cardinality(Ignoring(r)) = IF Waiting(r) THEN 1 ELSE 0
<1> DEFINE news == Occurrences(newRequests, r)
           adding == Cardinality(Adding(r))
           queued == Occurrences(queue, r)
           ignoring == Cardinality(Ignoring(r))
<1>1. news = IF r \in News THEN 1 ELSE 0
  BY CountOccurrences DEF PlacesInv, PlaceTypes, News
<1>2. queued = IF r \in Queued THEN 1 ELSE 0
  BY CountOccurrences DEF PlacesInv, PlaceTypes, Queued
<1>3. /\ \A i \in Nat : i \in Adding(r) <=> r \in Adds(i)
      /\ \A i \in Nat : i \in Ignoring(r) <=> r \in Ignored(i)
  BY DEF Adding, Adds, Ignoring, Ignored
<1>4. Adding(r) \subseteq Nat /\ Ignoring(r) \subseteq Nat
  BY DEF Adding, Ignoring, EngineInv, TasksInv
<1>5. adding = IF \E i \in Nat : r \in Adds(i) THEN 1 ELSE 0
  <2>1. \A i, j \in Adding(r) : i = j
    BY <1>3, <1>4 DEF PlacesInv, Disjoint
  <2>2. Adding(r) = {} <=> ~\E i \in Nat : r \in Adds(i)
    BY <1>3, <1>4
  <2> QED
    BY <1>4, <2>1, <2>2, OneNumber
<1>6. ignoring = IF \E i \in Nat : r \in Ignored(i) THEN 1 ELSE 0
  <2>1. \A i, j \in Ignoring(r) : i = j
    BY <1>3, <1>4 DEF PlacesInv, IgnoredApart
  <2>2. Ignoring(r) = {} <=> ~\E i \in Nat : r \in Ignored(i)
    BY <1>3, <1>4
  <2> QED
    BY <1>4, <2>1, <2>2, OneNumber
<1>7. PlacesOf(r) = news + adding + queued
  BY DEF PlacesOf
<1> HIDE DEF news, adding, queued, ignoring
<1>8. /\ r \in News => r \notin Queued /\ \A i \in Nat : r \notin Adds(i)
      /\ r \in Queued => \A i \in Nat : r \notin Adds(i)
  BY DEF PlacesInv, Disjoint
<1>9. Present(r) => \A i \in Nat : r \notin Ignored(i)
  BY DEF PlacesInv, IgnoredApart
<1>10. PlacesOf(r) = IF Present(r) THEN 1 ELSE 0
  BY <1>1, <1>2, <1>5, <1>7, <1>8 DEF Present
<1>11. PlacesOf(r) + ignoring = IF Waiting(r) THEN 1 ELSE 0
  BY <1>6, <1>9, <1>10 DEF Waiting
<1> QED
  BY <1>10, <1>11 DEF ignoring

LEMMA PlacesInvHolds == EngineInv /\ PlacesInv => RequestsHavePlaces
<1> SUFFICES ASSUME EngineInv, PlacesInv PROVE OnePlaceEach /\ (~slowAdd => AbortsAreFinal)
  BY DEF RequestsHavePlaces
<1>1. OnePlaceEach
  <2> SUFFICES ASSUME NEW r \in Requests, client[r] = "asked"
               PROVE  /\ PlacesOf(r) + Cardinality(Ignoring(r))
                           = IF r \in lost THEN 0 ELSE 1
                      /\ r \in ToSet(newRequests) \/ r \in streams
    BY DEF OnePlaceEach
  <2>1. (Waiting(r) <=> r \notin lost) /\ (r \in News \/ r \in streams)
    BY DEF PlacesInv, Placed
  <2> QED
    BY <2>1, PlacesCounted DEF News
<1>2. ASSUME ~slowAdd PROVE AbortsAreFinal
  <2> SUFFICES ASSUME NEW r \in Requests \ lost, client[r] \in {"cancelled", "refused"},
                      r \notin abortedRequests,
                      \A i \in DOMAIN tasks : r \notin tasks[i].drops
               PROVE  PlacesOf(r) = 0
    BY DEF AbortsAreFinal
  <2>1. ~Unwanted(r)
    BY DEF Unwanted, Drops
  <2>2. ~Present(r)
    BY <1>2, <2>1 DEF PlacesInv, AbortsComeLast, GivenUp
  <2> QED
    BY <2>2, PlacesCounted
<1> QED
  BY <1>1, <1>2

(* A request that a client still waits for is in one place, the tracker, a *)
(* task that adds it, the scheduler, or a step that ignored it, and can be *)
(* answered, unless it ended with a task that raised; and if adding does   *)
(* not suspend, what a task has aborted is nowhere, for any number of      *)
(* requests and tasks (molink_engine.py:547-563).                          *)
THEOREM RequestsKeepTheirPlaces == Spec => []RequestsHavePlaces
<1>1. EngineInv /\ PlacesInv /\ [Next]_vars => EngineInv' /\ PlacesInv'
  BY NextEngineInv, NextPlacesInv
<1>2. Init => EngineInv /\ PlacesInv
  BY InitEngineInv, InitPlacesInv
<1> QED
  BY <1>1, <1>2, PlacesInvHolds, PTL DEF Spec

-----------------------------------------------------------------------------
(* The plan.                                                               *)
LEMMA Quotient ==
  ASSUME NEW n \in Nat, NEW c \in Nat \ {0}
  PROVE  n \div c \in Nat /\ c * (n \div c) <= n /\ n < c * (n \div c) + c
<1>1. n \div c \in Int
  OBVIOUS
<1>2. n = c * (n \div c) + (n % c) /\ (n % c) \in 0..c - 1
  OBVIOUS
<1>3. n \div c >= 0
  BY <1>1, <1>2
<1> QED
  BY <1>1, <1>2, <1>3

LEMMA LeastIsMin ==
  ASSUME NEW S \in SUBSET Int, NEW x \in S, \A y \in S : x <= y
  PROVE  Min(S) = x
<1>1. \A z \in S : (\A y \in S : z <= y) => z = x
  <2> TAKE z \in S
  <2>1. z \in Int /\ x \in Int
    OBVIOUS
  <2> QED
    BY <2>1
<1> QED
  BY <1>1 DEF Min

(* A micro-batch of a plan that is not too large was timed.                *)
LEMMA PlannedSize ==
  ASSUME NEW n \in Nat, n <= LargestPlanned, NEW c \in Nat, c >= BaseBatchNum + 1
  PROVE  n \div c \in 0..Profiled
<1> DEFINE q == n \div c
<1>1. q \in Nat /\ c * q <= n
  BY Quotient DEF BaseBatchNum
<1>2. Profiled \in Nat /\ n <= 3 * (Profiled + 1) - 1 /\ c >= 3
  BY BatchPlanAssumption DEF BatchPlanAssumption, LargestPlanned, BaseBatchNum
<1> HIDE DEF q
<1>3. (c - 3) * q >= 0
  BY <1>1, <1>2
<1>4. 3 * q <= n
  <2>1. (c - 3) * q = c * q - 3 * q /\ c * q \in Int
    BY <1>1
  <2> QED
    BY <1>1, <1>3, <2>1
<1>5. q <= Profiled
  BY <1>1, <1>2, <1>4
<1> QED
  BY <1>1, <1>2, <1>5 DEF q

(* Interpolating between a size and the one before it gives what was       *)
(* measured of it.                                                         *)
LEMMA LatencyIsMeasured ==
  ASSUME table \in [1..Profiled -> 1..MaxLatency], NEW size \in 0..Profiled
  PROVE  ComputeLatency(table, size) = Measured(size)
<1>1. Profiled \in Nat \ {0}
  BY BatchPlanAssumption DEF BatchPlanAssumption
<1>2. CASE size = 0
  <2>1. Around(size) = {}
    BY <1>1, <1>2 DEF Around
  <2> QED
    BY <1>2, <2>1 DEF ComputeLatency, Measured
<1>3. CASE size = 1
  BY <1>3 DEF ComputeLatency, Measured
<1>4. CASE size \notin {0, 1}
  <2>1. size - 1 \in Around(size) /\ Around(size) \in SUBSET Int
    BY <1>1, <1>4 DEF Around
  <2>2. \A i \in Around(size) : size - 1 <= i
    BY <1>1 DEF Around
  <2>3. Min(Around(size)) = size - 1
    BY <2>1, <2>2, LeastIsMin
  <2>4. size - 1 \in 1..Profiled /\ size \in 1..Profiled /\ size - 1 + 1 = size
    BY <1>1, <1>4
  <2>5. table[size - 1] \in Int /\ table[size] \in Int
    BY <2>4
  <2>6. ComputeLatency(table, size)
          = table[size - 1] + (table[size - 1 + 1] - table[size - 1]) * (size - (size - 1))
    BY <1>4, <2>1, <2>3 DEF ComputeLatency
  <2>7. size - (size - 1) = 1
    BY <1>1
  <2> QED
    BY <1>4, <2>4, <2>5, <2>6, <2>7 DEF Measured
<1> QED
  BY <1>2, <1>3, <1>4

Hides(c) == HidesTransmission(table, num, c)

(* Every candidate before the one being tried has been tried in vain.      *)
Tried ==
    /\ planNum \in BaseBatchNum + 1..MaxCandidate
    /\ \A c \in BaseBatchNum + 1..planNum - 1 : ~Hides(c)
PlanInv ==
    /\ table \in [1..Profiled -> 1..MaxLatency]
    /\ num \in Nat /\ planLimit \in Nat \ {0} /\ planNum \in Nat
    /\ planning \in {"start", "loop", "done"}
    /\ planning = "loop" => num > BaseBatchNum /\ Tried
    /\ planning = "done" =>
         /\ planLimit * planNum >= num
         /\ num > BaseBatchNum => Tried /\ (Hides(planNum) \/ planNum = MaxCandidate)

LEMMA InitPlanInv == PlanInit => PlanInv
<1> SUFFICES ASSUME PlanInit PROVE PlanInv
  OBVIOUS
<1>1. MaxRequests \in Nat
  BY BatchPlanAssumption DEF BatchPlanAssumption
<1> QED
  BY <1>1 DEF PlanInit, PlanInv

LEMMA StartPlanInv ==
  ASSUME PlanInv, Start
  PROVE  PlanInv'
<1>1. /\ UNCHANGED <<table, num, planLimit>>
      /\ table \in [1..Profiled -> 1..MaxLatency]
      /\ num \in Nat /\ planLimit \in Nat \ {0}
  BY DEF PlanInv, Start
<1>2. CASE num <= 2
  <2>1. planning' = "done" /\ planNum' = IF num <= 1 THEN 1 ELSE 2
    BY <1>2 DEF Start, BaseBatchNum
  <2>2. planLimit' * planNum' >= num'
    BY <1>1, <1>2, <2>1
  <2> QED
    BY <1>1, <1>2, <2>1, <2>2 DEF PlanInv, BaseBatchNum
<1>3. CASE ~(num <= 2)
  <2>1. planning' = "loop" /\ planNum' = 3 /\ num' > BaseBatchNum
    BY <1>1, <1>3 DEF Start, BaseBatchNum
  <2>2. Tried'
    BY <2>1, BatchPlanAssumption DEF BatchPlanAssumption, Tried, BaseBatchNum
  <2> QED
    BY <1>1, <2>1, <2>2 DEF PlanInv
<1> QED
  BY <1>2, <1>3

LEMMA TryPlanInv ==
  ASSUME PlanInv, TryCandidate
  PROVE  PlanInv'
<1>1. /\ UNCHANGED <<table, num>> /\ planLimit' = num \div planNum + 1
      /\ num \in Nat /\ num > BaseBatchNum /\ Tried
      /\ table \in [1..Profiled -> 1..MaxLatency]
  BY DEF PlanInv, TryCandidate, LimitFor
<1>2. planNum \in Nat \ {0} /\ planNum >= 3 /\ planNum <= MaxCandidate
      /\ MaxCandidate \in Nat
  BY <1>1, BatchPlanAssumption DEF BatchPlanAssumption, Tried, BaseBatchNum
<1>3. planLimit' \in Nat \ {0} /\ planLimit' * planNum >= num
  <2>1. PICK q : q = num \div planNum
    OBVIOUS
  <2>2. q \in Nat /\ num < planNum * q + planNum
    BY <1>1, <1>2, <2>1, Quotient
  <2>3. (q + 1) * planNum = planNum * q + planNum /\ planNum * q \in Nat
    BY <1>2, <2>2
  <2> QED
    BY <1>1, <1>2, <2>1, <2>2, <2>3
<1>4. \A c : Hides(c)' = Hides(c)
  BY <1>1 DEF Hides
<1>5. CASE Hides(planNum) \/ planNum = MaxCandidate
  <2>1. planning' = "done" /\ planNum' = planNum
    BY <1>5 DEF TryCandidate, Hides
  <2>2. Tried' /\ (Hides(planNum)' \/ planNum' = MaxCandidate)
    BY <1>1, <1>4, <1>5, <2>1 DEF Tried
  <2> QED
    BY <1>1, <1>2, <1>3, <2>1, <2>2 DEF PlanInv
<1>6. CASE ~(Hides(planNum) \/ planNum = MaxCandidate)
  <2>1. planning' = "loop" /\ planNum' = planNum + 1
    BY <1>6 DEF TryCandidate, Hides, PlanInv
  <2>2. planNum' \in BaseBatchNum + 1..MaxCandidate
    BY <1>2, <1>6, <2>1 DEF BaseBatchNum
  <2>3. \A c \in BaseBatchNum + 1..planNum' - 1 : ~Hides(c)
    <3> TAKE c \in BaseBatchNum + 1..planNum' - 1
    <3>1. c \in BaseBatchNum + 1..planNum - 1 \/ c = planNum
      BY <1>2, <2>1 DEF BaseBatchNum
    <3> QED
      BY <1>1, <1>6, <3>1 DEF Tried
  <2>4. Tried'
    BY <1>4, <2>2, <2>3 DEF Tried
  <2> QED
    BY <1>1, <1>2, <1>3, <2>1, <2>4 DEF PlanInv
<1> QED
  BY <1>5, <1>6

LEMMA PlanIsLeast == PlanInv => PlanSound
<1> SUFFICES ASSUME PlanInv, planning = "done" PROVE PlanSound
  BY DEF PlanSound, LimitCoversRequests, PlanHidesTransmission
<1>1. LimitCoversRequests
  BY DEF PlanInv, LimitCoversRequests
<1>2. ASSUME num \in BaseBatchNum + 1..LargestPlanned
      PROVE  planNum = Min({MaxCandidate} \cup
                           {c \in BaseBatchNum + 1..MaxCandidate : Hidden(c)})
  <2> DEFINE S == {MaxCandidate} \cup {c \in BaseBatchNum + 1..MaxCandidate : Hidden(c)}
  <2>0. LargestPlanned \in Int
    BY BatchPlanAssumption DEF BatchPlanAssumption, LargestPlanned, BaseBatchNum
  <2>1. MaxCandidate \in Nat /\ num \in Nat /\ num > BaseBatchNum /\ num <= LargestPlanned
    BY <1>2, <2>0, BatchPlanAssumption DEF BatchPlanAssumption, BaseBatchNum
  <2>2. Tried /\ (Hides(planNum) \/ planNum = MaxCandidate)
    BY <2>1 DEF PlanInv
  <2>3. \A c \in BaseBatchNum + 1..MaxCandidate : Hides(c) <=> Hidden(c)
    <3> TAKE c \in BaseBatchNum + 1..MaxCandidate
    <3>1. c \in Nat /\ c >= BaseBatchNum + 1
      BY <2>1 DEF BaseBatchNum
    <3>2. num \div c \in 0..Profiled
      BY <2>1, <3>1, PlannedSize
    <3>3. ComputeLatency(table, num \div c) = Measured(num \div c)
      BY <3>2, LatencyIsMeasured DEF PlanInv
    <3> QED
      BY <3>3 DEF Hides, HidesTransmission, Hidden
  <2>4. S \in SUBSET Int
    BY <2>1 DEF BaseBatchNum
  <2>5. planNum \in S
    BY <2>2, <2>3 DEF Tried
  <2>6. \A c \in S : planNum <= c
    <3> SUFFICES ASSUME NEW c \in S, ~(planNum <= c) PROVE FALSE
      OBVIOUS
    <3>1. planNum \in BaseBatchNum + 1..MaxCandidate
      BY <2>2 DEF Tried
    <3>2. c # MaxCandidate
      BY <2>1, <3>1 DEF BaseBatchNum
    <3>3. c \in BaseBatchNum + 1..MaxCandidate /\ Hidden(c)
      BY <3>2
    <3>4. c \in BaseBatchNum + 1..planNum - 1
      BY <2>1, <3>1, <3>3 DEF BaseBatchNum
    <3> QED
      BY <2>2, <2>3, <3>3, <3>4 DEF Tried
  <2> HIDE DEF S
  <2>7. Min(S) = planNum
    BY <2>4, <2>5, <2>6, LeastIsMin
  <2> QED
    BY <2>7 DEF S
<1> QED
  BY <1>1, <1>2 DEF PlanSound, PlanHidesTransmission

(* The limit and the number of micro-batches have room for all requests    *)
(* (molink_engine.py:626), and the number is the least that hides the      *)
(* transmission by the times that were measured (:631), for any table, any *)
(* number of requests and any times on the wire.                           *)
THEOREM PlanIsSound == PlanSpec => []PlanSound
<1>1. PlanInv /\ [PlanNext]_plan_vars => PlanInv'
  <2> SUFFICES ASSUME PlanInv, [PlanNext]_plan_vars PROVE PlanInv'
    OBVIOUS
  <2>1. CASE UNCHANGED plan_vars
    <3>1. UNCHANGED <<table, num, planLimit, planNum, planning>>
      BY <2>1 DEF plan_vars
    <3>2. \A c : Hides(c)' = Hides(c)
      BY <3>1 DEF Hides
    <3>3. Tried' = Tried
      BY <3>1, <3>2 DEF Tried
    <3> QED
      BY <3>1, <3>2, <3>3 DEF PlanInv
  <2> QED
    BY <2>1, StartPlanInv, TryPlanInv DEF PlanNext
<1> QED
  BY <1>1, InitPlanInv, PlanIsLeast, PTL DEF PlanSpec
=============================================================================
