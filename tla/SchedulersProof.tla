-------------------------- MODULE SchedulersProof ---------------------------
(***************************************************************************)
(* Proofs about MolinkScheduler and, at the end, OutputPlaceholders.       *)
(*                                                                         *)
(* The marks of requests_on_fly keep micro-batches apart, for any number   *)
(* of requests, micro-batches and slots and for either order of the        *)
(* queues: a request that is executing is marked, and a loop takes only    *)
(* requests that are not.  And no request is lost or duplicated between    *)
(* the queues and the lists of a pass, and no slot of the cache is given   *)
(* out twice.                                                              *)
(*                                                                         *)
(* In v1 the placeholders of a request are what the steps under way can    *)
(* bring it, for any number of requests and drafts and any lengths.        *)
(***************************************************************************)
EXTENDS MolinkScheduler, OutputPlaceholders, QueueLemmas

(* What makes NoDoubleFlight inductive: whatever is scheduled is marked.   *)
OneEntryEach(b) == \A e, f \in b : e.req = f.req => e = f
Marked ==
    /\ Scheduled(batch) \subseteq onFly
    /\ \A c \in Ctxs : Scheduled(flight[c]) \subseteq onFly
FlightInv ==
    /\ ctx \in Ctxs
    /\ DOMAIN flight = Ctxs
    /\ Marked
    /\ OneEntryEach(batch)
    /\ NoDoubleFlight

LEMMA ScheduledEmpty == Scheduled({}) = {} /\ OneEntryEach({})
  BY DEF Scheduled, OneEntryEach

LEMMA MarkAdds ==
  ASSUME NEW r, NEW chunk, Mark(r, chunk)
  PROVE  Scheduled(batch') = Scheduled(batch) \union {r}
<1> DEFINE e0 == [req |-> r, chunk |-> chunk]
<1>1. batch' = batch \union {e0}
  BY DEF Mark
<1>2. e0.req = r
  OBVIOUS
<1> HIDE DEF e0
<1> QED
  BY <1>1, <1>2 DEF Scheduled

(* A request that is not marked is new to the batch and to every flight.   *)
LEMMA MarkKeepsFlightInv ==
  ASSUME FlightInv, NEW r, NEW chunk, ~SkipsOnFly(r), Mark(r, chunk),
         UNCHANGED <<flight, ctx>>
  PROVE  FlightInv'
<1> DEFINE e0 == [req |-> r, chunk |-> chunk]
<1>1. r \notin onFly
  BY DEF SkipsOnFly
<1>2. batch' = batch \union {e0} /\ onFly' = onFly \union {r}
  BY DEF Mark
<1>3. Scheduled(batch') = Scheduled(batch) \union {r}
  BY MarkAdds
<1>4. r \notin Scheduled(batch) /\ \A c \in Ctxs : r \notin Scheduled(flight[c])
  BY <1>1 DEF FlightInv, Marked
<1>5. Marked'
  BY <1>2, <1>3 DEF FlightInv, Marked, Scheduled
<1>6. OneEntryEach(batch')
  <2> SUFFICES ASSUME NEW e \in batch', NEW f \in batch', e.req = f.req
               PROVE  e = f
    BY DEF OneEntryEach
  <2>1. CASE e \in batch /\ f \in batch
    BY <2>1 DEF FlightInv, OneEntryEach
  <2>2. CASE e = e0 /\ f = e0
    BY <2>2
  <2>3. CASE e = e0 /\ f \in batch
    <3>1. r \in Scheduled(batch)
      BY <2>3 DEF Scheduled
    <3> QED
      BY <3>1, <1>4
  <2>4. CASE f = e0 /\ e \in batch
    <3>1. r \in Scheduled(batch)
      BY <2>4 DEF Scheduled
    <3> QED
      BY <3>1, <1>4
  <2> QED
    BY <1>2, <2>1, <2>2, <2>3, <2>4
<1>7. NoDoubleFlight'
  <2>1. \A c \in Ctxs : Scheduled(flight[c]) \cap Scheduled(batch') = {}
    BY <1>3, <1>4 DEF FlightInv, NoDoubleFlight
  <2> QED
    BY <2>1 DEF FlightInv, NoDoubleFlight, Scheduled
<1> QED
  BY <1>5, <1>6, <1>7 DEF FlightInv, OneEntryEach

(* Steps that schedule nothing: what is executing and the marks stay, and  *)
(* the batch stays or is given up.                                         *)
LEMMA QuietKeepsFlightInv ==
  ASSUME FlightInv, UNCHANGED <<onFly, flight>>, ctx' \in Ctxs,
         batch' = batch \/ batch' = {}
  PROVE  FlightInv'
<1>1. Scheduled(batch') \subseteq Scheduled(batch) /\ OneEntryEach(batch')
  BY ScheduledEmpty DEF FlightInv, OneEntryEach
<1>2. Marked'
  BY <1>1 DEF FlightInv, Marked, Scheduled
<1>3. NoDoubleFlight'
  <2>1. \A c \in Ctxs : Scheduled(flight[c]) \cap Scheduled(batch') = {}
    BY <1>1 DEF FlightInv, NoDoubleFlight
  <2> QED
    BY <2>1 DEF FlightInv, NoDoubleFlight, Scheduled
<1> QED
  BY <1>1, <1>2, <1>3 DEF FlightInv, OneEntryEach

(* The batch becomes the flight of its micro-batch.                        *)
LEMMA FinishKeepsFlightInv ==
  ASSUME FlightInv, FinishPass
  PROVE  FlightInv'
<1>1. /\ ctx \in Ctxs /\ ctx' = ctx /\ onFly' = onFly /\ batch' = {}
      /\ flight' = [flight EXCEPT ![ctx] = batch] /\ DOMAIN flight' = Ctxs
  BY DEF FinishPass, FlightInv
<1>2. \A c \in Ctxs : flight'[c] = IF c = ctx THEN batch ELSE flight[c]
  BY <1>1 DEF FlightInv
<1>3. Scheduled(batch') = {} /\ OneEntryEach(batch')
  BY <1>1, ScheduledEmpty
<1>4. Marked'
  BY <1>1, <1>2, <1>3 DEF FlightInv, Marked, Scheduled
<1>5. NoDoubleFlight'
  <2>1. ASSUME NEW c \in Ctxs, NEW d \in Ctxs, c # d
        PROVE  Scheduled(flight'[c]) \cap Scheduled(flight'[d]) = {}
    <3>1. CASE c = ctx
      BY <1>2, <2>1, <3>1 DEF FlightInv, NoDoubleFlight
    <3>2. CASE d = ctx
      BY <1>2, <2>1, <3>2 DEF FlightInv, NoDoubleFlight
    <3>3. CASE c # ctx /\ d # ctx
      BY <1>2, <2>1, <3>3 DEF FlightInv, NoDoubleFlight
    <3> QED
      BY <3>1, <3>2, <3>3
  <2>2. \A c \in Ctxs : \A e, f \in flight'[c] : e.req = f.req => e = f
    BY <1>2 DEF FlightInv, NoDoubleFlight, OneEntryEach
  <2> QED
    BY <2>1, <2>2, <1>3 DEF NoDoubleFlight, Scheduled
<1> QED
  BY <1>1, <1>3, <1>4, <1>5 DEF FlightInv, OneEntryEach

(* A step is over: its requests lose their marks, no other request does;   *)
(* or it failed, and the marks stay.                                       *)
LEMMA LandKeepsFlightInv ==
  ASSUME FlightInv, NEW c \in Ctxs, flight' = [flight EXCEPT ![c] = {}],
         onFly' = KeepsMark(c) \/ onFly' = onFly, UNCHANGED <<ctx, batch>>
  PROVE  FlightInv'
<1>1. DOMAIN flight' = Ctxs
  BY DEF FlightInv
<1>2. \A d \in Ctxs : flight'[d] = IF d = c THEN {} ELSE flight[d]
  BY DEF FlightInv
<1>3. \A d \in Ctxs : Scheduled(flight'[d]) \subseteq onFly'
  <2> SUFFICES ASSUME NEW d \in Ctxs
               PROVE  Scheduled(flight'[d]) \subseteq onFly'
    OBVIOUS
  <2>1. CASE d = c
    BY <1>2, <2>1, ScheduledEmpty
  <2>2. CASE d # c
    BY <1>2, <2>2 DEF FlightInv, Marked, NoDoubleFlight, KeepsMark
  <2> QED
    BY <2>1, <2>2
<1>4. Scheduled(batch) \subseteq onFly'
  BY DEF FlightInv, Marked, NoDoubleFlight, KeepsMark
<1>5. Marked'
  BY <1>3, <1>4 DEF Marked, Scheduled
<1>6. NoDoubleFlight'
  <2>1. ASSUME NEW a \in Ctxs, NEW b \in Ctxs, a # b
        PROVE  Scheduled(flight'[a]) \cap Scheduled(flight'[b]) = {}
    BY <1>2, <2>1, ScheduledEmpty DEF FlightInv, NoDoubleFlight
  <2>2. \A a \in Ctxs : Scheduled(flight'[a]) \cap Scheduled(batch) = {}
    BY <1>2, ScheduledEmpty DEF FlightInv, NoDoubleFlight
  <2>3. \A a \in Ctxs : \A e, f \in flight'[a] : e.req = f.req => e = f
    BY <1>2 DEF FlightInv, NoDoubleFlight
  <2> QED
    BY <2>1, <2>2, <2>3 DEF NoDoubleFlight, Scheduled
<1> QED
  BY <1>1, <1>5, <1>6 DEF FlightInv, OneEntryEach

LEMMA FlightInvInit == Init => FlightInv
<1> SUFFICES ASSUME Init PROVE FlightInv
  OBVIOUS
<1>1. ctx \in Ctxs /\ batch = {} /\ onFly = {} /\ flight = [c \in Ctxs |-> {}]
  BY DEF Init
<1>2. Scheduled(batch) = {} /\ \A c \in Ctxs : flight[c] = {} /\ Scheduled(flight[c]) = {}
  BY <1>1, ScheduledEmpty
<1> QED
  BY <1>1, <1>2, ScheduledEmpty DEF FlightInv, Marked, NoDoubleFlight

(* The loops of a pass, an action at a time.                               *)
LEMMA TurnKeepsFlightInv ==
  ASSUME FlightInv, Turn
  PROVE  FlightInv'
<1>0. ctx \in Ctxs
  BY DEF FlightInv
<1>1. CASE SkipRunning
  BY <1>0, <1>1, QuietKeepsFlightInv DEF SkipRunning
<1>2. CASE \E r \in Requests : ScheduleRunning(r)
  BY <1>2, MarkKeepsFlightInv DEF ScheduleRunning
<1>3. CASE PreemptLast
  BY <1>0, <1>3, QuietKeepsFlightInv DEF PreemptLast
<1>4. CASE EndRunning
  BY <1>0, <1>4, QuietKeepsFlightInv DEF EndRunning
<1>5. CASE SkipSwapped
  BY <1>0, <1>5, QuietKeepsFlightInv DEF SkipSwapped
<1>6. CASE \E r \in Requests : SwapIn(r)
  BY <1>6, MarkKeepsFlightInv DEF SwapIn
<1>7. CASE DropSwapped
  BY <1>0, <1>7, QuietKeepsFlightInv DEF DropSwapped
<1>8. CASE EndSwapped
  BY <1>0, <1>8, QuietKeepsFlightInv DEF EndSwapped
<1>9. CASE SkipWaiting
  BY <1>0, <1>9, QuietKeepsFlightInv DEF SkipWaiting
<1>10. CASE \E r \in Requests : SchedulePrefill(r)
  BY <1>10, MarkKeepsFlightInv DEF SchedulePrefill
<1>11. CASE IgnorePrompt
  BY <1>0, <1>11, QuietKeepsFlightInv DEF IgnorePrompt
<1>12. CASE FailAssertion
  BY <1>0, <1>12, QuietKeepsFlightInv DEF FailAssertion
<1>13. CASE EndPrefills
  BY <1>0, <1>13, QuietKeepsFlightInv DEF EndPrefills
<1>14. CASE FinishPass
  BY <1>14, FinishKeepsFlightInv
<1>15. CASE SwapSpaceRunsOut
  BY <1>0, <1>15, QuietKeepsFlightInv DEF SwapSpaceRunsOut
<1> QED
  BY <1>1, <1>2, <1>3, <1>4, <1>5, <1>6, <1>7, <1>8, <1>9, <1>10, <1>11, <1>12, <1>13,
     <1>14, <1>15 DEF Turn

LEMMA FlightInvStep == FlightInv /\ [Next]_vars => FlightInv'
<1> SUFFICES ASSUME FlightInv, [Next]_vars PROVE FlightInv'
  OBVIOUS
<1>0. ctx \in Ctxs
  BY DEF FlightInv
<1>1. CASE \E r \in Requests : AddRequest(r) \/ Abort(r)
  BY <1>0, <1>1, QuietKeepsFlightInv DEF AddRequest, Abort
<1>2. CASE Turn
  BY <1>2, TurnKeepsFlightInv
<1>3. ASSUME NEW c \in Ctxs, BeginPass(c) PROVE FlightInv'
  BY <1>3, QuietKeepsFlightInv DEF BeginPass
<1>4. ASSUME NEW c \in Ctxs, Complete(c) PROVE FlightInv'
  BY <1>4, LandKeepsFlightInv DEF Complete
<1>5. ASSUME NEW c \in Ctxs, Fail(c) PROVE FlightInv'
  BY <1>5, LandKeepsFlightInv DEF Fail
<1>6. CASE UNCHANGED vars
  BY <1>0, <1>6, QuietKeepsFlightInv DEF vars
<1> QED
  BY <1>1, <1>2, <1>3, <1>4, <1>5, <1>6 DEF Next

-----------------------------------------------------------------------------
(* What the refinement needs beside FlightInv: the micro-batch of a pass   *)
(* is executing nothing, and only requests are scheduled.                  *)
PassInv ==
    /\ DOMAIN flight = Ctxs
    /\ ctx \in Ctxs
    /\ pc # "idle" => flight[ctx] = {}
    /\ Scheduled(batch) \subseteq Requests

LEMMA PassInvInit == Init => PassInv
  BY ScheduledEmpty DEF Init, PassInv

LEMMA TurnKeepsPassInv ==
  ASSUME PassInv, Turn
  PROVE  PassInv'
<1>1. ASSUME UNCHANGED <<flight, ctx>>, batch' = batch \/ batch' = {}, pc # "idle"
      PROVE  PassInv'
  BY <1>1, ScheduledEmpty DEF PassInv
<1>2. ASSUME NEW r \in Requests, NEW chunk, Mark(r, chunk), UNCHANGED <<flight, ctx, pc>>,
             pc # "idle"
      PROVE  PassInv'
  <2>1. Scheduled(batch') = Scheduled(batch) \union {r}
    BY <1>2, MarkAdds
  <2> QED
    BY <1>2, <2>1 DEF PassInv
<1>3. CASE SkipRunning \/ PreemptLast \/ SwapSpaceRunsOut \/ EndRunning
  BY <1>1, <1>3 DEF SkipRunning, PreemptLast, SwapSpaceRunsOut, EndRunning, RunningTurn
<1>4. CASE SkipSwapped \/ DropSwapped \/ EndSwapped
  BY <1>1, <1>4 DEF SkipSwapped, DropSwapped, EndSwapped, SwappedTurn
<1>5. CASE SkipWaiting \/ IgnorePrompt \/ FailAssertion \/ EndPrefills
  BY <1>1, <1>5 DEF SkipWaiting, IgnorePrompt, FailAssertion, EndPrefills, PrefillTurn
<1>6. CASE \E r \in Requests : ScheduleRunning(r) \/ SwapIn(r) \/ SchedulePrefill(r)
  BY <1>2, <1>6 DEF ScheduleRunning, SwapIn, SchedulePrefill, RunningTurn, SwappedTurn,
                    PrefillTurn
<1>7. CASE FinishPass
  BY <1>7, ScheduledEmpty DEF FinishPass, PassInv
<1> QED
  BY <1>3, <1>4, <1>5, <1>6, <1>7 DEF Turn

LEMMA PassInvStep == PassInv /\ [Next]_vars => PassInv'
<1> SUFFICES ASSUME PassInv, [Next]_vars PROVE PassInv'
  OBVIOUS
<1>1. CASE \E r \in Requests : AddRequest(r) \/ Abort(r)
  BY <1>1 DEF AddRequest, Abort, PassInv, Scheduled
<1>2. CASE Turn
  BY <1>2, TurnKeepsPassInv
<1>3. ASSUME NEW c \in Ctxs, BeginPass(c) PROVE PassInv'
  BY <1>3, ScheduledEmpty DEF BeginPass, PassInv
<1>4. ASSUME NEW c \in Ctxs, Complete(c) PROVE PassInv'
  BY <1>4 DEF Complete, PassInv, Scheduled
<1>5. ASSUME NEW c \in Ctxs, Fail(c) PROVE PassInv'
  BY <1>5 DEF Fail, PassInv, Scheduled
<1>6. CASE UNCHANGED vars
  BY <1>6 DEF vars, PassInv, Scheduled
<1> QED
  BY <1>1, <1>2, <1>3, <1>4, <1>5, <1>6 DEF Next

(* The end of a pass is a Start of the promise.                            *)
LEMMA FinishStarts ==
  ASSUME FlightInv, PassInv, FinishPass
  PROVE  Promise!Start(ctx)
<1>1. /\ flight' = [flight EXCEPT ![ctx] = batch] /\ pc # "idle"
      /\ DOMAIN flight = Ctxs /\ ctx \in Ctxs
  BY DEF FinishPass, PassInv
<1>2. Executing[ctx] = {}
  BY <1>1, ScheduledEmpty DEF PassInv, Executing
<1>3. Executing' = [Executing EXCEPT ![ctx] = Scheduled(batch)]
  BY <1>1 DEF Executing, Scheduled
<1>4. Scheduled(batch) \in SUBSET Promise!Unclaimed
  BY DEF FlightInv, NoDoubleFlight, PassInv, Executing, Promise!Unclaimed
<1> QED
  BY <1>2, <1>3, <1>4 DEF Promise!Start

(* The end of a step, however it ends, is an End of it.                    *)
LEMMA LandEnds ==
  ASSUME PassInv, NEW c \in Ctxs, flight' = [flight EXCEPT ![c] = {}]
  PROVE  Promise!End(c)
<1>1. \A d \in Ctxs : flight'[d] = IF d = c THEN {} ELSE flight[d]
  BY DEF PassInv
<1>2. \A d \in Ctxs : Scheduled(flight'[d]) = IF d = c THEN {} ELSE Scheduled(flight[d])
  BY <1>1, ScheduledEmpty
<1>3. Executing' = [Executing EXCEPT ![c] = {}]
  BY <1>2 DEF Executing, Scheduled
<1> QED
  BY <1>3 DEF Promise!End

LEMMA StepKeepsPromise ==
  ASSUME FlightInv, PassInv, [Next]_vars
  PROVE  [Promise!Next]_Executing
<1>1. ASSUME UNCHANGED flight PROVE UNCHANGED Executing
  BY <1>1 DEF Executing, Scheduled
<1>2. CASE \E r \in Requests : AddRequest(r) \/ Abort(r)
  BY <1>1, <1>2 DEF AddRequest, Abort
<1>3. CASE Turn /\ ~FinishPass
  <2>1. UNCHANGED flight
    BY <1>3 DEF Turn, SkipRunning, PreemptLast, SwapSpaceRunsOut, EndRunning,
                SkipSwapped, DropSwapped, EndSwapped, SkipWaiting, IgnorePrompt,
                FailAssertion, EndPrefills,
                ScheduleRunning, SwapIn, SchedulePrefill
  <2> QED
    BY <1>1, <2>1
<1>4. CASE FinishPass
  <2>1. ctx \in Ctxs
    BY DEF PassInv
  <2> QED
    BY <1>4, <2>1, FinishStarts DEF Promise!Next
<1>5. ASSUME NEW c \in Ctxs, BeginPass(c) PROVE UNCHANGED Executing
  BY <1>1, <1>5 DEF BeginPass
<1>6. ASSUME NEW c \in Ctxs, Complete(c) \/ Fail(c) PROVE Promise!Next
  <2>1. flight' = [flight EXCEPT ![c] = {}]
    BY <1>6 DEF Complete, Fail
  <2> QED
    BY <2>1, LandEnds DEF Promise!Next
<1>7. CASE UNCHANGED vars
  BY <1>1, <1>7 DEF vars
<1> QED
  BY <1>2, <1>3, <1>4, <1>5, <1>6, <1>7 DEF Next

(* The scheduler implements MicroBatches: a micro-batch gets work only     *)
(* when it has none, and only work that nobody else is doing.              *)
THEOREM SchedulerKeepsPromise == Spec => KeepsPromise
<1>1. Init => Promise!Init
  BY ScheduledEmpty DEF Init, Promise!Init, Executing
<1> QED
  BY <1>1, FlightInvInit, FlightInvStep, PassInvInit, PassInvStep, StepKeepsPromise, PTL
     DEF Spec, KeepsPromise, Promise!Spec

(* No request is executed by two micro-batches at once, whatever is        *)
(* preempted, swapped, aborted or fails (scheduler.py:219, :372, :506).    *)
THEOREM NeverTwiceOnTheFly == Spec => []NoDoubleFlight
<1>1. FlightInv => NoDoubleFlight
  BY DEF FlightInv
<1> QED
  BY <1>1, FlightInvInit, FlightInvStep, PTL DEF Spec

-----------------------------------------------------------------------------
(* Where a request is.  Lists are counted, not compared: a move takes one  *)
(* occurrence from a list and adds one to another.                         *)
QueueTypes ==
    /\ waiting \in Seq(Requests) /\ running \in Seq(Requests) /\ swapped \in Seq(Requests)
    /\ reserve \in Seq(Requests) /\ preempted \in Seq(Requests)
    /\ swappedOut \in Seq(Requests) /\ swappedIn \in Seq(Requests)
    /\ decodes \in Seq(Requests) /\ prefills \in Seq(Requests)
    /\ status \in [Requests -> Live \cup {"new", "finished", "ignored"}]

(* Beside OneQueueEach: a new request is nowhere yet, and what the loops   *)
(* will put among the running has not ended.  While the running queue is   *)
(* looped over that includes the reserve, which goes back there; a loop    *)
(* over the others may skip a request that ended while it waited.          *)
PlaceOf(r) ==
    /\ Copies(r) <= 1
    /\ status[r] \in Live /\ raised = {} => Copies(r) = 1
    /\ status[r] = "new" => Copies(r) = 0
    /\ status[r] \notin Live =>
        /\ Occurrences(running, r) = 0
        /\ pc # "idle" => /\ Occurrences(swappedIn, r) = 0
                          /\ Occurrences(decodes, r) = 0
                          /\ Occurrences(prefills, r) = 0
        /\ pc = "running" => Occurrences(reserve, r) = 0

QueueInv ==
    /\ QueueTypes
    /\ pc = "finish" => reserve = <<>>
    /\ \A r \in Requests : PlaceOf(r)

(* The counts are numbers, so that they can be added.                      *)
Countable(r) ==
    /\ Occurrences(waiting, r) \in Nat /\ Occurrences(running, r) \in Nat
    /\ Occurrences(swapped, r) \in Nat /\ Occurrences(reserve, r) \in Nat
    /\ Occurrences(preempted, r) \in Nat /\ Occurrences(swappedOut, r) \in Nat
    /\ Occurrences(swappedIn, r) \in Nat /\ Occurrences(decodes, r) \in Nat
    /\ Occurrences(prefills, r) \in Nat

LEMMA Numbers == ASSUME QueueTypes, NEW r PROVE Countable(r)
  BY OccurrencesType DEF QueueTypes, Countable

(* The moves, and how often a request is in what they leave.               *)
One(r, e) == IF r = e THEN 1 ELSE 0

LEMMA OneIsNumber == \A r, e : One(r, e) \in Nat /\ (One(r, e) = 1 <=> r = e)
                                /\ (One(r, e) = 0 <=> r # e)
  BY DEF One

LEMMA TakesHead ==
  ASSUME NEW q \in Seq(Requests), q # <<>>
  PROVE  /\ Head(q) \in Requests /\ Tail(q) \in Seq(Requests)
         /\ \A r : /\ Occurrences(Tail(q), r) \in Nat
                   /\ Occurrences(q, r) = Occurrences(Tail(q), r) + One(r, Head(q))
  BY OccurrencesAfterTail, OccurrencesType DEF One

LEMMA TakesLast ==
  ASSUME NEW q \in Seq(Requests), q # <<>>
  PROVE  /\ Last(q) \in Requests /\ Front(q) \in Seq(Requests)
         /\ \A r : /\ Occurrences(Front(q), r) \in Nat
                   /\ Occurrences(q, r) = Occurrences(Front(q), r) + One(r, Last(q))
  BY OccurrencesAfterFront, OccurrencesType DEF One

LEMMA PutsLast ==
  ASSUME NEW q \in Seq(Requests), NEW e \in Requests
  PROVE  /\ Append(q, e) \in Seq(Requests)
         /\ \A r : Occurrences(Append(q, e), r) = Occurrences(q, r) + One(r, e)
  BY OccurrencesAfterAppend DEF One

LEMMA Joins ==
  ASSUME NEW p \in Seq(Requests), NEW q \in Seq(Requests)
  PROVE  /\ p \o q \in Seq(Requests)
         /\ \A r : /\ Occurrences(p \o q, r) \in Nat
                   /\ Occurrences(p \o q, r) = Occurrences(p, r) + Occurrences(q, r)
<1>1. p \o q \in Seq(Requests)
  BY ConcatProperties
<1> QED
  BY <1>1, OccurrencesInConcat, OccurrencesType

LEMMA Leaves ==
  ASSUME NEW q \in Seq(Requests), NEW S
  PROVE  /\ Without(q, S) \in Seq(Requests)
         /\ \A r : Occurrences(Without(q, S), r) =
                      IF r \in S THEN 0 ELSE Occurrences(q, r)
<1>1. Without(q, S) \in Seq(Requests)
  BY WithoutKeeps
<1>2. ASSUME NEW r
      PROVE  Occurrences(Without(q, S), r) = IF r \in S THEN 0 ELSE Occurrences(q, r)
  BY OccurrencesWithout
<1> QED
  BY <1>1, <1>2

LEMMA JoinsFour ==
  ASSUME NEW p \in Seq(Requests), NEW q \in Seq(Requests), NEW s \in Seq(Requests),
         NEW t \in Seq(Requests)
  PROVE  /\ p \o q \o s \o t \in Seq(Requests)
         /\ \A r : Occurrences(p \o q \o s \o t, r) =
                       Occurrences(p, r) + Occurrences(q, r)
                       + Occurrences(s, r) + Occurrences(t, r)
<1> DEFINE a == p \o q
           b == a \o s
<1>1. /\ a \in Seq(Requests)
      /\ \A r : Occurrences(a, r) = Occurrences(p, r) + Occurrences(q, r)
  BY Joins
<1> HIDE DEF a
<1>2. /\ b \in Seq(Requests)
      /\ \A r : Occurrences(b, r) = Occurrences(a, r) + Occurrences(s, r)
  BY <1>1, Joins
<1> HIDE DEF b
<1>3. /\ b \o t \in Seq(Requests)
      /\ \A r : Occurrences(b \o t, r) = Occurrences(b, r) + Occurrences(t, r)
  BY <1>2, Joins
<1> QED
  BY <1>1, <1>2, <1>3 DEF a, b

(* The turns of the loops: each moves the head of a queue.                *)
LEMMA SkipRunningKeepsQueues ==
  ASSUME QueueInv, SkipRunning
  PROVE  QueueInv'
<1> DEFINE h == Head(running)
<1>1. /\ running # <<>> /\ h = Head(running) /\ running' = Tail(running)
      /\ reserve' = Append(reserve, h)
  BY DEF SkipRunning, RunningTurn
<1>2. /\ pc = "running"
      /\ UNCHANGED <<waiting, swapped, preempted, swappedOut, swappedIn, decodes,
                     prefills, status, pc, raised>>
  BY DEF SkipRunning, RunningTurn, queues, sequences, results
<1>3. /\ h \in Requests /\ running' \in Seq(Requests)
      /\ \A r : /\ Occurrences(running', r) \in Nat
                /\ Occurrences(running, r) = Occurrences(running', r) + One(r, h)
  BY <1>1, TakesHead DEF QueueInv, QueueTypes
<1>4. /\ reserve' \in Seq(Requests)
      /\ \A r : Occurrences(reserve', r) = Occurrences(reserve, r) + One(r, h)
  BY <1>1, <1>3, PutsLast DEF QueueInv, QueueTypes
<1> HIDE DEF h
<1>5. QueueTypes'
  BY <1>2, <1>3, <1>4 DEF QueueInv, QueueTypes
<1>6. ASSUME NEW r \in Requests PROVE PlaceOf(r)'
  <2>1. PlaceOf(r) /\ Countable(r)
    BY Numbers DEF QueueInv
  <2>2. /\ pc # "idle" /\ pc' # "idle"
        /\ UNCHANGED <<waiting, swapped, preempted, swappedOut, swappedIn, decodes,
                       prefills>>
    BY <1>2
  <2>3. /\ Occurrences(running, r) = Occurrences(running', r) + One(r, h)
        /\ Occurrences(running', r) \in Nat
        /\ One(r, h) \in Nat /\ (One(r, h) # 0 <=> r = h)
        /\ Occurrences(reserve', r) = Occurrences(reserve, r) + One(r, h)
    BY <1>3, <1>4, OneIsNumber
  <2>4. Copies(r)' = Copies(r) /\ Copies(r) \in Nat
    BY <2>1, <2>2, <2>3 DEF Copies, Countable
  <2>5. Occurrences(running, r) # 0 => Copies(r) # 0
    BY <2>1, <2>2 DEF Copies, Countable
  <2> QED
    BY <1>2, <2>1, <2>2, <2>3, <2>4, <2>5 DEF PlaceOf, Countable, Live
<1> QED
  BY <1>2, <1>5, <1>6 DEF QueueInv

LEMMA ScheduleRunningKeepsQueues ==
  ASSUME QueueInv, NEW h \in Requests, ScheduleRunning(h)
  PROVE  QueueInv'
<1>1. /\ running # <<>> /\ h = Head(running) /\ running' = Tail(running)
      /\ decodes' = Append(decodes, h)
  BY DEF ScheduleRunning, RunningTurn
<1>2. /\ pc = "running"
      /\ UNCHANGED <<waiting, swapped, reserve, preempted, swappedOut, swappedIn,
                     prefills, status, pc, raised>>
  BY DEF ScheduleRunning, RunningTurn, queues, sequences, results
<1>3. /\ h \in Requests /\ running' \in Seq(Requests)
      /\ \A r : /\ Occurrences(running', r) \in Nat
                /\ Occurrences(running, r) = Occurrences(running', r) + One(r, h)
  BY <1>1, TakesHead DEF QueueInv, QueueTypes
<1>4. /\ decodes' \in Seq(Requests)
      /\ \A r : Occurrences(decodes', r) = Occurrences(decodes, r) + One(r, h)
  BY <1>1, <1>3, PutsLast DEF QueueInv, QueueTypes
<1>5. QueueTypes'
  BY <1>2, <1>3, <1>4 DEF QueueInv, QueueTypes
<1>6. ASSUME NEW r \in Requests PROVE PlaceOf(r)'
  <2>1. PlaceOf(r) /\ Countable(r)
    BY Numbers DEF QueueInv
  <2>2. /\ pc # "idle" /\ pc' # "idle"
        /\ UNCHANGED <<waiting, swapped, reserve, preempted, swappedOut, swappedIn,
                       prefills>>
    BY <1>2
  <2>3. /\ Occurrences(running, r) = Occurrences(running', r) + One(r, h)
        /\ Occurrences(running', r) \in Nat
        /\ One(r, h) \in Nat /\ (One(r, h) # 0 <=> r = h)
        /\ Occurrences(decodes', r) = Occurrences(decodes, r) + One(r, h)
    BY <1>3, <1>4, OneIsNumber
  <2>4. Copies(r)' = Copies(r) /\ Copies(r) \in Nat
    BY <2>1, <2>2, <2>3 DEF Copies, Countable
  <2>5. Occurrences(running, r) # 0 => Copies(r) # 0
    BY <2>1, <2>2 DEF Copies, Countable
  <2> QED
    BY <1>2, <2>1, <2>2, <2>3, <2>4, <2>5 DEF PlaceOf, Countable, Live
<1> QED
  BY <1>2, <1>5, <1>6 DEF QueueInv

LEMMA SkipSwappedKeepsQueues ==
  ASSUME QueueInv, SkipSwapped
  PROVE  QueueInv'
<1> DEFINE h == Head(swapped)
<1>1. /\ swapped # <<>> /\ h = Head(swapped) /\ swapped' = Tail(swapped)
      /\ reserve' = Append(reserve, h)
  BY DEF SkipSwapped, SwappedTurn
<1>2. /\ pc = "swapped"
      /\ UNCHANGED <<waiting, running, preempted, swappedOut, swappedIn, decodes,
                     prefills, status, pc, raised>>
  BY DEF SkipSwapped, SwappedTurn, queues, sequences, results
<1>3. /\ h \in Requests /\ swapped' \in Seq(Requests)
      /\ \A r : /\ Occurrences(swapped', r) \in Nat
                /\ Occurrences(swapped, r) = Occurrences(swapped', r) + One(r, h)
  BY <1>1, TakesHead DEF QueueInv, QueueTypes
<1>4. /\ reserve' \in Seq(Requests)
      /\ \A r : Occurrences(reserve', r) = Occurrences(reserve, r) + One(r, h)
  BY <1>1, <1>3, PutsLast DEF QueueInv, QueueTypes
<1> HIDE DEF h
<1>5. QueueTypes'
  BY <1>2, <1>3, <1>4 DEF QueueInv, QueueTypes
<1>6. ASSUME NEW r \in Requests PROVE PlaceOf(r)'
  <2>1. PlaceOf(r) /\ Countable(r)
    BY Numbers DEF QueueInv
  <2>2. /\ pc # "idle" /\ pc' # "idle"
        /\ UNCHANGED <<waiting, running, preempted, swappedOut, swappedIn, decodes,
                       prefills>>
    BY <1>2
  <2>3. /\ Occurrences(swapped, r) = Occurrences(swapped', r) + One(r, h)
        /\ Occurrences(swapped', r) \in Nat
        /\ One(r, h) \in Nat /\ (One(r, h) # 0 <=> r = h)
        /\ Occurrences(reserve', r) = Occurrences(reserve, r) + One(r, h)
    BY <1>3, <1>4, OneIsNumber
  <2>4. Copies(r)' = Copies(r) /\ Copies(r) \in Nat
    BY <2>1, <2>2, <2>3 DEF Copies, Countable
  <2>5. Occurrences(swapped, r) # 0 => Copies(r) # 0
    BY <2>1, <2>2 DEF Copies, Countable
  <2> QED
    BY <1>2, <2>1, <2>2, <2>3, <2>4, <2>5 DEF PlaceOf, Countable, Live
<1> QED
  BY <1>2, <1>5, <1>6 DEF QueueInv

LEMMA SwapInKeepsQueues ==
  ASSUME QueueInv, NEW h \in Requests, SwapIn(h)
  PROVE  QueueInv'
<1>1. /\ swapped # <<>> /\ h = Head(swapped) /\ swapped' = Tail(swapped)
      /\ swappedIn' = Append(swappedIn, h)
      /\ status' = [status EXCEPT ![h] = "running"]
  BY DEF SwapIn, SwappedTurn
<1>2. /\ pc = "swapped"
      /\ UNCHANGED <<waiting, running, reserve, preempted, swappedOut, decodes,
                     prefills, pc, raised>>
  BY DEF SwapIn, SwappedTurn, queues, sequences, results
<1>3. /\ h \in Requests /\ swapped' \in Seq(Requests)
      /\ \A r : /\ Occurrences(swapped', r) \in Nat
                /\ Occurrences(swapped, r) = Occurrences(swapped', r) + One(r, h)
  BY <1>1, TakesHead DEF QueueInv, QueueTypes
<1>4. /\ swappedIn' \in Seq(Requests)
      /\ \A r : Occurrences(swappedIn', r) = Occurrences(swappedIn, r) + One(r, h)
  BY <1>1, <1>3, PutsLast DEF QueueInv, QueueTypes
<1>5. /\ status' \in [Requests -> Live \cup {"new", "finished", "ignored"}]
      /\ \A r \in Requests : status'[r] = IF r = h THEN "running" ELSE status[r]
  BY <1>1, <1>3 DEF QueueInv, QueueTypes, Live
<1>6. QueueTypes'
  BY <1>2, <1>3, <1>4, <1>5 DEF QueueInv, QueueTypes
<1>7. ASSUME NEW r \in Requests PROVE PlaceOf(r)'
  <2>1. PlaceOf(r) /\ Countable(r)
    BY Numbers DEF QueueInv
  <2>2. /\ pc # "idle" /\ pc' # "idle"
        /\ UNCHANGED <<waiting, running, reserve, preempted, swappedOut, decodes,
                       prefills>>
    BY <1>2
  <2>3. /\ Occurrences(swapped, r) = Occurrences(swapped', r) + One(r, h)
        /\ Occurrences(swapped', r) \in Nat
        /\ One(r, h) \in Nat /\ (One(r, h) # 0 <=> r = h)
        /\ Occurrences(swappedIn', r) = Occurrences(swappedIn, r) + One(r, h)
    BY <1>3, <1>4, OneIsNumber
  <2>4. Copies(r)' = Copies(r) /\ Copies(r) \in Nat
    BY <2>1, <2>2, <2>3 DEF Copies, Countable
  <2>5. Occurrences(swapped, r) # 0 => Copies(r) # 0
    BY <2>1, <2>2 DEF Copies, Countable
  <2> QED
    BY <1>2, <1>5, <2>1, <2>2, <2>3, <2>4, <2>5 DEF PlaceOf, Countable, Live
<1> QED
  BY <1>2, <1>6, <1>7 DEF QueueInv

LEMMA DropSwappedKeepsQueues ==
  ASSUME QueueInv, DropSwapped
  PROVE  QueueInv'
<1> DEFINE h == Head(swapped)
<1>1. /\ swapped # <<>> /\ h = Head(swapped) /\ swapped' = Tail(swapped)
      /\ status' = [status EXCEPT ![h] = "ignored"]
  BY DEF DropSwapped, SwappedTurn
<1>2. /\ pc = "swapped"
      /\ UNCHANGED <<waiting, running, reserve, preempted, swappedOut, swappedIn,
                     decodes, prefills, pc, raised>>
  BY DEF DropSwapped, SwappedTurn, queues, sequences, results
<1>3. /\ h \in Requests /\ swapped' \in Seq(Requests)
      /\ \A r : /\ Occurrences(swapped', r) \in Nat
                /\ Occurrences(swapped, r) = Occurrences(swapped', r) + One(r, h)
  BY <1>1, TakesHead DEF QueueInv, QueueTypes
<1> HIDE DEF h
<1>4. /\ status' \in [Requests -> Live \cup {"new", "finished", "ignored"}]
      /\ \A r \in Requests : status'[r] = IF r = h THEN "ignored" ELSE status[r]
  BY <1>1, <1>3 DEF QueueInv, QueueTypes, Live
<1>5. QueueTypes'
  BY <1>2, <1>3, <1>4 DEF QueueInv, QueueTypes
<1>6. ASSUME NEW r \in Requests PROVE PlaceOf(r)'
  <2>1. PlaceOf(r) /\ Countable(r) /\ Copies(r) <= 1
    BY Numbers DEF QueueInv, PlaceOf
  <2>2. /\ pc # "idle" /\ pc' # "idle"
        /\ UNCHANGED <<waiting, running, reserve, preempted, swappedOut, swappedIn,
                       decodes, prefills>>
    BY <1>2
  <2>3. /\ Occurrences(swapped, r) = Occurrences(swapped', r) + One(r, h)
        /\ Occurrences(swapped', r) \in Nat
        /\ One(r, h) \in Nat /\ (One(r, h) # 0 <=> r = h)
    BY <1>3, OneIsNumber
  <2>4. Copies(r)' = Copies(r) - One(r, h) /\ Copies(r)' \in Nat /\ Copies(r) \in Nat
    BY <2>1, <2>2, <2>3 DEF Copies, Countable
  <2>5. Copies(r) >= Occurrences(swapped, r) + Occurrences(running, r)
                      + Occurrences(swappedIn, r) + Occurrences(decodes, r)
                      + Occurrences(prefills, r)
    BY <2>1, <2>2 DEF Copies, Countable
  <2>6. CASE r = h
    <3>1. /\ Occurrences(running, r) = 0 /\ Occurrences(swappedIn, r) = 0
          /\ Occurrences(decodes, r) = 0 /\ Occurrences(prefills, r) = 0
      <4>1. Occurrences(swapped, r) >= 1
        BY <2>3, <2>6
      <4> QED
        BY <2>1, <2>4, <2>5, <4>1 DEF Countable
    <3> QED
      BY <1>2, <1>4, <2>1, <2>2, <2>3, <2>4, <2>6, <3>1 DEF PlaceOf, Live
  <2>7. CASE r # h
    BY <1>2, <1>4, <2>1, <2>2, <2>3, <2>4, <2>7 DEF PlaceOf, Countable, Live
  <2> QED
    BY <2>6, <2>7
<1> QED
  BY <1>2, <1>5, <1>6 DEF QueueInv

LEMMA SkipWaitingKeepsQueues ==
  ASSUME QueueInv, SkipWaiting
  PROVE  QueueInv'
<1> DEFINE h == Head(waiting)
<1>1. /\ waiting # <<>> /\ h = Head(waiting) /\ waiting' = Tail(waiting)
      /\ reserve' = Append(reserve, h)
  BY DEF SkipWaiting, PrefillTurn
<1>2. /\ pc = "prefills"
      /\ UNCHANGED <<running, swapped, preempted, swappedOut, swappedIn, decodes,
                     prefills, status, pc, raised>>
  BY DEF SkipWaiting, PrefillTurn, queues, sequences, results
<1>3. /\ h \in Requests /\ waiting' \in Seq(Requests)
      /\ \A r : /\ Occurrences(waiting', r) \in Nat
                /\ Occurrences(waiting, r) = Occurrences(waiting', r) + One(r, h)
  BY <1>1, TakesHead DEF QueueInv, QueueTypes
<1>4. /\ reserve' \in Seq(Requests)
      /\ \A r : Occurrences(reserve', r) = Occurrences(reserve, r) + One(r, h)
  BY <1>1, <1>3, PutsLast DEF QueueInv, QueueTypes
<1> HIDE DEF h
<1>5. QueueTypes'
  BY <1>2, <1>3, <1>4 DEF QueueInv, QueueTypes
<1>6. ASSUME NEW r \in Requests PROVE PlaceOf(r)'
  <2>1. PlaceOf(r) /\ Countable(r)
    BY Numbers DEF QueueInv
  <2>2. /\ pc # "idle" /\ pc' # "idle"
        /\ UNCHANGED <<running, swapped, preempted, swappedOut, swappedIn, decodes,
                       prefills>>
    BY <1>2
  <2>3. /\ Occurrences(waiting, r) = Occurrences(waiting', r) + One(r, h)
        /\ Occurrences(waiting', r) \in Nat
        /\ One(r, h) \in Nat /\ (One(r, h) # 0 <=> r = h)
        /\ Occurrences(reserve', r) = Occurrences(reserve, r) + One(r, h)
    BY <1>3, <1>4, OneIsNumber
  <2>4. Copies(r)' = Copies(r) /\ Copies(r) \in Nat
    BY <2>1, <2>2, <2>3 DEF Copies, Countable
  <2>5. Occurrences(waiting, r) # 0 => Copies(r) # 0
    BY <2>1, <2>2 DEF Copies, Countable
  <2> QED
    BY <1>2, <2>1, <2>2, <2>3, <2>4, <2>5 DEF PlaceOf, Countable, Live
<1> QED
  BY <1>2, <1>5, <1>6 DEF QueueInv

LEMMA SchedulePrefillKeepsQueues ==
  ASSUME QueueInv, NEW h \in Requests, SchedulePrefill(h)
  PROVE  QueueInv'
<1>1. /\ waiting # <<>> /\ h = Head(waiting) /\ waiting' = Tail(waiting)
      /\ prefills' = Append(prefills, h)
      /\ status' = [status EXCEPT ![h] = "running"]
  BY DEF SchedulePrefill, PrefillTurn
<1>2. /\ pc = "prefills"
      /\ UNCHANGED <<running, swapped, reserve, preempted, swappedOut, swappedIn,
                     decodes, pc, raised>>
  BY DEF SchedulePrefill, PrefillTurn, queues, sequences, results
<1>3. /\ h \in Requests /\ waiting' \in Seq(Requests)
      /\ \A r : /\ Occurrences(waiting', r) \in Nat
                /\ Occurrences(waiting, r) = Occurrences(waiting', r) + One(r, h)
  BY <1>1, TakesHead DEF QueueInv, QueueTypes
<1>4. /\ prefills' \in Seq(Requests)
      /\ \A r : Occurrences(prefills', r) = Occurrences(prefills, r) + One(r, h)
  BY <1>1, <1>3, PutsLast DEF QueueInv, QueueTypes
<1>5. /\ status' \in [Requests -> Live \cup {"new", "finished", "ignored"}]
      /\ \A r \in Requests : status'[r] = IF r = h THEN "running" ELSE status[r]
  BY <1>1, <1>3 DEF QueueInv, QueueTypes, Live
<1>6. QueueTypes'
  BY <1>2, <1>3, <1>4, <1>5 DEF QueueInv, QueueTypes
<1>7. ASSUME NEW r \in Requests PROVE PlaceOf(r)'
  <2>1. PlaceOf(r) /\ Countable(r)
    BY Numbers DEF QueueInv
  <2>2. /\ pc # "idle" /\ pc' # "idle"
        /\ UNCHANGED <<running, swapped, reserve, preempted, swappedOut, swappedIn,
                       decodes>>
    BY <1>2
  <2>3. /\ Occurrences(waiting, r) = Occurrences(waiting', r) + One(r, h)
        /\ Occurrences(waiting', r) \in Nat
        /\ One(r, h) \in Nat /\ (One(r, h) # 0 <=> r = h)
        /\ Occurrences(prefills', r) = Occurrences(prefills, r) + One(r, h)
    BY <1>3, <1>4, OneIsNumber
  <2>4. Copies(r)' = Copies(r) /\ Copies(r) \in Nat
    BY <2>1, <2>2, <2>3 DEF Copies, Countable
  <2>5. Occurrences(waiting, r) # 0 => Copies(r) # 0
    BY <2>1, <2>2 DEF Copies, Countable
  <2> QED
    BY <1>2, <1>5, <2>1, <2>2, <2>3, <2>4, <2>5 DEF PlaceOf, Countable, Live
<1> QED
  BY <1>2, <1>6, <1>7 DEF QueueInv

LEMMA IgnorePromptKeepsQueues ==
  ASSUME QueueInv, IgnorePrompt
  PROVE  QueueInv'
<1> DEFINE h == Head(waiting)
<1>1. /\ waiting # <<>> /\ h = Head(waiting) /\ waiting' = Tail(waiting)
      /\ status' = [status EXCEPT ![h] = "ignored"]
  BY DEF IgnorePrompt, PrefillTurn
<1>2. /\ pc = "prefills"
      /\ UNCHANGED <<running, swapped, reserve, preempted, swappedOut, swappedIn,
                     decodes, prefills, pc, raised>>
  BY DEF IgnorePrompt, PrefillTurn, queues, sequences, results
<1>3. /\ h \in Requests /\ waiting' \in Seq(Requests)
      /\ \A r : /\ Occurrences(waiting', r) \in Nat
                /\ Occurrences(waiting, r) = Occurrences(waiting', r) + One(r, h)
  BY <1>1, TakesHead DEF QueueInv, QueueTypes
<1> HIDE DEF h
<1>4. /\ status' \in [Requests -> Live \cup {"new", "finished", "ignored"}]
      /\ \A r \in Requests : status'[r] = IF r = h THEN "ignored" ELSE status[r]
  BY <1>1, <1>3 DEF QueueInv, QueueTypes, Live
<1>5. QueueTypes'
  BY <1>2, <1>3, <1>4 DEF QueueInv, QueueTypes
<1>6. ASSUME NEW r \in Requests PROVE PlaceOf(r)'
  <2>1. PlaceOf(r) /\ Countable(r) /\ Copies(r) <= 1
    BY Numbers DEF QueueInv, PlaceOf
  <2>2. /\ pc # "idle" /\ pc' # "idle"
        /\ UNCHANGED <<running, swapped, reserve, preempted, swappedOut, swappedIn,
                       decodes, prefills>>
    BY <1>2
  <2>3. /\ Occurrences(waiting, r) = Occurrences(waiting', r) + One(r, h)
        /\ Occurrences(waiting', r) \in Nat
        /\ One(r, h) \in Nat /\ (One(r, h) # 0 <=> r = h)
    BY <1>3, OneIsNumber
  <2>4. Copies(r)' = Copies(r) - One(r, h) /\ Copies(r)' \in Nat /\ Copies(r) \in Nat
    BY <2>1, <2>2, <2>3 DEF Copies, Countable
  <2>5. Copies(r) >= Occurrences(waiting, r) + Occurrences(running, r)
                      + Occurrences(swappedIn, r) + Occurrences(decodes, r)
                      + Occurrences(prefills, r)
    BY <2>1, <2>2 DEF Copies, Countable
  <2>6. CASE r = h
    <3>1. /\ Occurrences(running, r) = 0 /\ Occurrences(swappedIn, r) = 0
          /\ Occurrences(decodes, r) = 0 /\ Occurrences(prefills, r) = 0
      <4>1. Occurrences(waiting, r) >= 1
        BY <2>3, <2>6
      <4> QED
        BY <2>1, <2>4, <2>5, <4>1 DEF Countable
    <3> QED
      BY <1>2, <1>4, <2>1, <2>2, <2>3, <2>4, <2>6, <3>1 DEF PlaceOf, Live
  <2>7. CASE r # h
    BY <1>2, <1>4, <2>1, <2>2, <2>3, <2>4, <2>7 DEF PlaceOf, Countable, Live
  <2> QED
    BY <2>6, <2>7
<1> QED
  BY <1>2, <1>5, <1>6 DEF QueueInv

(* The last of the running is recomputed, or swapped out.                  *)
RecomputeLast ==
    /\ PreemptLast
    /\ slots' = [slots EXCEPT ![Last(running)] = 0]
    /\ computed' = [computed EXCEPT ![Last(running)] = 0]
    /\ status' = [status EXCEPT ![Last(running)] = "waiting"]
    /\ preempted' = Append(preempted, Last(running))
    /\ UNCHANGED swappedOut
SwapOutLast ==
    /\ PreemptLast
    /\ slots' = [slots EXCEPT ![Last(running)] = 0]
    /\ computed' = computed
    /\ status' = [status EXCEPT ![Last(running)] = "swapped"]
    /\ swappedOut' = Append(swappedOut, Last(running))
    /\ UNCHANGED preempted

LEMMA PreemptsSomehow == PreemptLast => RecomputeLast \/ SwapOutLast
  BY DEF PreemptLast, Preempt, RecomputeLast, SwapOutLast

LEMMA RecomputeLastKeepsQueues ==
  ASSUME QueueInv, RecomputeLast
  PROVE  QueueInv'
<1> DEFINE h == Last(running)
<1>1. /\ running # <<>> /\ h = Last(running) /\ running' = Front(running)
      /\ preempted' = Append(preempted, h)
      /\ status' = [status EXCEPT ![h] = "waiting"]
  BY DEF RecomputeLast, PreemptLast, RunningTurn
<1>2. /\ pc = "running"
      /\ UNCHANGED <<waiting, swapped, reserve, swappedOut, swappedIn, decodes,
                     prefills, pc, raised>>
  BY DEF RecomputeLast, PreemptLast, RunningTurn, queues, sequences, results
<1>3. /\ h \in Requests /\ running' \in Seq(Requests)
      /\ \A r : /\ Occurrences(running', r) \in Nat
                /\ Occurrences(running, r) = Occurrences(running', r) + One(r, h)
  BY <1>1, TakesLast DEF QueueInv, QueueTypes
<1>4. /\ preempted' \in Seq(Requests)
      /\ \A r : Occurrences(preempted', r) = Occurrences(preempted, r) + One(r, h)
  BY <1>1, <1>3, PutsLast DEF QueueInv, QueueTypes
<1> HIDE DEF h
<1>5. /\ status' \in [Requests -> Live \cup {"new", "finished", "ignored"}]
      /\ \A r \in Requests : status'[r] = IF r = h THEN "waiting" ELSE status[r]
  BY <1>1, <1>3 DEF QueueInv, QueueTypes, Live
<1>6. QueueTypes'
  BY <1>2, <1>3, <1>4, <1>5 DEF QueueInv, QueueTypes
<1>7. ASSUME NEW r \in Requests PROVE PlaceOf(r)'
  <2>1. PlaceOf(r) /\ Countable(r)
    BY Numbers DEF QueueInv
  <2>2. /\ pc # "idle" /\ pc' # "idle"
        /\ UNCHANGED <<waiting, swapped, reserve, swappedOut, swappedIn, decodes,
                       prefills>>
    BY <1>2
  <2>3. /\ Occurrences(running, r) = Occurrences(running', r) + One(r, h)
        /\ Occurrences(running', r) \in Nat
        /\ One(r, h) \in Nat /\ (One(r, h) # 0 <=> r = h)
        /\ Occurrences(preempted', r) = Occurrences(preempted, r) + One(r, h)
    BY <1>3, <1>4, OneIsNumber
  <2>4. Copies(r)' = Copies(r) /\ Copies(r) \in Nat
    BY <2>1, <2>2, <2>3 DEF Copies, Countable
  <2>5. Occurrences(running, r) # 0 => Copies(r) # 0
    BY <2>1, <2>2 DEF Copies, Countable
  <2> QED
    BY <1>2, <1>5, <2>1, <2>2, <2>3, <2>4, <2>5 DEF PlaceOf, Countable, Live
<1> QED
  BY <1>2, <1>6, <1>7 DEF QueueInv

LEMMA SwapOutLastKeepsQueues ==
  ASSUME QueueInv, SwapOutLast
  PROVE  QueueInv'
<1> DEFINE h == Last(running)
<1>1. /\ running # <<>> /\ h = Last(running) /\ running' = Front(running)
      /\ swappedOut' = Append(swappedOut, h)
      /\ status' = [status EXCEPT ![h] = "swapped"]
  BY DEF SwapOutLast, PreemptLast, RunningTurn
<1>2. /\ pc = "running"
      /\ UNCHANGED <<waiting, swapped, reserve, preempted, swappedIn, decodes,
                     prefills, pc, raised>>
  BY DEF SwapOutLast, PreemptLast, RunningTurn, queues, sequences, results
<1>3. /\ h \in Requests /\ running' \in Seq(Requests)
      /\ \A r : /\ Occurrences(running', r) \in Nat
                /\ Occurrences(running, r) = Occurrences(running', r) + One(r, h)
  BY <1>1, TakesLast DEF QueueInv, QueueTypes
<1>4. /\ swappedOut' \in Seq(Requests)
      /\ \A r : Occurrences(swappedOut', r) = Occurrences(swappedOut, r) + One(r, h)
  BY <1>1, <1>3, PutsLast DEF QueueInv, QueueTypes
<1> HIDE DEF h
<1>5. /\ status' \in [Requests -> Live \cup {"new", "finished", "ignored"}]
      /\ \A r \in Requests : status'[r] = IF r = h THEN "swapped" ELSE status[r]
  BY <1>1, <1>3 DEF QueueInv, QueueTypes, Live
<1>6. QueueTypes'
  BY <1>2, <1>3, <1>4, <1>5 DEF QueueInv, QueueTypes
<1>7. ASSUME NEW r \in Requests PROVE PlaceOf(r)'
  <2>1. PlaceOf(r) /\ Countable(r)
    BY Numbers DEF QueueInv
  <2>2. /\ pc # "idle" /\ pc' # "idle"
        /\ UNCHANGED <<waiting, swapped, reserve, preempted, swappedIn, decodes,
                       prefills>>
    BY <1>2
  <2>3. /\ Occurrences(running, r) = Occurrences(running', r) + One(r, h)
        /\ Occurrences(running', r) \in Nat
        /\ One(r, h) \in Nat /\ (One(r, h) # 0 <=> r = h)
        /\ Occurrences(swappedOut', r) = Occurrences(swappedOut, r) + One(r, h)
    BY <1>3, <1>4, OneIsNumber
  <2>4. Copies(r)' = Copies(r) /\ Copies(r) \in Nat
    BY <2>1, <2>2, <2>3 DEF Copies, Countable
  <2>5. Occurrences(running, r) # 0 => Copies(r) # 0
    BY <2>1, <2>2 DEF Copies, Countable
  <2> QED
    BY <1>2, <1>5, <2>1, <2>2, <2>3, <2>4, <2>5 DEF PlaceOf, Countable, Live
<1> QED
  BY <1>2, <1>6, <1>7 DEF QueueInv

(* The end of a loop: what it passed over goes back.                       *)
LEMMA EndRunningKeepsQueues ==
  ASSUME QueueInv, EndRunning
  PROVE  QueueInv'
<1>1. /\ running' = reserve \o running /\ reserve' = <<>>
      /\ pc = "running" /\ pc' # "idle"
  BY DEF EndRunning, NextLoop, PutBack
<1>2. UNCHANGED <<waiting, swapped, preempted, swappedOut, swappedIn,
                  decodes, prefills, status, raised>>
  BY DEF EndRunning, queues, sequences, results
<1>3. /\ running' \in Seq(Requests) /\ reserve' \in Seq(Requests)
      /\ \A r : /\ Occurrences(running', r) \in Nat
                /\ Occurrences(running', r) =
                      Occurrences(reserve, r) + Occurrences(running, r)
                /\ Occurrences(reserve', r) = 0
  BY <1>1, Joins, OccurrencesInEmpty DEF QueueInv, QueueTypes
<1>4. QueueTypes'
  BY <1>2, <1>3 DEF QueueInv, QueueTypes
<1>5. ASSUME NEW r \in Requests PROVE PlaceOf(r)'
  <2>1. PlaceOf(r) /\ Countable(r)
    BY Numbers DEF QueueInv
  <2>2. /\ pc # "idle" /\ pc' # "idle"
        /\ UNCHANGED <<waiting, swapped, preempted, swappedOut, swappedIn,
                       decodes, prefills>>
    BY <1>1, <1>2
  <2>3. /\ Occurrences(running', r) = Occurrences(reserve, r) + Occurrences(running, r)
        /\ Occurrences(running', r) \in Nat /\ Occurrences(reserve', r) = 0
    BY <1>3
  <2>4. Copies(r)' = Copies(r) /\ Copies(r) \in Nat
    BY <2>1, <2>2, <2>3 DEF Copies, Countable
  <2>5. pc = "running" /\ UNCHANGED <<status, raised>>
    BY <1>1, <1>2
  <2> QED
    BY <2>1, <2>2, <2>3, <2>4, <2>5 DEF PlaceOf, Countable
<1> QED
  BY <1>1, <1>4, <1>5 DEF QueueInv

LEMMA EndSwappedKeepsQueues ==
  ASSUME QueueInv, EndSwapped
  PROVE  QueueInv'
<1>1. /\ swapped' = reserve \o swapped /\ reserve' = <<>>
      /\ pc = "swapped" /\ pc' # "idle"
  BY DEF EndSwapped, NextLoop, PutBack
<1>2. UNCHANGED <<waiting, running, preempted, swappedOut, swappedIn,
                  decodes, prefills, status, raised>>
  BY DEF EndSwapped, queues, sequences, results
<1>3. /\ swapped' \in Seq(Requests) /\ reserve' \in Seq(Requests)
      /\ \A r : /\ Occurrences(swapped', r) \in Nat
                /\ Occurrences(swapped', r) =
                      Occurrences(reserve, r) + Occurrences(swapped, r)
                /\ Occurrences(reserve', r) = 0
  BY <1>1, Joins, OccurrencesInEmpty DEF QueueInv, QueueTypes
<1>4. QueueTypes'
  BY <1>2, <1>3 DEF QueueInv, QueueTypes
<1>5. ASSUME NEW r \in Requests PROVE PlaceOf(r)'
  <2>1. PlaceOf(r) /\ Countable(r)
    BY Numbers DEF QueueInv
  <2>2. /\ pc # "idle" /\ pc' # "idle"
        /\ UNCHANGED <<waiting, running, preempted, swappedOut, swappedIn,
                       decodes, prefills>>
    BY <1>1, <1>2
  <2>3. /\ Occurrences(swapped', r) = Occurrences(reserve, r) + Occurrences(swapped, r)
        /\ Occurrences(swapped', r) \in Nat /\ Occurrences(reserve', r) = 0
    BY <1>3
  <2>4. Copies(r)' = Copies(r) /\ Copies(r) \in Nat
    BY <2>1, <2>2, <2>3 DEF Copies, Countable
  <2>5. pc = "swapped" /\ UNCHANGED <<status, raised>>
    BY <1>1, <1>2
  <2> QED
    BY <2>1, <2>2, <2>3, <2>4, <2>5 DEF PlaceOf, Countable
<1> QED
  BY <1>1, <1>4, <1>5 DEF QueueInv

LEMMA EndPrefillsKeepsQueues ==
  ASSUME QueueInv, EndPrefills
  PROVE  QueueInv'
<1>1. /\ waiting' = reserve \o waiting /\ reserve' = <<>>
      /\ pc = "prefills" /\ pc' # "idle"
  BY DEF EndPrefills, NextLoop, PutBack
<1>2. UNCHANGED <<running, swapped, preempted, swappedOut, swappedIn,
                  decodes, prefills, status, raised>>
  BY DEF EndPrefills, queues, sequences, results
<1>3. /\ waiting' \in Seq(Requests) /\ reserve' \in Seq(Requests)
      /\ \A r : /\ Occurrences(waiting', r) \in Nat
                /\ Occurrences(waiting', r) =
                      Occurrences(reserve, r) + Occurrences(waiting, r)
                /\ Occurrences(reserve', r) = 0
  BY <1>1, Joins, OccurrencesInEmpty DEF QueueInv, QueueTypes
<1>4. QueueTypes'
  BY <1>2, <1>3 DEF QueueInv, QueueTypes
<1>5. ASSUME NEW r \in Requests PROVE PlaceOf(r)'
  <2>1. PlaceOf(r) /\ Countable(r)
    BY Numbers DEF QueueInv
  <2>2. /\ pc # "idle" /\ pc' # "idle"
        /\ UNCHANGED <<running, swapped, preempted, swappedOut, swappedIn,
                       decodes, prefills>>
    BY <1>1, <1>2
  <2>3. /\ Occurrences(waiting', r) = Occurrences(reserve, r) + Occurrences(waiting, r)
        /\ Occurrences(waiting', r) \in Nat /\ Occurrences(reserve', r) = 0
    BY <1>3
  <2>4. Copies(r)' = Copies(r) /\ Copies(r) \in Nat
    BY <2>1, <2>2, <2>3 DEF Copies, Countable
  <2>5. pc = "prefills" /\ UNCHANGED <<status, raised>>
    BY <1>1, <1>2
  <2> QED
    BY <2>1, <2>2, <2>3, <2>4, <2>5 DEF PlaceOf, Countable
<1> QED
  BY <1>1, <1>4, <1>5 DEF QueueInv

(* What the loops moved goes into the queues.                              *)
LEMMA FinishPassKeepsQueues ==
  ASSUME QueueInv, FinishPass
  PROVE  QueueInv'
<1>1. /\ pc = "finish" /\ pc' = "idle" /\ reserve = <<>>
      /\ waiting' = Reverse(preempted) \o waiting
      /\ swapped' = swapped \o swappedOut
      /\ \/ running' = running \o swappedIn \o decodes \o prefills
         \/ running' = running \o prefills \o decodes \o swappedIn
  BY DEF FinishPass, Rewaiting, QueueInv
<1>2. UNCHANGED <<reserve, preempted, swappedOut, swappedIn, decodes, prefills, status,
                  raised>>
  BY DEF FinishPass, sequences, results
<1>3. /\ waiting' \in Seq(Requests) /\ swapped' \in Seq(Requests)
      /\ \A r : /\ Occurrences(waiting', r) =
                      Occurrences(preempted, r) + Occurrences(waiting, r)
                /\ Occurrences(swapped', r) =
                      Occurrences(swapped, r) + Occurrences(swappedOut, r)
                /\ Occurrences(reserve, r) = 0
  BY <1>1, Joins, OccurrencesInReverse, OccurrencesInEmpty DEF QueueInv, QueueTypes
<1>4. /\ running' \in Seq(Requests)
      /\ \A r : Occurrences(running', r) =
                    Occurrences(running, r) + Occurrences(swappedIn, r)
                    + Occurrences(decodes, r) + Occurrences(prefills, r)
  <2>1. \A r : Countable(r)
    BY Numbers DEF QueueInv
  <2>2. CASE running' = running \o swappedIn \o decodes \o prefills
    BY <2>2, JoinsFour DEF QueueInv, QueueTypes
  <2>3. CASE running' = running \o prefills \o decodes \o swappedIn
    <3>1. /\ running' \in Seq(Requests)
          /\ \A r : Occurrences(running', r) =
                        Occurrences(running, r) + Occurrences(prefills, r)
                        + Occurrences(decodes, r) + Occurrences(swappedIn, r)
      BY <2>3, JoinsFour DEF QueueInv, QueueTypes
    <3> QED
      BY <2>1, <3>1 DEF Countable
  <2> QED
    BY <1>1, <2>2, <2>3
<1>5. QueueTypes'
  BY <1>2, <1>3, <1>4 DEF QueueInv, QueueTypes
<1>6. ASSUME NEW r \in Requests PROVE PlaceOf(r)'
  <2>1. PlaceOf(r) /\ Countable(r)
    BY Numbers DEF QueueInv
  <2>2. pc = "finish" /\ pc' = "idle" /\ UNCHANGED <<status, raised>>
    BY <1>1, <1>2
  <2>3. /\ Occurrences(waiting', r) =
              Occurrences(preempted, r) + Occurrences(waiting, r)
        /\ Occurrences(swapped', r) =
              Occurrences(swapped, r) + Occurrences(swappedOut, r)
        /\ Occurrences(running', r) =
              Occurrences(running, r) + Occurrences(swappedIn, r)
              + Occurrences(decodes, r) + Occurrences(prefills, r)
        /\ Occurrences(reserve, r) = 0
    BY <1>3, <1>4
  <2>4. Copies(r)' = Copies(r) /\ Copies(r) \in Nat
    BY <2>1, <2>2, <2>3 DEF Copies, Countable
  <2> QED
    BY <2>1, <2>2, <2>3, <2>4 DEF PlaceOf, Countable
<1> QED
  BY <1>1, <1>5, <1>6 DEF QueueInv

(* A pass starts with empty lists.                                         *)
LEMMA BeginPassKeepsQueues ==
  ASSUME QueueInv, NEW c \in Ctxs, BeginPass(c)
  PROVE  QueueInv'
<1>1. /\ pc = "idle" /\ pc' \in {"running", "prefills"}
      /\ reserve' = <<>> /\ preempted' = <<>> /\ swappedOut' = <<>> /\ swappedIn' = <<>>
      /\ decodes' = <<>> /\ prefills' = <<>>
      /\ UNCHANGED <<waiting, running, swapped, status, raised>>
  BY DEF BeginPass, queues, sequences
<1>2. <<>> \in Seq(Requests) /\ \A r : Occurrences(<<>>, r) = 0
  BY OccurrencesInEmpty
<1>3. QueueTypes'
  BY <1>1, <1>2 DEF QueueInv, QueueTypes
<1>4. ASSUME NEW r \in Requests PROVE PlaceOf(r)'
  <2>1. PlaceOf(r) /\ Countable(r)
    BY Numbers DEF QueueInv
  <2>2. /\ Occurrences(reserve', r) = 0 /\ Occurrences(preempted', r) = 0
        /\ Occurrences(swappedOut', r) = 0 /\ Occurrences(swappedIn', r) = 0
        /\ Occurrences(decodes', r) = 0 /\ Occurrences(prefills', r) = 0
    BY <1>1, <1>2
  <2>3. /\ pc = "idle" /\ pc' # "idle"
        /\ UNCHANGED <<waiting, running, swapped, status, raised>>
    BY <1>1
  <2>4. Copies(r)' = Copies(r) /\ Copies(r) \in Nat
    BY <2>1, <2>2, <2>3 DEF Copies, Countable
  <2> QED
    BY <2>1, <2>2, <2>3, <2>4 DEF PlaceOf, Countable
<1> QED
  BY <1>1, <1>3, <1>4 DEF QueueInv

LEMMA AddRequestKeepsQueues ==
  ASSUME QueueInv, NEW h \in Requests, AddRequest(h)
  PROVE  QueueInv'
<1>1. /\ pc = "idle" /\ pc' = "idle" /\ raised' = raised /\ status[h] = "new"
      /\ waiting' = Append(waiting, h) /\ status' = [status EXCEPT ![h] = "waiting"]
  BY DEF AddRequest
<1>2. UNCHANGED <<running, swapped, reserve, preempted, swappedOut, swappedIn, decodes,
                  prefills>>
  BY DEF AddRequest, results
<1>3. /\ waiting' \in Seq(Requests)
      /\ \A r : Occurrences(waiting', r) = Occurrences(waiting, r) + One(r, h)
  BY <1>1, PutsLast DEF QueueInv, QueueTypes
<1>4. /\ status' \in [Requests -> Live \cup {"new", "finished", "ignored"}]
      /\ \A r \in Requests : status'[r] = IF r = h THEN "waiting" ELSE status[r]
  BY <1>1 DEF QueueInv, QueueTypes, Live
<1>5. QueueTypes'
  BY <1>2, <1>3, <1>4 DEF QueueInv, QueueTypes
<1>6. ASSUME NEW r \in Requests PROVE PlaceOf(r)'
  <2>1. PlaceOf(r) /\ Countable(r)
    BY Numbers DEF QueueInv
  <2>2. pc = "idle" /\ pc' = "idle" /\ raised' = raised /\ UNCHANGED <<running, swapped>>
    BY <1>1, <1>2
  <2>3. /\ Occurrences(waiting', r) = Occurrences(waiting, r) + One(r, h)
        /\ One(r, h) \in Nat /\ (One(r, h) = 1 <=> r = h) /\ (One(r, h) = 0 <=> r # h)
    BY <1>3, OneIsNumber
  <2>4. Copies(r)' = Copies(r) + One(r, h) /\ Copies(r)' \in Nat /\ Copies(r) \in Nat
    BY <2>1, <2>2, <2>3 DEF Copies, Countable
  <2>5. CASE r = h
    <3>1. Copies(r) = 0
      BY <1>1, <2>1, <2>5 DEF PlaceOf
    <3>2. Copies(r)' = 1
      BY <2>3, <2>4, <2>5, <3>1
    <3> QED
      BY <1>4, <2>5, <3>2 DEF PlaceOf, Live
  <2>6. CASE r # h
    BY <1>4, <2>1, <2>2, <2>3, <2>4, <2>6 DEF PlaceOf, Live
  <2> QED
    BY <2>5, <2>6
<1> QED
  BY <1>1, <1>5, <1>6 DEF QueueInv

LEMMA AbortKeepsQueues ==
  ASSUME QueueInv, NEW h \in Requests, Abort(h)
  PROVE  QueueInv'
<1>1. /\ pc = "idle" /\ pc' = "idle" /\ raised' = raised
      /\ waiting' = Without(waiting, {h}) /\ running' = Without(running, {h})
      /\ swapped' = Without(swapped, {h})
      /\ status' = [status EXCEPT ![h] = "finished"]
  BY DEF Abort
<1>2. UNCHANGED <<reserve, preempted, swappedOut, swappedIn, decodes, prefills>>
  BY DEF Abort, results
<1>3. ASSUME NEW q \in Seq(Requests)
      PROVE  /\ Without(q, {h}) \in Seq(Requests)
             /\ \A r : Occurrences(Without(q, {h}), r) =
                          IF r = h THEN 0 ELSE Occurrences(q, r)
  <2>1. PICK S : S = {h}
    OBVIOUS
  <2>2. /\ Without(q, S) \in Seq(Requests)
        /\ \A r : Occurrences(Without(q, S), r) =
                     IF r \in S THEN 0 ELSE Occurrences(q, r)
    BY Leaves
  <2> QED
    BY <2>1, <2>2
<1>4. /\ status' \in [Requests -> Live \cup {"new", "finished", "ignored"}]
      /\ \A r \in Requests : status'[r] = IF r = h THEN "finished" ELSE status[r]
  BY <1>1 DEF QueueInv, QueueTypes, Live
<1>5. QueueTypes'
  BY <1>1, <1>2, <1>3, <1>4 DEF QueueInv, QueueTypes
<1>6. ASSUME NEW r \in Requests PROVE PlaceOf(r)'
  <2>1. PlaceOf(r) /\ Countable(r)
    BY Numbers DEF QueueInv
  <2>2. pc = "idle" /\ pc' = "idle" /\ raised' = raised
    BY <1>1
  <2>3. /\ Occurrences(waiting', r) = IF r = h THEN 0 ELSE Occurrences(waiting, r)
        /\ Occurrences(running', r) = IF r = h THEN 0 ELSE Occurrences(running, r)
        /\ Occurrences(swapped', r) = IF r = h THEN 0 ELSE Occurrences(swapped, r)
    BY <1>1, <1>3 DEF QueueInv, QueueTypes
  <2>4. CASE r = h
    <3>1. Copies(r)' = 0 /\ Occurrences(running', r) = 0
      BY <2>2, <2>3, <2>4 DEF Copies
    <3> QED
      BY <1>4, <2>2, <2>4, <3>1 DEF PlaceOf, Live
  <2>5. CASE r # h
    <3>1. /\ Occurrences(waiting', r) = Occurrences(waiting, r)
          /\ Occurrences(running', r) = Occurrences(running, r)
          /\ Occurrences(swapped', r) = Occurrences(swapped, r)
      BY <2>3, <2>5
    <3>2. Copies(r)' = Copies(r)
      BY <2>2, <3>1 DEF Copies
    <3> QED
      BY <1>4, <2>1, <2>2, <2>5, <3>1, <3>2 DEF PlaceOf
  <2> QED
    BY <2>4, <2>5
<1> QED
  BY <1>1, <1>5, <1>6 DEF QueueInv

(* The finished leave the running queue.                                   *)
LEMMA CompleteKeepsQueues ==
  ASSUME QueueInv, NEW c \in Ctxs, Complete(c)
  PROVE  QueueInv'
<1> DEFINE done == {r \in Scheduled(flight[c]) : status[r] \in Live}
           final == {r \in done : Outcome(c, r).len >= MaxLen}
<1>1. /\ status' = [r \in Requests |-> IF r \in final THEN "finished" ELSE status[r]]
      /\ running' = Without(running, final)
      /\ pc = "idle" /\ pc' = "idle" /\ raised' = raised
  BY DEF Complete
<1>2. UNCHANGED <<waiting, swapped, reserve, preempted, swappedOut, swappedIn, decodes,
                  prefills>>
  BY DEF Complete, results
<1>3. \A r \in final : status[r] \in Live
  OBVIOUS
<1> HIDE DEF final
<1>4. /\ running' \in Seq(Requests)
      /\ \A r : Occurrences(running', r) =
                   IF r \in final THEN 0 ELSE Occurrences(running, r)
  <2>0. running \in Seq(Requests)
    BY DEF QueueInv, QueueTypes
  <2>1. /\ Without(running, final) \in Seq(Requests)
        /\ \A r : Occurrences(Without(running, final), r) =
                     IF r \in final THEN 0 ELSE Occurrences(running, r)
    BY <2>0, Leaves
  <2> QED
    BY <1>1, <2>1
<1>5. /\ status' \in [Requests -> Live \cup {"new", "finished", "ignored"}]
      /\ \A r \in Requests : status'[r] = IF r \in final THEN "finished" ELSE status[r]
  BY <1>1 DEF QueueInv, QueueTypes
<1>6. QueueTypes'
  BY <1>2, <1>4, <1>5 DEF QueueInv, QueueTypes
<1>7. ASSUME NEW r \in Requests PROVE PlaceOf(r)'
  <2>1. PlaceOf(r) /\ Countable(r)
    BY Numbers DEF QueueInv
  <2>2. pc = "idle" /\ pc' = "idle" /\ raised' = raised /\ UNCHANGED <<waiting, swapped>>
    BY <1>1, <1>2
  <2>3. CASE r \in final
    <3>1. Occurrences(running', r) = 0
      BY <1>4, <2>3
    <3>2. Copies(r)' <= Copies(r)
      BY <2>1, <2>2, <3>1 DEF Copies, Countable
    <3>3. Copies(r)' \in Nat /\ Copies(r) \in Nat /\ Copies(r) <= 1
      BY <2>1, <2>2, <3>1 DEF Copies, Countable, PlaceOf
    <3>4. Copies(r)' <= 1
      BY <3>2, <3>3
    <3> QED
      BY <1>5, <2>2, <2>3, <3>1, <3>4 DEF PlaceOf, Live
  <2>4. CASE r \notin final
    <3>1. Occurrences(running', r) = Occurrences(running, r) /\ status'[r] = status[r]
      BY <1>4, <1>5, <2>4
    <3>2. Copies(r)' = Copies(r)
      BY <2>2, <3>1 DEF Copies
    <3> QED
      BY <2>1, <2>2, <3>1, <3>2 DEF PlaceOf
  <2> QED
    BY <2>3, <2>4
<1> QED
  BY <1>1, <1>6, <1>7 DEF QueueInv

(* What the loops hold is lost: it was somewhere, now it may be nowhere.   *)
LEMMA LosesBothEnds ==
  ASSUME QueueInv, SwapSpaceRunsOut
  PROVE  /\ running' \in Seq(Requests)
         /\ \A r : /\ Occurrences(running', r) \in Nat
                   /\ Occurrences(running', r) <= Occurrences(running, r)
<1>1. /\ running \in Seq(Requests) /\ running # <<>>
      /\ running' = IF Len(running) = 1 THEN <<>> ELSE Front(Tail(running))
  BY DEF SwapSpaceRunsOut, RunningTurn, QueueInv, QueueTypes
<1>2. /\ Tail(running) \in Seq(Requests) /\ <<>> \in Seq(Requests)
      /\ \A r : /\ Occurrences(running, r) \in Nat
                /\ Occurrences(Tail(running), r) \in Nat
                /\ Occurrences(Tail(running), r) <= Occurrences(running, r)
  BY <1>1, TakesHead, OccurrencesType, OneIsNumber
<1>3. CASE Len(running) = 1
  BY <1>1, <1>2, <1>3, OccurrencesInEmpty
<1>4. CASE Len(running) # 1
  <2>1. PICK q \in Seq(Requests) : q = Tail(running)
    BY <1>2
  <2>2. q # <<>>
    <3>1. Len(running) \in Nat \ {0, 1}
      BY <1>1, <1>4, LenProperties, EmptySeq
    <3>2. Len(q) = Len(running) - 1
      BY <1>1, <2>1, HeadTailProperties
    <3> QED
      BY <3>1, <3>2
  <2>3. /\ Front(q) \in Seq(Requests)
        /\ \A r : /\ Occurrences(Front(q), r) \in Nat
                  /\ Occurrences(Front(q), r) <= Occurrences(q, r)
    BY <2>2, TakesLast, OccurrencesType, OneIsNumber
  <2>4. running' = Front(q)
    BY <1>1, <1>4, <2>1
  <2> QED
    BY <1>2, <2>1, <2>3, <2>4
<1> QED
  BY <1>3, <1>4

LEMMA FailAssertionKeepsQueues ==
  ASSUME QueueInv, FailAssertion
  PROVE  QueueInv'
<1>1. /\ pc = "prefills" /\ pc' = "idle" /\ raised' # {} /\ reserve' = <<>>
      /\ UNCHANGED <<waiting, running, swapped, preempted, swappedOut, swappedIn, decodes,
                     prefills, status>>
  BY DEF FailAssertion, PrefillTurn, queues, sequences, results
<1>2. QueueTypes'
  BY <1>1 DEF QueueInv, QueueTypes
<1>3. ASSUME NEW r \in Requests PROVE PlaceOf(r)'
  <2>1. PlaceOf(r) /\ Countable(r)
    BY Numbers DEF QueueInv
  <2>2. /\ pc # "idle" /\ pc' = "idle" /\ raised' # {}
        /\ UNCHANGED <<waiting, running, swapped, status>>
    BY <1>1
  <2>3. Copies(r)' <= Copies(r) /\ Copies(r)' \in Nat /\ Copies(r) \in Nat
    BY <2>1, <2>2 DEF Copies, Countable
  <2> QED
    BY <2>1, <2>2, <2>3 DEF PlaceOf
<1> QED
  BY <1>1, <1>2, <1>3 DEF QueueInv

(* The head and the last, which may be the head, are in no queue any more. *)
LEMMA SwapSpaceKeepsQueues ==
  ASSUME QueueInv, SwapSpaceRunsOut
  PROVE  QueueInv'
<1>1. /\ pc = "running" /\ pc' = "idle" /\ raised' # {} /\ reserve' = <<>>
      /\ UNCHANGED <<waiting, swapped, preempted, swappedOut, swappedIn, decodes,
                     prefills, status>>
  BY DEF SwapSpaceRunsOut, RunningTurn, queues, sequences, results
<1>2. /\ running' \in Seq(Requests)
      /\ \A r : /\ Occurrences(running', r) \in Nat
                /\ Occurrences(running', r) <= Occurrences(running, r)
  BY LosesBothEnds
<1>3. QueueTypes'
  BY <1>1, <1>2 DEF QueueInv, QueueTypes
<1>4. ASSUME NEW r \in Requests PROVE PlaceOf(r)'
  <2>1. PlaceOf(r) /\ Countable(r)
    BY Numbers DEF QueueInv
  <2>2. /\ pc # "idle" /\ pc' = "idle" /\ raised' # {}
        /\ UNCHANGED <<waiting, swapped, status>>
    BY <1>1
  <2>3. /\ Occurrences(running', r) \in Nat
        /\ Occurrences(running', r) <= Occurrences(running, r)
    BY <1>2
  <2>4. Copies(r)' <= Copies(r) /\ Copies(r)' \in Nat /\ Copies(r) \in Nat
    BY <2>1, <2>2, <2>3 DEF Copies, Countable
  <2> QED
    BY <2>1, <2>2, <2>3, <2>4 DEF PlaceOf, Countable
<1> QED
  BY <1>1, <1>3, <1>4 DEF QueueInv

LEMMA StillQueues ==
  ASSUME QueueInv, UNCHANGED <<waiting, running, swapped, reserve, preempted, swappedOut,
                               swappedIn, decodes, prefills, status, pc, raised>>
  PROVE  QueueInv'
<1>1. QueueTypes'
  BY DEF QueueInv, QueueTypes
<1>2. ASSUME NEW r \in Requests PROVE PlaceOf(r)'
  <2>1. PlaceOf(r)
    BY DEF QueueInv
  <2>2. Copies(r)' = Copies(r)
    BY DEF Copies
  <2> QED
    BY <2>1, <2>2 DEF PlaceOf
<1> QED
  BY <1>1, <1>2 DEF QueueInv

LEMMA InitQueues == Init => QueueInv
<1> SUFFICES ASSUME Init PROVE QueueInv
  OBVIOUS
<1>1. <<>> \in Seq(Requests) /\ \A r : Occurrences(<<>>, r) = 0
  BY OccurrencesInEmpty
<1>2. QueueTypes
  BY <1>1 DEF Init, QueueTypes
<1>3. ASSUME NEW r \in Requests PROVE PlaceOf(r)
  <2>1. /\ waiting = <<>> /\ running = <<>> /\ swapped = <<>>
        /\ pc = "idle" /\ status[r] = "new"
    BY DEF Init
  <2>2. Copies(r) = 0 /\ Occurrences(running, r) = 0
    BY <1>1, <2>1 DEF Copies
  <2> QED
    BY <2>1, <2>2 DEF PlaceOf, Live
<1> QED
  BY <1>2, <1>3 DEF QueueInv, Init

LEMMA StepKeepsQueues == QueueInv /\ [Next]_vars => QueueInv'
<1> SUFFICES ASSUME QueueInv, [Next]_vars PROVE QueueInv'
  OBVIOUS
<1>1. CASE Turn
  BY <1>1, SkipRunningKeepsQueues, ScheduleRunningKeepsQueues, PreemptsSomehow,
     RecomputeLastKeepsQueues, SwapOutLastKeepsQueues, EndRunningKeepsQueues,
     SkipSwappedKeepsQueues, SwapInKeepsQueues, DropSwappedKeepsQueues,
     EndSwappedKeepsQueues, SkipWaitingKeepsQueues, SchedulePrefillKeepsQueues,
     IgnorePromptKeepsQueues, FailAssertionKeepsQueues, EndPrefillsKeepsQueues,
     SwapSpaceKeepsQueues, FinishPassKeepsQueues DEF Turn
<1>2. ASSUME NEW r \in Requests, AddRequest(r) \/ Abort(r) PROVE QueueInv'
  BY <1>2, AddRequestKeepsQueues, AbortKeepsQueues
<1>3. ASSUME NEW c \in Ctxs, BeginPass(c) \/ Complete(c) PROVE QueueInv'
  BY <1>3, BeginPassKeepsQueues, CompleteKeepsQueues
<1>4. ASSUME NEW c \in Ctxs, Fail(c) PROVE QueueInv'
  <2>1. UNCHANGED <<waiting, running, swapped, reserve, preempted, swappedOut,
                    swappedIn, decodes, prefills, status, pc, raised>>
    BY <1>4 DEF Fail, queues, sequences, results
  <2> QED
    BY <2>1, StillQueues
<1>5. CASE UNCHANGED vars
  <2>1. UNCHANGED <<waiting, running, swapped, reserve, preempted, swappedOut,
                    swappedIn, decodes, prefills, status, pc, raised>>
    BY <1>5 DEF vars, queues, sequences, results
  <2> QED
    BY <2>1, StillQueues
<1> QED
  BY <1>1, <1>2, <1>3, <1>4, <1>5 DEF Next

(* A request is in at most one of the queues and lists, and there once;    *)
(* unless an exception has ended a pass it is in one until it ends; and    *)
(* nothing that has ended is in the running queue: for any number of       *)
(* requests, micro-batches and slots, whatever is preempted, swapped,      *)
(* aborted or fails.                                                       *)
THEOREM EachRequestHasOneQueue == Spec => []OneQueueEach
<1>1. QueueInv => OneQueueEach
  BY DEF QueueInv, PlaceOf, OneQueueEach
<1> QED
  BY <1>1, InitQueues, StepKeepsQueues, PTL DEF Spec

-----------------------------------------------------------------------------
(* The books of the cache.  A pass may give a sequence the slots it lacks  *)
(* only if so many are free; whatever else changes slots takes them back.  *)
BooksInv ==
    /\ onFly \subseteq Requests
    /\ len \in [Requests -> Nat] /\ slots \in [Requests -> Nat]
    /\ IsFiniteSet(Taken) /\ Cardinality(Taken) <= TotalSlots

LEMMA TakenSlots ==
  \A x : x \in Taken <=> \E r \in Requests : \E i \in 1..slots[r] : x = <<r, i>>
  BY DEF Taken

LEMMA OneSequenceSlots ==
  ASSUME NEW r, NEW a \in Int, NEW b \in Int
  PROVE  /\ IsFiniteSet({r} \X (a..b))
         /\ Cardinality({r} \X (a..b)) = IF a > b THEN 0 ELSE b - a + 1
<1>1. IsFiniteSet({r}) /\ Cardinality({r}) = 1
  BY FS_Singleton
<1>2. IsFiniteSet(a..b) /\ Cardinality(a..b) = IF a > b THEN 0 ELSE b - a + 1
  BY FS_Interval
<1>3. /\ IsFiniteSet({r} \X (a..b))
      /\ Cardinality({r} \X (a..b)) = Cardinality({r}) * Cardinality(a..b)
  BY <1>1, <1>2, FS_Product
<1> QED
  BY <1>1, <1>2, <1>3

(* Slots that are kept or freed stay within the cache.                     *)
LEMMA FreeingKeepsBooks ==
  ASSUME BooksInv, slots' \in [Requests -> Nat], len' \in [Requests -> Nat],
         onFly' \subseteq onFly,
         \A r \in Requests : slots'[r] <= slots[r]
  PROVE  BooksInv'
<1>1. Taken' \subseteq Taken
  <2> SUFFICES ASSUME NEW r \in Requests, NEW i \in 1..slots'[r]
               PROVE  <<r, i>> \in Taken
    BY DEF Taken
  <2>1. slots'[r] \in Nat /\ slots[r] \in Nat /\ slots'[r] <= slots[r]
    BY DEF BooksInv
  <2>2. i \in 1..slots[r]
    BY <2>1
  <2> QED
    BY <2>2, TakenSlots
<1>2. IsFiniteSet(Taken') /\ Cardinality(Taken') <= Cardinality(Taken)
  BY <1>1, FS_Subset DEF BooksInv
<1>3. Cardinality(Taken') \in Nat /\ Cardinality(Taken) \in Nat
  BY <1>2, FS_CardinalityType DEF BooksInv
<1>4. Cardinality(Taken') <= TotalSlots
  BY <1>2, <1>3, MolinkSchedulerAssumption DEF BooksInv
<1> QED
  BY <1>2, <1>4 DEF BooksInv

LEMMA QuietKeepsBooks ==
  ASSUME BooksInv, UNCHANGED slots, len' \in [Requests -> Nat], onFly' \subseteq onFly
  PROVE  BooksInv'
<1>1. \A r \in Requests : slots[r] \in Nat /\ slots'[r] = slots[r]
  BY DEF BooksInv
<1>2. \A r \in Requests : slots'[r] <= slots[r]
  BY <1>1
<1> QED
  BY <1>2, FreeingKeepsBooks DEF BooksInv

(* What a sequence holds is part of what is taken.                         *)
LEMMA HoldsAtMost ==
  ASSUME BooksInv, NEW r \in Requests
  PROVE  slots[r] \in Nat /\ slots[r] <= TotalSlots
<1>1. slots[r] \in Nat
  BY DEF BooksInv
<1> DEFINE own == {r} \X (1..slots[r])
<1>2. own \subseteq Taken
  BY DEF Taken
<1>3. IsFiniteSet(own) /\ Cardinality(own) = slots[r]
  <2>1. /\ IsFiniteSet(own)
        /\ Cardinality(own) = IF 1 > slots[r] THEN 0 ELSE slots[r] - 1 + 1
    <3>1. 1 \in Int /\ slots[r] \in Int
      BY <1>1
    <3> QED
      BY <3>1, OneSequenceSlots
  <2> HIDE DEF own
  <2> QED
    BY <1>1, <2>1
<1> HIDE DEF own
<1>4. Cardinality(own) <= Cardinality(Taken)
  BY <1>2, FS_Subset DEF BooksInv
<1>5. Cardinality(Taken) \in Nat
  BY FS_CardinalityType DEF BooksInv
<1> QED
  BY <1>1, <1>3, <1>4, <1>5, MolinkSchedulerAssumption DEF BooksInv

(* A sequence gets the slots it lacks, if they are free.                   *)
LEMMA GivingKeepsBooks ==
  ASSUME BooksInv, NEW r \in Requests, AppendSlots(r),
         len[r] - slots[r] <= Free,
         UNCHANGED len, onFly' = onFly \union {r}
  PROVE  BooksInv'
<1>1. /\ len[r] \in Nat /\ slots[r] \in Nat /\ TotalSlots \in Nat
      /\ slots' = [slots EXCEPT ![r] = len[r]]
      /\ IsFiniteSet(Taken) /\ Cardinality(Taken) <= TotalSlots
  BY MolinkSchedulerAssumption DEF BooksInv, AppendSlots
<1> DEFINE more == {r} \X ((slots[r] + 1)..len[r])
<1>2. Taken' \subseteq Taken \cup more
  <2> SUFFICES ASSUME NEW q \in Requests, NEW i \in 1..slots'[q], <<q, i>> \notin Taken
               PROVE  <<q, i>> \in more
    BY DEF Taken
  <2>1. i \notin 1..slots[q]
    BY TakenSlots
  <2>2. q = r /\ slots'[q] = len[r]
    BY <1>1, <2>1 DEF BooksInv
  <2>3. i \in (slots[r] + 1)..len[r]
    BY <1>1, <2>1, <2>2
  <2> QED
    BY <2>2, <2>3
<1>3. /\ IsFiniteSet(more)
      /\ Cardinality(more) = IF slots[r] + 1 > len[r] THEN 0 ELSE len[r] - slots[r]
  <2>1. slots[r] + 1 \in Int /\ len[r] \in Int
    BY <1>1
  <2>2. /\ IsFiniteSet(more)
        /\ Cardinality(more) = IF slots[r] + 1 > len[r] THEN 0
                               ELSE len[r] - (slots[r] + 1) + 1
    BY <2>1, OneSequenceSlots
  <2> HIDE DEF more
  <2> QED
    BY <1>1, <2>2
<1> HIDE DEF more
<1>4. /\ IsFiniteSet(Taken \cup more)
      /\ Cardinality(Taken \cup more) =
            Cardinality(Taken) + Cardinality(more) - Cardinality(Taken \cap more)
  BY <1>1, <1>3, FS_Union
<1>5. IsFiniteSet(Taken') /\ Cardinality(Taken') <= Cardinality(Taken \cup more)
  BY <1>2, <1>4, FS_Subset
<1>6. IsFiniteSet(Taken \cap more)
  BY <1>1, FS_Subset
<1>7. /\ Cardinality(Taken) \in Nat /\ Cardinality(Taken') \in Nat
      /\ Cardinality(Taken \cap more) \in Nat
  BY <1>1, <1>5, <1>6, FS_CardinalityType
<1>8. len[r] - slots[r] <= TotalSlots - Cardinality(Taken)
  BY DEF Free
<1>9. Cardinality(Taken') <= TotalSlots
  BY <1>1, <1>3, <1>4, <1>5, <1>7, <1>8
<1>10. slots' \in [Requests -> Nat]
  BY <1>1 DEF BooksInv
<1> QED
  BY <1>5, <1>9, <1>10 DEF BooksInv

LEMMA InitKeepsBooks == Init => BooksInv
<1> SUFFICES ASSUME Init PROVE BooksInv
  OBVIOUS
<1>1. \A r \in Requests : slots[r] = 0
  BY DEF Init
<1>2. Taken = {}
  BY <1>1 DEF Taken
<1>3. IsFiniteSet(Taken) /\ Cardinality(Taken) = 0
  BY <1>2, FS_EmptySet
<1> QED
  BY <1>3, MolinkSchedulerAssumption DEF Init, BooksInv

LEMMA TurnKeepsBooks ==
  ASSUME BooksInv, QueueTypes, Turn
  PROVE  BooksInv'
<1>0. len \in [Requests -> Nat] /\ slots \in [Requests -> Nat]
  BY DEF BooksInv
<1>1. CASE SkipRunning \/ EndRunning \/ SkipSwapped \/ DropSwapped \/ EndSwapped
  BY <1>0, <1>1, QuietKeepsBooks
     DEF SkipRunning, EndRunning, SkipSwapped, DropSwapped, EndSwapped, sequences
<1>2. CASE \/ SkipWaiting \/ IgnorePrompt \/ FailAssertion \/ EndPrefills \/ FinishPass
         \/ SwapSpaceRunsOut
  BY <1>0, <1>2, QuietKeepsBooks
     DEF SkipWaiting, IgnorePrompt, FailAssertion, EndPrefills, FinishPass,
         SwapSpaceRunsOut, sequences
<1>3. CASE PreemptLast
  <2>1. UNCHANGED <<onFly, len>>
    BY <1>3 DEF PreemptLast
  <2>2. PICK v : slots' = [slots EXCEPT ![v] = 0]
    BY <1>3 DEF PreemptLast, Preempt
  <2>3. slots' \in [Requests -> Nat]
    BY <1>0, <2>2
  <2>4. ASSUME NEW r \in Requests PROVE slots'[r] <= slots[r]
    <3>1. slots[r] \in Nat /\ (slots'[r] = 0 \/ slots'[r] = slots[r])
      BY <1>0, <2>2
    <3> QED
      BY <3>1
  <2> QED
    BY <1>0, <2>1, <2>3, <2>4, FreeingKeepsBooks
<1>4. ASSUME NEW r \in Requests,
             ScheduleRunning(r) \/ SwapIn(r) \/ SchedulePrefill(r)
      PROVE  BooksInv'
  <2>1. /\ AppendSlots(r) /\ UNCHANGED len /\ onFly' = onFly \union {r}
        /\ len[r] - slots[r] <= Free \/ len[r] <= Free
    BY <1>4 DEF ScheduleRunning, SwapIn, SchedulePrefill, Mark, AppendSlots,
                CanAppendSlots
  <2>2. len[r] - slots[r] <= Free
    <3>1. /\ len[r] \in Nat /\ slots[r] \in Nat
          /\ TotalSlots \in Nat /\ Cardinality(Taken) \in Nat
      BY <1>0, FS_CardinalityType, MolinkSchedulerAssumption DEF BooksInv
    <3> QED
      BY <2>1, <3>1 DEF Free
  <2> QED
    BY <2>1, <2>2, GivingKeepsBooks
<1> QED
  BY <1>1, <1>2, <1>3, <1>4 DEF Turn

(* The output of a step makes sequences longer and takes slots back.       *)
LEMMA CompleteKeepsBooks ==
  ASSUME BooksInv, NEW c \in Ctxs, Complete(c)
  PROVE  BooksInv'
<1> DEFINE done == {r \in Scheduled(flight[c]) : status[r] \in Live}
           final == {r \in done : Outcome(c, r).len >= MaxLen}
           freed == {r \in final : r \in ToSet(running)}
<1>0. len \in [Requests -> Nat] /\ slots \in [Requests -> Nat]
  BY DEF BooksInv
<1>1. /\ len' = [r \in Requests |-> IF r \in done THEN Outcome(c, r).len ELSE len[r]]
      /\ slots' = [r \in Requests |-> IF r \in freed THEN 0 ELSE slots[r]]
      /\ onFly' = KeepsMark(c)
  BY DEF Complete
<1> HIDE DEF done, final, freed
<1>2. \A r : Outcome(c, r).len = len[r] + 1
  BY DEF Outcome
<1>3. len' \in [Requests -> Nat]
  BY <1>0, <1>1, <1>2
<1>4. slots' \in [Requests -> Nat] /\ \A r \in Requests : slots'[r] <= slots[r]
  BY <1>0, <1>1
<1>5. onFly' \subseteq onFly
  BY <1>1 DEF KeepsMark
<1> QED
  BY <1>3, <1>4, <1>5, FreeingKeepsBooks

LEMMA StepKeepsBooks == BooksInv /\ QueueInv /\ [Next]_vars => BooksInv'
<1> SUFFICES ASSUME BooksInv, QueueInv, [Next]_vars PROVE BooksInv'
  OBVIOUS
<1>0. len \in [Requests -> Nat] /\ slots \in [Requests -> Nat]
  BY DEF BooksInv
<1>1. ASSUME NEW r \in Requests, AddRequest(r) PROVE BooksInv'
  BY <1>0, <1>1, QuietKeepsBooks DEF AddRequest
<1>2. ASSUME NEW r \in Requests, Abort(r) PROVE BooksInv'
  <2>1. slots' = [slots EXCEPT ![r] = 0] /\ UNCHANGED <<onFly, len>>
    BY <1>2 DEF Abort
  <2>2. slots' \in [Requests -> Nat] /\ \A q \in Requests : slots'[q] <= slots[q]
    BY <1>0, <2>1
  <2> QED
    BY <1>0, <2>1, <2>2, FreeingKeepsBooks
<1>3. CASE Turn
  BY <1>3, TurnKeepsBooks DEF QueueInv
<1>4. ASSUME NEW c \in Ctxs, BeginPass(c) \/ Fail(c) PROVE BooksInv'
  BY <1>0, <1>4, QuietKeepsBooks DEF BeginPass, Fail, sequences
<1>5. ASSUME NEW c \in Ctxs, Complete(c) PROVE BooksInv'
  BY <1>5, CompleteKeepsBooks
<1>6. CASE UNCHANGED vars
  BY <1>0, <1>6, QuietKeepsBooks DEF vars, sequences
<1> QED
  BY <1>1, <1>2, <1>3, <1>4, <1>5, <1>6 DEF Next

(* No slot of the cache is given out twice, however sequences are          *)
(* preempted, swapped, aborted, or grow by an output that comes late, and  *)
(* for any number of requests, micro-batches and slots; and the queues and *)
(* the tables of the scheduler keep their types (scheduler.py:252, :379,   *)
(* :554 are where slots are asked for).                                    *)
THEOREM BooksAreKept == Spec => []CacheBooks
<1>1. BooksInv /\ QueueInv /\ FlightInv => CacheBooks
  <2> SUFFICES ASSUME BooksInv, QueueInv, FlightInv PROVE CacheBooks
    OBVIOUS
  <2>1. Free >= 0
    <3>1. TotalSlots \in Nat /\ Cardinality(Taken) \in Nat
      BY FS_CardinalityType, MolinkSchedulerAssumption DEF BooksInv
    <3> QED
      BY <3>1 DEF BooksInv, Free
  <2>2. slots \in [Requests -> 0..TotalSlots]
    <3>1. \A r \in Requests : slots[r] \in 0..TotalSlots
      BY HoldsAtMost, MolinkSchedulerAssumption
    <3> QED
      BY <3>1 DEF BooksInv
  <2>3. \A c \in Ctxs : Scheduled(flight[c]) \subseteq Requests
    BY DEF BooksInv, FlightInv, Marked
  <2> QED
    BY <2>1, <2>2, <2>3 DEF BooksInv, QueueInv, QueueTypes, SchedulerTypeOK, CacheBooks
<1> QED
  BY <1>1, InitKeepsBooks, InitQueues, FlightInvInit, StepKeepsBooks, StepKeepsQueues,
     FlightInvStep, PTL DEF Spec

-----------------------------------------------------------------------------
(* What holds until a request is preempted on the fly: the queue a request *)
(* is in tells its status, and what is executing is running and has slots  *)
(* for what it computes.                                                   *)
Among(q, r) == Occurrences(q, r) # 0

Waits(r) ==
    \/ Among(waiting, r)
    \/ pc # "idle" /\ Among(preempted, r)
    \/ pc = "prefills" /\ Among(reserve, r)
Runs(r) ==
    \/ Among(running, r)
    \/ pc # "idle" /\ (Among(swappedIn, r) \/ Among(decodes, r) \/ Among(prefills, r))
    \/ pc = "running" /\ Among(reserve, r)
SwappedAway(r) ==
    \/ Among(swapped, r)
    \/ pc # "idle" /\ Among(swappedOut, r)
    \/ pc = "swapped" /\ Among(reserve, r)

InPlace(r) ==
    /\ Waits(r) => status[r] = "waiting"
    /\ Runs(r) => status[r] = "running"
    /\ SwappedAway(r) => status[r] = "swapped"
Cached(r) ==
    /\ status[r] \in {"new", "waiting"} => computed[r] = 0
    /\ computed[r] < len[r]
    /\ status[r] = "running" => computed[r] <= slots[r] /\ slots[r] <= len[r]

(* An entry of a batch: aborted requests have ended and stay in it.        *)
EntryOK(e) ==
    /\ e.req \in Requests /\ e.chunk \in Nat
    /\ status[e.req] \in {"running", "finished"}
    /\ status[e.req] = "running" => computed[e.req] + e.chunk <= slots[e.req]

Numeric ==
    /\ len \in [Requests -> Nat] /\ computed \in [Requests -> Nat]
    /\ slots \in [Requests -> Nat]
Steady ==
    /\ "assertion" \notin raised
    /\ Numeric
    /\ \A r \in Requests : InPlace(r) /\ Cached(r)
    /\ \A e \in batch : EntryOK(e)
    /\ \A c \in Ctxs : \A e \in flight[c] : EntryOK(e)
SteadyInv == QueueInv /\ FlightInv /\ (snatched \/ Steady)

(* Who is in a list after a move.                                          *)
LEMMA LessByHead ==
  ASSUME NEW q \in Seq(Requests), q # <<>>
  PROVE  /\ Head(q) \in Requests /\ Among(q, Head(q))
         /\ \A r : Among(Tail(q), r) => Among(q, r)
  BY TakesHead, OccurrencesType, OneIsNumber DEF Among

LEMMA LessByLast ==
  ASSUME NEW q \in Seq(Requests), q # <<>>
  PROVE  /\ Last(q) \in Requests /\ Among(q, Last(q))
         /\ \A r : Among(Front(q), r) => Among(q, r)
  BY TakesLast, OccurrencesType, OneIsNumber DEF Among

LEMMA MoreByOne ==
  ASSUME NEW q \in Seq(Requests), NEW e \in Requests
  PROVE  \A r : Among(Append(q, e), r) => Among(q, r) \/ r = e
  BY PutsLast, OccurrencesType, OneIsNumber DEF Among

LEMMA AmongBoth ==
  ASSUME NEW p \in Seq(Requests), NEW q \in Seq(Requests)
  PROVE  /\ p \o q \in Seq(Requests)
         /\ \A r : Among(p \o q, r) => Among(p, r) \/ Among(q, r)
<1>1. p \o q \in Seq(Requests)
  BY ConcatProperties
<1>2. ASSUME NEW r, Among(p \o q, r) PROVE Among(p, r) \/ Among(q, r)
  BY <1>2, OccurrencesInConcat, OccurrencesType DEF Among
<1> QED
  BY <1>1, <1>2

LEMMA AmongReversed ==
  ASSUME NEW q \in Seq(Requests)
  PROVE  /\ Reverse(q) \in Seq(Requests)
         /\ \A r : Among(Reverse(q), r) => Among(q, r)
  BY OccurrencesInReverse DEF Among

LEMMA AmongTheRest ==
  ASSUME NEW q \in Seq(Requests), NEW S
  PROVE  \A r : Among(Without(q, S), r) => Among(q, r) /\ r \notin S
  BY Leaves DEF Among

LEMMA AmongNone == \A r : ~Among(<<>>, r)
  BY OccurrencesInEmpty DEF Among

LEMMA NineAtMostOne ==
  ASSUME NEW a \in Nat, NEW b \in Nat, NEW c \in Nat, NEW d \in Nat, NEW e \in Nat,
         NEW f \in Nat, NEW g \in Nat, NEW h \in Nat, NEW i \in Nat,
         (a + b + c) + (d + e + f + g + h + i) <= 1
  PROVE  /\ b > 0 => d = 0 /\ g = 0 /\ h = 0 /\ i = 0
         /\ c > 0 => d = 0 /\ f = 0
         /\ a > 0 => d = 0 /\ e = 0
  OBVIOUS

(* During a pass a request that is in a queue is at no other place that    *)
(* has to do with it.                                                      *)
LEMMA NowhereElse ==
  ASSUME QueueInv, NEW r \in Requests, pc # "idle"
  PROVE  /\ Among(running, r) =>
               /\ ~Among(reserve, r) /\ ~Among(swappedIn, r)
               /\ ~Among(decodes, r) /\ ~Among(prefills, r)
         /\ Among(swapped, r) => ~Among(reserve, r) /\ ~Among(swappedOut, r)
         /\ Among(waiting, r) => ~Among(reserve, r) /\ ~Among(preempted, r)
<1>1. Countable(r) /\ Copies(r) <= 1
  BY Numbers DEF QueueInv, PlaceOf
<1>2. (Occurrences(waiting, r) + Occurrences(running, r) + Occurrences(swapped, r))
        + (Occurrences(reserve, r) + Occurrences(preempted, r)
           + Occurrences(swappedOut, r) + Occurrences(swappedIn, r)
           + Occurrences(decodes, r) + Occurrences(prefills, r)) <= 1
  BY <1>1 DEF Copies
<1>3. PICK a \in Nat, b \in Nat, c \in Nat, d \in Nat, e \in Nat, f \in Nat, g \in Nat,
           h \in Nat, i \in Nat :
        /\ a = Occurrences(waiting, r) /\ b = Occurrences(running, r)
        /\ c = Occurrences(swapped, r)
        /\ d = Occurrences(reserve, r) /\ e = Occurrences(preempted, r)
        /\ f = Occurrences(swappedOut, r) /\ g = Occurrences(swappedIn, r)
        /\ h = Occurrences(decodes, r) /\ i = Occurrences(prefills, r)
  BY <1>1 DEF Countable
<1>4. (a + b + c) + (d + e + f + g + h + i) <= 1
  BY <1>2, <1>3
<1>5. /\ b > 0 => d = 0 /\ g = 0 /\ h = 0 /\ i = 0
      /\ c > 0 => d = 0 /\ f = 0
      /\ a > 0 => d = 0 /\ e = 0
  BY <1>4, NineAtMostOne
<1>6. /\ Occurrences(running, r) > 0 =>
            /\ Occurrences(reserve, r) = 0 /\ Occurrences(swappedIn, r) = 0
            /\ Occurrences(decodes, r) = 0 /\ Occurrences(prefills, r) = 0
      /\ Occurrences(swapped, r) > 0 =>
            Occurrences(reserve, r) = 0 /\ Occurrences(swappedOut, r) = 0
      /\ Occurrences(waiting, r) > 0 =>
            Occurrences(reserve, r) = 0 /\ Occurrences(preempted, r) = 0
  BY <1>3, <1>5
<1>7. /\ Among(running, r) => Occurrences(running, r) > 0
      /\ Among(swapped, r) => Occurrences(swapped, r) > 0
      /\ Among(waiting, r) => Occurrences(waiting, r) > 0
  BY <1>1 DEF Countable, Among
<1> QED
  BY <1>6, <1>7 DEF Among

(* In each queue a request is once.                                        *)
LEMMA OnceInEach ==
  ASSUME QueueInv, NEW r \in Requests
  PROVE  /\ Occurrences(running, r) <= 1 /\ Occurrences(swapped, r) <= 1
         /\ Occurrences(waiting, r) <= 1
<1>1. Countable(r) /\ Copies(r) <= 1
  BY Numbers DEF QueueInv, PlaceOf
<1>2. PICK n \in Nat : Copies(r) = Occurrences(waiting, r) + Occurrences(running, r)
                                    + Occurrences(swapped, r) + n
  <2> DEFINE moved == Occurrences(reserve, r) + Occurrences(preempted, r)
                      + Occurrences(swappedOut, r) + Occurrences(swappedIn, r)
                      + Occurrences(decodes, r) + Occurrences(prefills, r)
  <2>1. moved \in Nat
    BY <1>1 DEF Countable
  <2>2. Copies(r) = Occurrences(waiting, r) + Occurrences(running, r)
                    + Occurrences(swapped, r) + IF pc = "idle" THEN 0 ELSE moved
    BY <1>1 DEF Copies, Countable
  <2> HIDE DEF moved
  <2> QED
    BY <2>1, <2>2
<1>3. /\ Occurrences(waiting, r) \in Nat /\ Occurrences(running, r) \in Nat
      /\ Occurrences(swapped, r) \in Nat
  BY <1>1 DEF Countable
<1> QED
  BY <1>1, <1>2, <1>3

(* Whoever is taken from a queue is at no other place.                     *)
LEMMA RunningHeadAlone ==
  ASSUME QueueInv, running # <<>>, pc # "idle", NEW h, h = Head(running)
  PROVE  /\ h \in Requests /\ Among(running, h) /\ ~Among(Tail(running), h)
         /\ ~Among(reserve, h) /\ ~Among(swappedIn, h)
         /\ ~Among(decodes, h) /\ ~Among(prefills, h)
<1>1. /\ h \in Requests /\ Occurrences(Tail(running), h) \in Nat
      /\ Occurrences(running, h) = Occurrences(Tail(running), h) + One(h, h)
  BY TakesHead DEF QueueInv, QueueTypes
<1>2. One(h, h) = 1 /\ Occurrences(running, h) <= 1
  BY <1>1, OnceInEach DEF One
<1>3. Among(running, h) /\ ~Among(Tail(running), h)
  BY <1>1, <1>2 DEF Among
<1> QED
  BY <1>1, <1>3, NowhereElse

LEMMA RunningLastAlone ==
  ASSUME QueueInv, running # <<>>, pc # "idle", NEW h, h = Last(running)
  PROVE  /\ h \in Requests /\ Among(running, h) /\ ~Among(Front(running), h)
         /\ ~Among(reserve, h) /\ ~Among(swappedIn, h)
         /\ ~Among(decodes, h) /\ ~Among(prefills, h)
<1>1. /\ h \in Requests /\ Occurrences(Front(running), h) \in Nat
      /\ Occurrences(running, h) = Occurrences(Front(running), h) + One(h, h)
  BY TakesLast DEF QueueInv, QueueTypes
<1>2. One(h, h) = 1 /\ Occurrences(running, h) <= 1
  BY <1>1, OnceInEach DEF One
<1>3. Among(running, h) /\ ~Among(Front(running), h)
  BY <1>1, <1>2 DEF Among
<1> QED
  BY <1>1, <1>3, NowhereElse

LEMMA SwappedHeadAlone ==
  ASSUME QueueInv, swapped # <<>>, pc # "idle", NEW h, h = Head(swapped)
  PROVE  /\ h \in Requests /\ Among(swapped, h) /\ ~Among(Tail(swapped), h)
         /\ ~Among(reserve, h) /\ ~Among(swappedOut, h)
<1>1. /\ h \in Requests /\ Occurrences(Tail(swapped), h) \in Nat
      /\ Occurrences(swapped, h) = Occurrences(Tail(swapped), h) + One(h, h)
  BY TakesHead DEF QueueInv, QueueTypes
<1>2. One(h, h) = 1 /\ Occurrences(swapped, h) <= 1
  BY <1>1, OnceInEach DEF One
<1>3. Among(swapped, h) /\ ~Among(Tail(swapped), h)
  BY <1>1, <1>2 DEF Among
<1> QED
  BY <1>1, <1>3, NowhereElse

LEMMA WaitingHeadAlone ==
  ASSUME QueueInv, waiting # <<>>, pc # "idle", NEW h, h = Head(waiting)
  PROVE  /\ h \in Requests /\ Among(waiting, h) /\ ~Among(Tail(waiting), h)
         /\ ~Among(reserve, h) /\ ~Among(preempted, h)
<1>1. /\ h \in Requests /\ Occurrences(Tail(waiting), h) \in Nat
      /\ Occurrences(waiting, h) = Occurrences(Tail(waiting), h) + One(h, h)
  BY TakesHead DEF QueueInv, QueueTypes
<1>2. One(h, h) = 1 /\ Occurrences(waiting, h) <= 1
  BY <1>1, OnceInEach DEF One
<1>3. Among(waiting, h) /\ ~Among(Tail(waiting), h)
  BY <1>1, <1>2 DEF Among
<1> QED
  BY <1>1, <1>3, NowhereElse

(* A new request is nowhere.                                               *)
LEMMA NewIsNowhere ==
  ASSUME QueueInv, NEW h \in Requests, status[h] = "new", pc = "idle"
  PROVE  ~Among(waiting, h) /\ ~Among(running, h) /\ ~Among(swapped, h)
<1>1. Countable(h) /\ Copies(h) = 0
  BY Numbers DEF QueueInv, PlaceOf
<1>2. Occurrences(waiting, h) + Occurrences(running, h) + Occurrences(swapped, h) = 0
  BY <1>1 DEF Copies
<1>3. /\ Occurrences(waiting, h) \in Nat /\ Occurrences(running, h) \in Nat
      /\ Occurrences(swapped, h) \in Nat
  BY <1>1 DEF Countable
<1>4. /\ Occurrences(waiting, h) = 0 /\ Occurrences(running, h) = 0
      /\ Occurrences(swapped, h) = 0
  BY <1>2, <1>3
<1> QED
  BY <1>4 DEF Among

(* What becomes of the requests a step does not touch.                     *)
LEMMA StaysCached ==
  ASSUME NEW r, Cached(r), status'[r] = status[r], computed'[r] = computed[r],
         len'[r] = len[r], slots'[r] = slots[r]
  PROVE  Cached(r)'
  BY DEF Cached

LEMMA StaysInPlace ==
  ASSUME NEW r, InPlace(r), status'[r] = status[r],
         Waits(r)' => Waits(r), Runs(r)' => Runs(r), SwappedAway(r)' => SwappedAway(r)
  PROVE  InPlace(r)'
  BY DEF InPlace

LEMMA EntryStays ==
  ASSUME NEW e, EntryOK(e), status'[e.req] = status[e.req],
         computed'[e.req] = computed[e.req], slots'[e.req] = slots[e.req]
  PROVE  EntryOK(e)'
  BY DEF EntryOK

(* Steps that only move requests from list to list.                        *)
LEMMA QuietSteady ==
  ASSUME Steady, UNCHANGED sequences, "assertion" \in raised' => "assertion" \in raised,
         \A r \in Requests : /\ Waits(r)' => Waits(r)
                             /\ Runs(r)' => Runs(r)
                             /\ SwappedAway(r)' => SwappedAway(r),
         \A e \in batch' : e \in batch,
         \A c \in Ctxs : \A e \in flight'[c] : e \in batch \/ e \in flight[c]
  PROVE  Steady'
<1>1. UNCHANGED <<status, len, computed, slots>>
  BY DEF sequences
<1>2. \A r \in Requests : InPlace(r)' /\ Cached(r)'
  BY <1>1, StaysCached, StaysInPlace DEF Steady
<1>3. \A e : EntryOK(e) => EntryOK(e)'
  BY <1>1, EntryStays
<1>4. Numeric'
  BY <1>1 DEF Steady, Numeric
<1> QED
  BY <1>2, <1>3, <1>4 DEF Steady

(* Steps that only move requests from list to list.                        *)
LEMMA SkipRunningSteady ==
  ASSUME QueueInv, Steady, SkipRunning
  PROVE  Steady'
<1> DEFINE h == Head(running)
<1>1. /\ running # <<>> /\ h = Head(running) /\ running' = Tail(running)
      /\ reserve' = Append(reserve, h)
  BY DEF SkipRunning, RunningTurn
<1>2. /\ pc = "running"
      /\ UNCHANGED <<waiting, swapped, preempted, swappedOut, swappedIn, decodes,
                     prefills, pc, batch, flight, sequences, raised>>
  BY DEF SkipRunning, RunningTurn, queues, results
<1>3. /\ h \in Requests /\ Among(running, h)
      /\ \A r : Among(running', r) => Among(running, r)
  BY <1>1, LessByHead DEF QueueInv, QueueTypes
<1>4. \A r : Among(reserve', r) => Among(reserve, r) \/ r = h
  BY <1>1, <1>3, MoreByOne DEF QueueInv, QueueTypes
<1> HIDE DEF h
<1>5. \A r \in Requests : /\ Waits(r)' => Waits(r)
                          /\ Runs(r)' => Runs(r)
                          /\ SwappedAway(r)' => SwappedAway(r)
  BY <1>2, <1>3, <1>4 DEF Waits, Runs, SwappedAway
<1> QED
  BY <1>2, <1>5, QuietSteady

LEMMA SkipSwappedSteady ==
  ASSUME QueueInv, Steady, SkipSwapped
  PROVE  Steady'
<1> DEFINE h == Head(swapped)
<1>1. /\ swapped # <<>> /\ h = Head(swapped) /\ swapped' = Tail(swapped)
      /\ reserve' = Append(reserve, h)
  BY DEF SkipSwapped, SwappedTurn
<1>2. /\ pc = "swapped"
      /\ UNCHANGED <<waiting, running, preempted, swappedOut, swappedIn, decodes,
                     prefills, pc, batch, flight, sequences, raised>>
  BY DEF SkipSwapped, SwappedTurn, queues, results
<1>3. /\ h \in Requests /\ Among(swapped, h)
      /\ \A r : Among(swapped', r) => Among(swapped, r)
  BY <1>1, LessByHead DEF QueueInv, QueueTypes
<1>4. \A r : Among(reserve', r) => Among(reserve, r) \/ r = h
  BY <1>1, <1>3, MoreByOne DEF QueueInv, QueueTypes
<1> HIDE DEF h
<1>5. \A r \in Requests : /\ Waits(r)' => Waits(r)
                          /\ Runs(r)' => Runs(r)
                          /\ SwappedAway(r)' => SwappedAway(r)
  BY <1>2, <1>3, <1>4 DEF Waits, Runs, SwappedAway
<1> QED
  BY <1>2, <1>5, QuietSteady

LEMMA SkipWaitingSteady ==
  ASSUME QueueInv, Steady, SkipWaiting
  PROVE  Steady'
<1> DEFINE h == Head(waiting)
<1>1. /\ waiting # <<>> /\ h = Head(waiting) /\ waiting' = Tail(waiting)
      /\ reserve' = Append(reserve, h)
  BY DEF SkipWaiting, PrefillTurn
<1>2. /\ pc = "prefills"
      /\ UNCHANGED <<running, swapped, preempted, swappedOut, swappedIn, decodes,
                     prefills, pc, batch, flight, sequences, raised>>
  BY DEF SkipWaiting, PrefillTurn, queues, results
<1>3. /\ h \in Requests /\ Among(waiting, h)
      /\ \A r : Among(waiting', r) => Among(waiting, r)
  BY <1>1, LessByHead DEF QueueInv, QueueTypes
<1>4. \A r : Among(reserve', r) => Among(reserve, r) \/ r = h
  BY <1>1, <1>3, MoreByOne DEF QueueInv, QueueTypes
<1> HIDE DEF h
<1>5. \A r \in Requests : /\ Waits(r)' => Waits(r)
                          /\ Runs(r)' => Runs(r)
                          /\ SwappedAway(r)' => SwappedAway(r)
  BY <1>2, <1>3, <1>4 DEF Waits, Runs, SwappedAway
<1> QED
  BY <1>2, <1>5, QuietSteady

LEMMA EndRunningSteady ==
  ASSUME QueueInv, Steady, EndRunning
  PROVE  Steady'
<1>1. running' = reserve \o running /\ reserve' = <<>>
  BY DEF EndRunning, NextLoop, PutBack
<1>2. /\ pc = "running" /\ pc' # "idle"
      /\ UNCHANGED <<waiting, swapped, preempted, swappedOut, swappedIn, decodes,
                     prefills, batch, flight, sequences, raised>>
  BY DEF EndRunning, NextLoop, queues, results
<1>3. \A r : Among(running', r) => Among(reserve, r) \/ Among(running, r)
  BY <1>1, AmongBoth DEF QueueInv, QueueTypes
<1>4. \A r : ~Among(reserve', r)
  BY <1>1, AmongNone
<1>5. \A r \in Requests : /\ Waits(r)' => Waits(r)
                          /\ Runs(r)' => Runs(r)
                          /\ SwappedAway(r)' => SwappedAway(r)
  BY <1>2, <1>3, <1>4 DEF Waits, Runs, SwappedAway
<1> QED
  BY <1>2, <1>5, QuietSteady

LEMMA EndSwappedSteady ==
  ASSUME QueueInv, Steady, EndSwapped
  PROVE  Steady'
<1>1. swapped' = reserve \o swapped /\ reserve' = <<>>
  BY DEF EndSwapped, NextLoop, PutBack
<1>2. /\ pc = "swapped" /\ pc' # "idle"
      /\ UNCHANGED <<waiting, running, preempted, swappedOut, swappedIn, decodes,
                     prefills, batch, flight, sequences, raised>>
  BY DEF EndSwapped, NextLoop, queues, results
<1>3. \A r : Among(swapped', r) => Among(reserve, r) \/ Among(swapped, r)
  BY <1>1, AmongBoth DEF QueueInv, QueueTypes
<1>4. \A r : ~Among(reserve', r)
  BY <1>1, AmongNone
<1>5. \A r \in Requests : /\ Waits(r)' => Waits(r)
                          /\ Runs(r)' => Runs(r)
                          /\ SwappedAway(r)' => SwappedAway(r)
  BY <1>2, <1>3, <1>4 DEF Waits, Runs, SwappedAway
<1> QED
  BY <1>2, <1>5, QuietSteady

LEMMA EndPrefillsSteady ==
  ASSUME QueueInv, Steady, EndPrefills
  PROVE  Steady'
<1>1. waiting' = reserve \o waiting /\ reserve' = <<>>
  BY DEF EndPrefills, NextLoop, PutBack
<1>2. /\ pc = "prefills" /\ pc' # "idle"
      /\ UNCHANGED <<running, swapped, preempted, swappedOut, swappedIn, decodes,
                     prefills, batch, flight, sequences, raised>>
  BY DEF EndPrefills, NextLoop, queues, results
<1>3. \A r : Among(waiting', r) => Among(reserve, r) \/ Among(waiting, r)
  BY <1>1, AmongBoth DEF QueueInv, QueueTypes
<1>4. \A r : ~Among(reserve', r)
  BY <1>1, AmongNone
<1>5. \A r \in Requests : /\ Waits(r)' => Waits(r)
                          /\ Runs(r)' => Runs(r)
                          /\ SwappedAway(r)' => SwappedAway(r)
  BY <1>2, <1>3, <1>4 DEF Waits, Runs, SwappedAway
<1> QED
  BY <1>2, <1>5, QuietSteady

LEMMA BeginPassSteady ==
  ASSUME QueueInv, Steady, NEW c \in Ctxs, BeginPass(c)
  PROVE  Steady'
<1>1. /\ reserve' = <<>> /\ preempted' = <<>> /\ swappedOut' = <<>> /\ swappedIn' = <<>>
      /\ decodes' = <<>> /\ prefills' = <<>> /\ batch' = {}
      /\ UNCHANGED <<waiting, running, swapped, flight, sequences, raised>>
  BY DEF BeginPass, queues
<1>2. \A r : /\ ~Among(reserve', r) /\ ~Among(preempted', r) /\ ~Among(swappedOut', r)
             /\ ~Among(swappedIn', r) /\ ~Among(decodes', r) /\ ~Among(prefills', r)
  BY <1>1, AmongNone
<1>3. \A r \in Requests : /\ Waits(r)' => Waits(r)
                          /\ Runs(r)' => Runs(r)
                          /\ SwappedAway(r)' => SwappedAway(r)
  BY <1>1, <1>2 DEF Waits, Runs, SwappedAway
<1> QED
  BY <1>1, <1>3, QuietSteady

LEMMA FinishPassSteady ==
  ASSUME QueueInv, FlightInv, Steady, FinishPass
  PROVE  Steady'
<1>1. /\ waiting' = Reverse(preempted) \o waiting
      /\ swapped' = swapped \o swappedOut
      /\ running' = IF Chunked THEN running \o swappedIn \o decodes \o prefills
                    ELSE running \o prefills \o decodes \o swappedIn
  BY DEF FinishPass, Rewaiting
<1>2. /\ pc = "finish" /\ pc' = "idle" /\ batch' = {}
      /\ flight' = [flight EXCEPT ![ctx] = batch]
      /\ UNCHANGED <<sequences, raised>>
  BY DEF FinishPass
<1>3. QueueTypes
  BY DEF QueueInv
<1>4. \A r : Among(waiting', r) => Among(preempted, r) \/ Among(waiting, r)
  BY <1>1, <1>3, AmongReversed, AmongBoth DEF QueueTypes
<1>5. \A r : Among(swapped', r) => Among(swapped, r) \/ Among(swappedOut, r)
  BY <1>1, <1>3, AmongBoth DEF QueueTypes
<1>6. ASSUME NEW r, Among(running', r)
      PROVE  \/ Among(running, r) \/ Among(swappedIn, r)
             \/ Among(decodes, r) \/ Among(prefills, r)
  <2>1. CASE Chunked
    <3>1. /\ running \o swappedIn \in Seq(Requests)
          /\ (running \o swappedIn) \o decodes \in Seq(Requests)
      BY <1>3, AmongBoth DEF QueueTypes
    <3>2. running' = ((running \o swappedIn) \o decodes) \o prefills
      BY <1>1, <2>1
    <3>3. Among((running \o swappedIn) \o decodes, r) \/ Among(prefills, r)
      BY <1>3, <1>6, <3>1, <3>2, AmongBoth DEF QueueTypes
    <3>4. Among((running \o swappedIn) \o decodes, r)
             => Among(running \o swappedIn, r) \/ Among(decodes, r)
      BY <1>3, <3>1, AmongBoth DEF QueueTypes
    <3>5. Among(running \o swappedIn, r) => Among(running, r) \/ Among(swappedIn, r)
      BY <1>3, AmongBoth DEF QueueTypes
    <3> QED
      BY <3>3, <3>4, <3>5
  <2>2. CASE ~Chunked
    <3>1. /\ running \o prefills \in Seq(Requests)
          /\ (running \o prefills) \o decodes \in Seq(Requests)
      BY <1>3, AmongBoth DEF QueueTypes
    <3>2. running' = ((running \o prefills) \o decodes) \o swappedIn
      BY <1>1, <2>2
    <3>3. Among((running \o prefills) \o decodes, r) \/ Among(swappedIn, r)
      BY <1>3, <1>6, <3>1, <3>2, AmongBoth DEF QueueTypes
    <3>4. Among((running \o prefills) \o decodes, r)
             => Among(running \o prefills, r) \/ Among(decodes, r)
      BY <1>3, <3>1, AmongBoth DEF QueueTypes
    <3>5. Among(running \o prefills, r) => Among(running, r) \/ Among(prefills, r)
      BY <1>3, AmongBoth DEF QueueTypes
    <3> QED
      BY <3>3, <3>4, <3>5
  <2> QED
    BY <2>1, <2>2
<1>7. \A r \in Requests : /\ Waits(r)' => Waits(r)
                          /\ Runs(r)' => Runs(r)
                          /\ SwappedAway(r)' => SwappedAway(r)
  BY <1>2, <1>4, <1>5, <1>6 DEF Waits, Runs, SwappedAway
<1>8. \A c \in Ctxs : \A e \in flight'[c] : e \in batch \/ e \in flight[c]
  BY <1>2 DEF FlightInv
<1> QED
  BY <1>2, <1>7, <1>8, QuietSteady

LEMMA FailSteady ==
  ASSUME QueueInv, FlightInv, Steady, NEW c \in Ctxs, Fail(c)
  PROVE  Steady'
<1>1. /\ flight' = [flight EXCEPT ![c] = {}]
      /\ UNCHANGED <<waiting, running, swapped, reserve, preempted, swappedOut, swappedIn,
                     decodes, prefills, pc, batch, sequences, raised>>
  BY DEF Fail, queues, results
<1>2. \A r \in Requests : /\ Waits(r)' => Waits(r)
                          /\ Runs(r)' => Runs(r)
                          /\ SwappedAway(r)' => SwappedAway(r)
  BY <1>1 DEF Waits, Runs, SwappedAway
<1>3. \A d \in Ctxs : \A e \in flight'[d] : e \in batch \/ e \in flight[d]
  BY <1>1 DEF FlightInv
<1> QED
  BY <1>1, <1>2, <1>3, QuietSteady

(* Steps that change one request, which no batch is executing.             *)
LEMMA NotScheduled ==
  ASSUME FlightInv, NEW h, h \notin onFly
  PROVE  /\ \A e \in batch : e.req # h
         /\ \A c \in Ctxs : \A e \in flight[c] : e.req # h
  BY DEF FlightInv, Marked, Scheduled

LEMMA OneChangesSteady ==
  ASSUME Steady, "assertion" \notin raised', flight' = flight, NEW h \in Requests,
         \A e \in batch : e.req # h,
         \A c \in Ctxs : \A e \in flight[c] : e.req # h,
         \A e \in batch' : e \in batch \/ EntryOK(e)',
         Numeric',
         \A r \in Requests \ {h} :
            /\ status'[r] = status[r] /\ computed'[r] = computed[r]
            /\ len'[r] = len[r] /\ slots'[r] = slots[r]
            /\ Waits(r)' => Waits(r)
            /\ Runs(r)' => Runs(r)
            /\ SwappedAway(r)' => SwappedAway(r),
         InPlace(h)', Cached(h)'
  PROVE  Steady'
<1>1. ASSUME NEW r \in Requests PROVE InPlace(r)' /\ Cached(r)'
  <2>1. CASE r = h
    BY <2>1
  <2>2. CASE r # h
    <3>1. r \in Requests \ {h} /\ InPlace(r) /\ Cached(r)
      BY <2>2 DEF Steady
    <3> QED
      BY <3>1, StaysCached, StaysInPlace
  <2> QED
    BY <2>1, <2>2
<1>2. ASSUME NEW e, e.req # h, EntryOK(e) PROVE EntryOK(e)'
  <2>1. e.req \in Requests \ {h}
    BY <1>2 DEF EntryOK
  <2> QED
    BY <1>2, <2>1, EntryStays
<1>3. \A e \in batch' : EntryOK(e)'
  BY <1>2 DEF Steady
<1>4. \A c \in Ctxs : \A e \in flight'[c] : EntryOK(e)'
  BY <1>2 DEF Steady
<1> QED
  BY <1>1, <1>3, <1>4 DEF Steady

LEMMA ScheduleRunningSteady ==
  ASSUME QueueInv, FlightInv, Steady, NEW h \in Requests, ScheduleRunning(h)
  PROVE  Steady'
<1>1. /\ running # <<>> /\ h = Head(running) /\ running' = Tail(running)
      /\ decodes' = Append(decodes, h)
  BY DEF ScheduleRunning, RunningTurn
<1>2. /\ pc = "running" /\ slots' = [slots EXCEPT ![h] = len[h]]
      /\ batch' = batch \cup {[req |-> h, chunk |-> 1]}
      /\ UNCHANGED <<waiting, swapped, reserve, preempted, swappedOut, swappedIn,
                     prefills, flight, status, len, computed, pc, raised>>
  BY DEF ScheduleRunning, RunningTurn, AppendSlots, Mark
<1>3. h \notin onFly
  BY DEF ScheduleRunning, SkipsOnFly
<1>4. /\ Among(running, h) /\ ~Among(running', h) /\ ~Among(reserve, h)
      /\ ~Among(swappedIn, h) /\ ~Among(decodes, h) /\ ~Among(prefills, h)
  BY <1>1, <1>2, RunningHeadAlone
<1>5. /\ \A r : Among(running', r) => Among(running, r)
      /\ \A r : Among(decodes', r) => Among(decodes, r) \/ r = h
  BY <1>1, LessByHead, MoreByOne DEF QueueInv, QueueTypes
<1>6. Numeric /\ InPlace(h) /\ Cached(h)
  BY DEF Steady
<1>7. status[h] = "running"
  BY <1>4, <1>6 DEF InPlace, Runs
<1>8. /\ len[h] \in Nat /\ computed[h] \in Nat /\ computed[h] < len[h]
      /\ slots'[h] = len[h]
      /\ \A r \in Requests \ {h} : slots'[r] = slots[r]
  BY <1>2, <1>6 DEF Numeric, Cached
<1>9. Numeric'
  BY <1>2, <1>6, <1>8 DEF Numeric
<1>11. InPlace(h)'
  <2>1. ~Waits(h)' /\ ~SwappedAway(h)'
    BY <1>2, <1>4, <1>6, <1>7 DEF InPlace, Waits, SwappedAway
  <2> QED
    BY <1>2, <1>7, <2>1 DEF InPlace
<1>12. Cached(h)'
  BY <1>2, <1>7, <1>8 DEF Cached
<1>13. \A e \in batch' : e \in batch \/ EntryOK(e)'
  <2> DEFINE e0 == [req |-> h, chunk |-> 1]
  <2>1. e0.req = h /\ e0.chunk = 1
    OBVIOUS
  <2>2. \A e \in batch' : e \in batch \/ e = e0
    BY <1>2
  <2> HIDE DEF e0
  <2>3. EntryOK(e0)'
    BY <1>2, <1>7, <1>8, <2>1 DEF EntryOK
  <2> QED
    BY <2>2, <2>3
<1>14. /\ \A e \in batch : e.req # h
       /\ \A c \in Ctxs : \A e \in flight[c] : e.req # h
  BY <1>3, NotScheduled
<1>15. \A r \in Requests \ {h} :
          /\ status'[r] = status[r] /\ computed'[r] = computed[r]
          /\ len'[r] = len[r] /\ slots'[r] = slots[r]
          /\ Waits(r)' => Waits(r)
          /\ Runs(r)' => Runs(r)
          /\ SwappedAway(r)' => SwappedAway(r)
  <2> TAKE r \in Requests \ {h}
  <2>1. /\ status'[r] = status[r] /\ computed'[r] = computed[r]
        /\ len'[r] = len[r] /\ slots'[r] = slots[r]
    BY <1>2, <1>8
  <2>2. /\ Waits(r)' => Waits(r)
        /\ Runs(r)' => Runs(r)
        /\ SwappedAway(r)' => SwappedAway(r)
    BY <1>2, <1>5 DEF Waits, Runs, SwappedAway
  <2> QED
    BY <2>1, <2>2
<1>16. "assertion" \notin raised' /\ flight' = flight
  BY <1>2 DEF Steady
<1> QED
  BY <1>9, <1>11, <1>12, <1>13, <1>14, <1>15, <1>16, OneChangesSteady

LEMMA RecomputeLastSteady ==
  ASSUME QueueInv, FlightInv, Steady, RecomputeLast, ~snatched'
  PROVE  Steady'
<1>0. PICK h \in Requests : h = Last(running)
  BY LessByLast DEF RecomputeLast, PreemptLast, RunningTurn, QueueInv, QueueTypes
<1>1. /\ running # <<>> /\ h = Last(running) /\ running' = Front(running)
      /\ preempted' = Append(preempted, h)
      /\ status' = [status EXCEPT ![h] = "waiting"]
      /\ slots' = [slots EXCEPT ![h] = 0]
      /\ computed' = [computed EXCEPT ![h] = 0]
  BY <1>0 DEF RecomputeLast, PreemptLast, RunningTurn
<1>2. /\ pc = "running"
      /\ UNCHANGED <<waiting, swapped, reserve, swappedOut, swappedIn, decodes,
                     prefills, flight, batch, len, pc, raised>>
  BY DEF RecomputeLast, PreemptLast, RunningTurn, queues, sequences, results
<1>3. h \notin onFly
  BY <1>0 DEF RecomputeLast, PreemptLast
<1>4. /\ h \in Requests /\ Among(running, h) /\ ~Among(running', h) /\ ~Among(reserve, h)
      /\ ~Among(swappedIn, h) /\ ~Among(decodes, h) /\ ~Among(prefills, h)
  BY <1>1, <1>2, RunningLastAlone
<1>5. /\ \A r : Among(running', r) => Among(running, r)
      /\ \A r : Among(preempted', r) => Among(preempted, r) \/ r = h
  BY <1>1, LessByLast, MoreByOne DEF QueueInv, QueueTypes
<1>6. /\ Numeric /\ InPlace(h) /\ Cached(h)
      /\ status \in [Requests -> Live \cup {"new", "finished", "ignored"}]
  BY <1>4 DEF Steady, QueueInv, QueueTypes
<1>7. status[h] = "running"
  BY <1>4, <1>6 DEF InPlace, Runs
<1>8. /\ len[h] \in Nat /\ computed[h] \in Nat /\ computed[h] < len[h]
      /\ slots'[h] = 0 /\ computed'[h] = 0 /\ status'[h] = "waiting"
      /\ \A r \in Requests \ {h} : /\ slots'[r] = slots[r] /\ computed'[r] = computed[r]
                                  /\ status'[r] = status[r]
  BY <1>1, <1>4, <1>6 DEF Numeric, Cached
<1>9. Numeric'
  BY <1>1, <1>2, <1>4, <1>6 DEF Numeric
<1>11. InPlace(h)'
  <2>1. ~Runs(h)' /\ ~SwappedAway(h)'
    BY <1>2, <1>4, <1>6, <1>7 DEF InPlace, Waits, Runs, SwappedAway
  <2> QED
    BY <1>8, <2>1 DEF InPlace
<1>12. Cached(h)'
  BY <1>2, <1>8 DEF Cached
<1>13. \A e \in batch' : e \in batch \/ EntryOK(e)'
  BY <1>2
<1>14. /\ \A e \in batch : e.req # h
       /\ \A c \in Ctxs : \A e \in flight[c] : e.req # h
  BY <1>3, NotScheduled
<1>15. \A r \in Requests \ {h} :
          /\ status'[r] = status[r] /\ computed'[r] = computed[r]
          /\ len'[r] = len[r] /\ slots'[r] = slots[r]
          /\ Waits(r)' => Waits(r)
          /\ Runs(r)' => Runs(r)
          /\ SwappedAway(r)' => SwappedAway(r)
  <2> TAKE r \in Requests \ {h}
  <2>1. /\ status'[r] = status[r] /\ computed'[r] = computed[r]
        /\ len'[r] = len[r] /\ slots'[r] = slots[r]
    BY <1>2, <1>8
  <2>2. /\ Waits(r)' => Waits(r)
        /\ Runs(r)' => Runs(r)
        /\ SwappedAway(r)' => SwappedAway(r)
    BY <1>2, <1>5 DEF Waits, Runs, SwappedAway
  <2> QED
    BY <2>1, <2>2
<1>16. "assertion" \notin raised' /\ flight' = flight
  BY <1>2 DEF Steady
<1> QED
  BY <1>9, <1>11, <1>12, <1>13, <1>14, <1>15, <1>16, OneChangesSteady

LEMMA SwapOutLastSteady ==
  ASSUME QueueInv, FlightInv, Steady, SwapOutLast, ~snatched'
  PROVE  Steady'
<1>0. PICK h \in Requests : h = Last(running)
  BY LessByLast DEF SwapOutLast, PreemptLast, RunningTurn, QueueInv, QueueTypes
<1>1. /\ running # <<>> /\ h = Last(running) /\ running' = Front(running)
      /\ swappedOut' = Append(swappedOut, h)
      /\ status' = [status EXCEPT ![h] = "swapped"]
      /\ slots' = [slots EXCEPT ![h] = 0]
      /\ computed' = computed
  BY <1>0 DEF SwapOutLast, PreemptLast, RunningTurn
<1>2. /\ pc = "running"
      /\ UNCHANGED <<waiting, swapped, reserve, preempted, swappedIn, decodes,
                     prefills, flight, batch, len, pc, raised>>
  BY DEF SwapOutLast, PreemptLast, RunningTurn, queues, sequences, results
<1>3. h \notin onFly
  BY <1>0 DEF SwapOutLast, PreemptLast
<1>4. /\ h \in Requests /\ Among(running, h) /\ ~Among(running', h) /\ ~Among(reserve, h)
      /\ ~Among(swappedIn, h) /\ ~Among(decodes, h) /\ ~Among(prefills, h)
  BY <1>1, <1>2, RunningLastAlone
<1>5. /\ \A r : Among(running', r) => Among(running, r)
      /\ \A r : Among(swappedOut', r) => Among(swappedOut, r) \/ r = h
  BY <1>1, LessByLast, MoreByOne DEF QueueInv, QueueTypes
<1>6. /\ Numeric /\ InPlace(h) /\ Cached(h)
      /\ status \in [Requests -> Live \cup {"new", "finished", "ignored"}]
  BY <1>4 DEF Steady, QueueInv, QueueTypes
<1>7. status[h] = "running"
  BY <1>4, <1>6 DEF InPlace, Runs
<1>8. /\ len[h] \in Nat /\ computed[h] \in Nat /\ computed[h] < len[h]
      /\ slots'[h] = 0 /\ computed'[h] = computed[h] /\ status'[h] = "swapped"
      /\ \A r \in Requests \ {h} : /\ slots'[r] = slots[r] /\ computed'[r] = computed[r]
                                  /\ status'[r] = status[r]
  BY <1>1, <1>4, <1>6 DEF Numeric, Cached
<1>9. Numeric'
  BY <1>1, <1>2, <1>4, <1>6 DEF Numeric
<1>11. InPlace(h)'
  <2>1. ~Runs(h)' /\ ~Waits(h)'
    BY <1>2, <1>4, <1>6, <1>7 DEF InPlace, Waits, Runs, SwappedAway
  <2> QED
    BY <1>8, <2>1 DEF InPlace
<1>12. Cached(h)'
  BY <1>2, <1>8 DEF Cached
<1>13. \A e \in batch' : e \in batch \/ EntryOK(e)'
  BY <1>2
<1>14. /\ \A e \in batch : e.req # h
       /\ \A c \in Ctxs : \A e \in flight[c] : e.req # h
  BY <1>3, NotScheduled
<1>15. \A r \in Requests \ {h} :
          /\ status'[r] = status[r] /\ computed'[r] = computed[r]
          /\ len'[r] = len[r] /\ slots'[r] = slots[r]
          /\ Waits(r)' => Waits(r)
          /\ Runs(r)' => Runs(r)
          /\ SwappedAway(r)' => SwappedAway(r)
  <2> TAKE r \in Requests \ {h}
  <2>1. /\ status'[r] = status[r] /\ computed'[r] = computed[r]
        /\ len'[r] = len[r] /\ slots'[r] = slots[r]
    BY <1>2, <1>8
  <2>2. /\ Waits(r)' => Waits(r)
        /\ Runs(r)' => Runs(r)
        /\ SwappedAway(r)' => SwappedAway(r)
    BY <1>2, <1>5 DEF Waits, Runs, SwappedAway
  <2> QED
    BY <2>1, <2>2
<1>16. "assertion" \notin raised' /\ flight' = flight
  BY <1>2 DEF Steady
<1> QED
  BY <1>9, <1>11, <1>12, <1>13, <1>14, <1>15, <1>16, OneChangesSteady

LEMMA SwapInSteady ==
  ASSUME QueueInv, FlightInv, Steady, NEW h \in Requests, SwapIn(h)
  PROVE  Steady'
<1>1. /\ swapped # <<>> /\ h = Head(swapped) /\ swapped' = Tail(swapped)
      /\ swappedIn' = Append(swappedIn, h)
  BY DEF SwapIn, SwappedTurn
<1>2. /\ pc = "swapped" /\ slots' = [slots EXCEPT ![h] = len[h]]
      /\ status' = [status EXCEPT ![h] = "running"]
      /\ batch' = batch \cup {[req |-> h, chunk |-> 1]}
      /\ UNCHANGED <<waiting, running, reserve, preempted, swappedOut, decodes,
                     prefills, flight, len, computed, pc, raised>>
  BY DEF SwapIn, SwappedTurn, AppendSlots, Mark
<1>3. h \notin onFly
  BY DEF SwapIn, SkipsOnFly
<1>4. /\ Among(swapped, h) /\ ~Among(swapped', h)
      /\ ~Among(reserve, h) /\ ~Among(swappedOut, h)
  BY <1>1, <1>2, SwappedHeadAlone
<1>5. /\ \A r : Among(swapped', r) => Among(swapped, r)
      /\ \A r : Among(swappedIn', r) => Among(swappedIn, r) \/ r = h
  BY <1>1, LessByHead, MoreByOne DEF QueueInv, QueueTypes
<1>6. /\ Numeric /\ InPlace(h) /\ Cached(h)
      /\ status \in [Requests -> Live \cup {"new", "finished", "ignored"}]
  BY DEF Steady, QueueInv, QueueTypes
<1>7. status[h] = "swapped"
  BY <1>4, <1>6 DEF InPlace, SwappedAway
<1>8. /\ len[h] \in Nat /\ computed[h] \in Nat /\ computed[h] < len[h]
      /\ slots'[h] = len[h] /\ status'[h] = "running"
      /\ \A r \in Requests \ {h} : slots'[r] = slots[r] /\ status'[r] = status[r]
  BY <1>2, <1>6 DEF Numeric, Cached
<1>9. Numeric'
  BY <1>2, <1>6, <1>8 DEF Numeric
<1>11. InPlace(h)'
  <2>1. ~SwappedAway(h)' /\ ~Waits(h)'
    BY <1>2, <1>4, <1>6, <1>7 DEF InPlace, SwappedAway, Waits
  <2> QED
    BY <1>8, <2>1 DEF InPlace
<1>12. Cached(h)'
  BY <1>2, <1>8 DEF Cached
<1>13. \A e \in batch' : e \in batch \/ EntryOK(e)'
  <2> DEFINE e0 == [req |-> h, chunk |-> 1]
  <2>1. e0.req = h /\ e0.chunk = 1
    OBVIOUS
  <2>2. \A e \in batch' : e \in batch \/ e = e0
    BY <1>2
  <2> HIDE DEF e0
  <2>3. PICK e1 : e1 = e0
    OBVIOUS
  <2>4. EntryOK(e1)'
    BY <1>2, <1>8, <2>1, <2>3 DEF EntryOK
  <2> QED
    BY <2>2, <2>3, <2>4
<1>14. /\ \A e \in batch : e.req # h
       /\ \A c \in Ctxs : \A e \in flight[c] : e.req # h
  BY <1>3, NotScheduled
<1>15. \A r \in Requests \ {h} :
          /\ status'[r] = status[r] /\ computed'[r] = computed[r]
          /\ len'[r] = len[r] /\ slots'[r] = slots[r]
          /\ Waits(r)' => Waits(r)
          /\ Runs(r)' => Runs(r)
          /\ SwappedAway(r)' => SwappedAway(r)
  <2> TAKE r \in Requests \ {h}
  <2>1. /\ status'[r] = status[r] /\ computed'[r] = computed[r]
        /\ len'[r] = len[r] /\ slots'[r] = slots[r]
    BY <1>2, <1>8
  <2>2. /\ Waits(r)' => Waits(r)
        /\ Runs(r)' => Runs(r)
        /\ SwappedAway(r)' => SwappedAway(r)
    BY <1>2, <1>5 DEF Waits, Runs, SwappedAway
  <2> QED
    BY <2>1, <2>2
<1>16. "assertion" \notin raised' /\ flight' = flight
  BY <1>2 DEF Steady
<1> QED
  BY <1>9, <1>11, <1>12, <1>13, <1>14, <1>15, <1>16, OneChangesSteady

LEMMA DropSwappedSteady ==
  ASSUME QueueInv, FlightInv, Steady, DropSwapped
  PROVE  Steady'
<1>0. PICK h \in Requests : h = Head(swapped)
  BY LessByHead DEF DropSwapped, SwappedTurn, QueueInv, QueueTypes
<1>1. /\ swapped # <<>> /\ h = Head(swapped) /\ swapped' = Tail(swapped)
      /\ status' = [status EXCEPT ![h] = "ignored"]
  BY <1>0 DEF DropSwapped, SwappedTurn
<1>2. /\ pc = "swapped"
      /\ UNCHANGED <<waiting, running, reserve, preempted, swappedOut, swappedIn, decodes,
                     prefills, flight, batch, len, computed, slots, pc, raised>>
  BY DEF DropSwapped, SwappedTurn, results
<1>3. h \notin onFly
  BY <1>0 DEF DropSwapped, SkipsOnFly
<1>4. /\ Among(swapped, h) /\ ~Among(swapped', h)
      /\ ~Among(reserve, h) /\ ~Among(swappedOut, h)
  BY <1>1, <1>2, SwappedHeadAlone
<1>5. \A r : Among(swapped', r) => Among(swapped, r)
  BY <1>1, LessByHead DEF QueueInv, QueueTypes
<1>6. /\ Numeric /\ InPlace(h) /\ Cached(h)
      /\ status \in [Requests -> Live \cup {"new", "finished", "ignored"}]
  BY DEF Steady, QueueInv, QueueTypes
<1>7. status[h] = "swapped"
  BY <1>4, <1>6 DEF InPlace, SwappedAway
<1>8. /\ computed[h] < len[h] /\ status'[h] = "ignored"
      /\ \A r \in Requests \ {h} : status'[r] = status[r]
  BY <1>1, <1>6 DEF Cached
<1>9. Numeric'
  BY <1>2, <1>6 DEF Numeric
<1>11. InPlace(h)'
  <2>1. ~SwappedAway(h)' /\ ~Waits(h)' /\ ~Runs(h)'
    BY <1>2, <1>4, <1>6, <1>7 DEF InPlace, Waits, Runs, SwappedAway
  <2> QED
    BY <1>8, <2>1 DEF InPlace
<1>12. Cached(h)'
  BY <1>2, <1>8 DEF Cached
<1>13. \A e \in batch' : e \in batch \/ EntryOK(e)'
  BY <1>2
<1>14. /\ \A e \in batch : e.req # h
       /\ \A c \in Ctxs : \A e \in flight[c] : e.req # h
  BY <1>3, NotScheduled
<1>15. \A r \in Requests \ {h} :
          /\ status'[r] = status[r] /\ computed'[r] = computed[r]
          /\ len'[r] = len[r] /\ slots'[r] = slots[r]
          /\ Waits(r)' => Waits(r)
          /\ Runs(r)' => Runs(r)
          /\ SwappedAway(r)' => SwappedAway(r)
  <2> TAKE r \in Requests \ {h}
  <2>1. /\ status'[r] = status[r] /\ computed'[r] = computed[r]
        /\ len'[r] = len[r] /\ slots'[r] = slots[r]
    BY <1>2, <1>8
  <2>2. /\ Waits(r)' => Waits(r)
        /\ Runs(r)' => Runs(r)
        /\ SwappedAway(r)' => SwappedAway(r)
    BY <1>2, <1>5 DEF Waits, Runs, SwappedAway
  <2> QED
    BY <2>1, <2>2
<1>16. "assertion" \notin raised' /\ flight' = flight
  BY <1>2 DEF Steady
<1> QED
  BY <1>9, <1>11, <1>12, <1>13, <1>14, <1>15, <1>16, OneChangesSteady

LEMMA SchedulePrefillSteady ==
  ASSUME QueueInv, FlightInv, Steady, NEW h \in Requests, SchedulePrefill(h)
  PROVE  Steady'
<1>1. /\ waiting # <<>> /\ h = Head(waiting) /\ waiting' = Tail(waiting)
      /\ prefills' = Append(prefills, h)
  BY DEF SchedulePrefill, PrefillTurn
<1>2. /\ pc = "prefills" /\ slots' = [slots EXCEPT ![h] = len[h]]
      /\ status' = [status EXCEPT ![h] = "running"]
      /\ batch' = batch \cup {[req |-> h, chunk |-> len[h] - computed[h]]}
      /\ UNCHANGED <<running, swapped, reserve, preempted, swappedOut, swappedIn,
                     decodes, flight, len, computed, pc, raised>>
  BY DEF SchedulePrefill, PrefillTurn, AppendSlots, Mark, NumNewTokens
<1>3. h \notin onFly
  BY DEF SchedulePrefill, SkipsOnFly
<1>4. /\ Among(waiting, h) /\ ~Among(waiting', h)
      /\ ~Among(reserve, h) /\ ~Among(preempted, h)
  BY <1>1, <1>2, WaitingHeadAlone
<1>5. /\ \A r : Among(waiting', r) => Among(waiting, r)
      /\ \A r : Among(prefills', r) => Among(prefills, r) \/ r = h
  BY <1>1, LessByHead, MoreByOne DEF QueueInv, QueueTypes
<1>6. /\ Numeric /\ InPlace(h) /\ Cached(h)
      /\ status \in [Requests -> Live \cup {"new", "finished", "ignored"}]
  BY DEF Steady, QueueInv, QueueTypes
<1>7. status[h] = "waiting"
  BY <1>4, <1>6 DEF InPlace, Waits
<1>8. /\ len[h] \in Nat /\ computed[h] \in Nat /\ computed[h] < len[h]
      /\ slots'[h] = len[h] /\ status'[h] = "running"
      /\ \A r \in Requests \ {h} : slots'[r] = slots[r] /\ status'[r] = status[r]
  BY <1>2, <1>6 DEF Numeric, Cached
<1>9. Numeric'
  BY <1>2, <1>6, <1>8 DEF Numeric
<1>11. InPlace(h)'
  <2>1. ~Waits(h)' /\ ~SwappedAway(h)'
    BY <1>2, <1>4, <1>6, <1>7 DEF InPlace, Waits, SwappedAway
  <2> QED
    BY <1>8, <2>1 DEF InPlace
<1>12. Cached(h)'
  BY <1>2, <1>8 DEF Cached
<1>13. \A e \in batch' : e \in batch \/ EntryOK(e)'
  <2> DEFINE e0 == [req |-> h, chunk |-> len[h] - computed[h]]
  <2>1. e0.req = h /\ e0.chunk = len[h] - computed[h]
    OBVIOUS
  <2>2. \A e \in batch' : e \in batch \/ e = e0
    BY <1>2
  <2> HIDE DEF e0
  <2>3. PICK e1 : e1 = e0
    OBVIOUS
  <2>4. EntryOK(e1)'
    BY <1>2, <1>8, <2>1, <2>3 DEF EntryOK
  <2> QED
    BY <2>2, <2>3, <2>4
<1>14. /\ \A e \in batch : e.req # h
       /\ \A c \in Ctxs : \A e \in flight[c] : e.req # h
  BY <1>3, NotScheduled
<1>15. \A r \in Requests \ {h} :
          /\ status'[r] = status[r] /\ computed'[r] = computed[r]
          /\ len'[r] = len[r] /\ slots'[r] = slots[r]
          /\ Waits(r)' => Waits(r)
          /\ Runs(r)' => Runs(r)
          /\ SwappedAway(r)' => SwappedAway(r)
  <2> TAKE r \in Requests \ {h}
  <2>1. /\ status'[r] = status[r] /\ computed'[r] = computed[r]
        /\ len'[r] = len[r] /\ slots'[r] = slots[r]
    BY <1>2, <1>8
  <2>2. /\ Waits(r)' => Waits(r)
        /\ Runs(r)' => Runs(r)
        /\ SwappedAway(r)' => SwappedAway(r)
    BY <1>2, <1>5 DEF Waits, Runs, SwappedAway
  <2> QED
    BY <2>1, <2>2
<1>16. "assertion" \notin raised' /\ flight' = flight
  BY <1>2 DEF Steady
<1> QED
  BY <1>9, <1>11, <1>12, <1>13, <1>14, <1>15, <1>16, OneChangesSteady

LEMMA IgnorePromptSteady ==
  ASSUME QueueInv, FlightInv, Steady, IgnorePrompt
  PROVE  Steady'
<1>0. PICK h \in Requests : h = Head(waiting)
  BY LessByHead DEF IgnorePrompt, PrefillTurn, QueueInv, QueueTypes
<1>1. /\ waiting # <<>> /\ h = Head(waiting) /\ waiting' = Tail(waiting)
      /\ status' = [status EXCEPT ![h] = "ignored"]
  BY <1>0 DEF IgnorePrompt, PrefillTurn
<1>2. /\ pc = "prefills"
      /\ UNCHANGED <<running, swapped, reserve, preempted, swappedOut, swappedIn, decodes,
                     prefills, flight, batch, len, computed, slots, pc, raised>>
  BY DEF IgnorePrompt, PrefillTurn, results
<1>3. h \notin onFly
  BY <1>0 DEF IgnorePrompt, SkipsOnFly
<1>4. /\ Among(waiting, h) /\ ~Among(waiting', h)
      /\ ~Among(reserve, h) /\ ~Among(preempted, h)
  BY <1>1, <1>2, WaitingHeadAlone
<1>5. \A r : Among(waiting', r) => Among(waiting, r)
  BY <1>1, LessByHead DEF QueueInv, QueueTypes
<1>6. /\ Numeric /\ InPlace(h) /\ Cached(h)
      /\ status \in [Requests -> Live \cup {"new", "finished", "ignored"}]
  BY DEF Steady, QueueInv, QueueTypes
<1>7. status[h] = "waiting"
  BY <1>4, <1>6 DEF InPlace, Waits
<1>8. /\ computed[h] < len[h] /\ status'[h] = "ignored"
      /\ \A r \in Requests \ {h} : status'[r] = status[r]
  BY <1>1, <1>6 DEF Cached
<1>9. Numeric'
  BY <1>2, <1>6 DEF Numeric
<1>11. InPlace(h)'
  <2>1. ~Waits(h)' /\ ~SwappedAway(h)' /\ ~Runs(h)'
    BY <1>2, <1>4, <1>6, <1>7 DEF InPlace, Waits, Runs, SwappedAway
  <2> QED
    BY <1>8, <2>1 DEF InPlace
<1>12. Cached(h)'
  BY <1>2, <1>8 DEF Cached
<1>13. \A e \in batch' : e \in batch \/ EntryOK(e)'
  BY <1>2
<1>14. /\ \A e \in batch : e.req # h
       /\ \A c \in Ctxs : \A e \in flight[c] : e.req # h
  BY <1>3, NotScheduled
<1>15. \A r \in Requests \ {h} :
          /\ status'[r] = status[r] /\ computed'[r] = computed[r]
          /\ len'[r] = len[r] /\ slots'[r] = slots[r]
          /\ Waits(r)' => Waits(r)
          /\ Runs(r)' => Runs(r)
          /\ SwappedAway(r)' => SwappedAway(r)
  <2> TAKE r \in Requests \ {h}
  <2>1. /\ status'[r] = status[r] /\ computed'[r] = computed[r]
        /\ len'[r] = len[r] /\ slots'[r] = slots[r]
    BY <1>2, <1>8
  <2>2. /\ Waits(r)' => Waits(r)
        /\ Runs(r)' => Runs(r)
        /\ SwappedAway(r)' => SwappedAway(r)
    BY <1>2, <1>5 DEF Waits, Runs, SwappedAway
  <2> QED
    BY <2>1, <2>2
<1>16. "assertion" \notin raised' /\ flight' = flight
  BY <1>2 DEF Steady
<1> QED
  BY <1>9, <1>11, <1>12, <1>13, <1>14, <1>15, <1>16, OneChangesSteady

(* The head of the waiting queue is waiting, with nothing of it computed.  *)
LEMMA AssertionsDoHold ==
  ASSUME QueueInv, Steady
  PROVE  ~FailAssertion
<1> SUFFICES ASSUME FailAssertion PROVE FALSE
  OBVIOUS
<1>1. PICK h \in Requests : h = Head(waiting) /\ Among(waiting, h)
  BY LessByHead DEF FailAssertion, PrefillTurn, QueueInv, QueueTypes
<1>2. InPlace(h) /\ Cached(h) /\ Numeric
  BY DEF Steady
<1>3. status[h] = "waiting" /\ computed[h] = 0 /\ len[h] \in Nat
  BY <1>1, <1>2 DEF InPlace, Waits, Cached, Numeric
<1>4. AssertsHold(h)
  BY <1>3 DEF AssertsHold, OnePrompt, NumNewTokens
<1> QED
  BY <1>1, <1>4 DEF FailAssertion

LEMMA AddRequestSteady ==
  ASSUME QueueInv, FlightInv, Steady, NEW h \in Requests, AddRequest(h)
  PROVE  Steady'
<1>1. /\ waiting' = Append(waiting, h) /\ status[h] = "new"
      /\ status' = [status EXCEPT ![h] = "waiting"]
  BY DEF AddRequest
<1>2. /\ pc = "idle"
      /\ UNCHANGED <<running, swapped, reserve, flight, batch, len, computed, slots, pc,
                     raised>>
  BY DEF AddRequest
<1>4. ~Among(running, h) /\ ~Among(swapped, h)
  BY <1>1, <1>2, NewIsNowhere
<1>5. \A r : Among(waiting', r) => Among(waiting, r) \/ r = h
  BY <1>1, MoreByOne DEF QueueInv, QueueTypes
<1>6. /\ Numeric /\ InPlace(h) /\ Cached(h)
      /\ status \in [Requests -> Live \cup {"new", "finished", "ignored"}]
  BY DEF Steady, QueueInv, QueueTypes
<1>8. /\ computed[h] < len[h] /\ computed[h] = 0 /\ status'[h] = "waiting"
      /\ \A r \in Requests \ {h} : status'[r] = status[r]
  BY <1>1, <1>6 DEF Cached
<1>9. Numeric'
  BY <1>2, <1>6 DEF Numeric
<1>11. InPlace(h)'
  <2>1. ~Runs(h)' /\ ~SwappedAway(h)'
    BY <1>2, <1>4 DEF Runs, SwappedAway
  <2> QED
    BY <1>8, <2>1 DEF InPlace
<1>12. Cached(h)'
  BY <1>2, <1>8 DEF Cached
<1>13. \A e \in batch' : e \in batch \/ EntryOK(e)'
  BY <1>2
<1>14. /\ \A e \in batch : e.req # h
       /\ \A c \in Ctxs : \A e \in flight[c] : e.req # h
  BY <1>1 DEF Steady, EntryOK
<1>15. \A r \in Requests \ {h} :
          /\ status'[r] = status[r] /\ computed'[r] = computed[r]
          /\ len'[r] = len[r] /\ slots'[r] = slots[r]
          /\ Waits(r)' => Waits(r)
          /\ Runs(r)' => Runs(r)
          /\ SwappedAway(r)' => SwappedAway(r)
  <2> TAKE r \in Requests \ {h}
  <2>1. /\ status'[r] = status[r] /\ computed'[r] = computed[r]
        /\ len'[r] = len[r] /\ slots'[r] = slots[r]
    BY <1>2, <1>8
  <2>2. /\ Waits(r)' => Waits(r)
        /\ Runs(r)' => Runs(r)
        /\ SwappedAway(r)' => SwappedAway(r)
    BY <1>2, <1>5 DEF Waits, Runs, SwappedAway
  <2> QED
    BY <2>1, <2>2
<1>16. "assertion" \notin raised' /\ flight' = flight
  BY <1>2 DEF Steady
<1> QED
  BY <1>9, <1>11, <1>12, <1>13, <1>14, <1>15, <1>16, OneChangesSteady

LEMMA AbortSteady ==
  ASSUME QueueInv, FlightInv, Steady, NEW h \in Requests, Abort(h)
  PROVE  Steady'
<1>1. /\ waiting' = Without(waiting, {h}) /\ running' = Without(running, {h})
      /\ swapped' = Without(swapped, {h})
      /\ status' = [status EXCEPT ![h] = "finished"]
      /\ slots' = [slots EXCEPT ![h] = 0]
  BY DEF Abort
<1>2. pc = "idle" /\ UNCHANGED <<flight, batch, len, computed, pc, raised>>
  BY DEF Abort
<1>3. \A r : /\ Among(waiting', r) => Among(waiting, r) /\ r # h
             /\ Among(running', r) => Among(running, r) /\ r # h
             /\ Among(swapped', r) => Among(swapped, r) /\ r # h
  BY <1>1, AmongTheRest DEF QueueInv, QueueTypes
<1>4. /\ Numeric /\ InPlace(h) /\ Cached(h)
      /\ status \in [Requests -> Live \cup {"new", "finished", "ignored"}]
  BY DEF Steady, QueueInv, QueueTypes
<1>5. /\ computed[h] < len[h] /\ status'[h] = "finished"
      /\ \A r \in Requests \ {h} : status'[r] = status[r] /\ slots'[r] = slots[r]
  BY <1>1, <1>4 DEF Cached, Numeric
<1>6. Numeric'
  BY <1>1, <1>2, <1>4 DEF Numeric
<1>7. ASSUME NEW r \in Requests PROVE InPlace(r)' /\ Cached(r)'
  <2>1. CASE r = h
    <3>1. ~Waits(h)' /\ ~Runs(h)' /\ ~SwappedAway(h)'
      BY <1>2, <1>3 DEF Waits, Runs, SwappedAway
    <3>2. InPlace(h)'
      BY <3>1 DEF InPlace
    <3>3. Cached(h)'
      BY <1>2, <1>5 DEF Cached
    <3> QED
      BY <2>1, <3>2, <3>3
  <2>2. CASE r # h
    <3>1. /\ InPlace(r) /\ Cached(r)
          /\ status'[r] = status[r] /\ computed'[r] = computed[r]
          /\ len'[r] = len[r] /\ slots'[r] = slots[r]
      BY <1>2, <1>5, <2>2 DEF Steady
    <3>2. /\ Waits(r)' => Waits(r)
          /\ Runs(r)' => Runs(r)
          /\ SwappedAway(r)' => SwappedAway(r)
      BY <1>2, <1>3 DEF Waits, Runs, SwappedAway
    <3> QED
      BY <3>1, <3>2, StaysCached, StaysInPlace
  <2> QED
    BY <2>1, <2>2
<1>8. ASSUME NEW e, EntryOK(e) PROVE EntryOK(e)'
  <2>1. CASE e.req = h
    BY <1>5, <1>8, <2>1 DEF EntryOK
  <2>2. CASE e.req # h
    <3>1. e.req \in Requests \ {h}
      BY <1>8, <2>2 DEF EntryOK
    <3> QED
      BY <1>2, <1>5, <1>8, <3>1, EntryStays
  <2> QED
    BY <2>1, <2>2
<1> QED
  BY <1>2, <1>6, <1>7, <1>8 DEF Steady

(* What the output of a step makes of a request that has not ended.        *)
LEMMA OutcomeFits ==
  ASSUME Steady, NEW c \in Ctxs, NEW r \in Scheduled(flight[c]), status[r] \in Live
  PROVE  /\ r \in Requests /\ status[r] = "running"
         /\ Outcome(c, r).len = len[r] + 1
         /\ Outcome(c, r).computed \in Nat
         /\ Outcome(c, r).computed <= slots[r]
<1> DEFINE e == CHOOSE e \in flight[c] : e.req = r
<1>1. e \in flight[c] /\ e.req = r
  BY DEF Scheduled
<1>2. Outcome(c, r) = [len |-> len[r] + 1, computed |-> computed[r] + e.chunk]
  BY DEF Outcome
<1> HIDE DEF e
<1>3. EntryOK(e)
  BY <1>1 DEF Steady
<1>4. r \in Requests /\ status[r] = "running" /\ e.chunk \in Nat
      /\ computed[r] + e.chunk <= slots[r]
  BY <1>1, <1>3 DEF EntryOK, Live
<1>5. computed[r] \in Nat
  BY <1>4 DEF Steady, Numeric
<1> QED
  BY <1>2, <1>4, <1>5

LEMMA CompleteSteady ==
  ASSUME QueueInv, FlightInv, Steady, NEW c \in Ctxs, Complete(c)
  PROVE  Steady'
<1> DEFINE done == {r \in Scheduled(flight[c]) : status[r] \in Live}
           final == {r \in done : Outcome(c, r).len >= MaxLen}
           freed == {r \in final : r \in ToSet(running)}
<1>1. /\ len' = [r \in Requests |-> IF r \in done THEN Outcome(c, r).len ELSE len[r]]
      /\ computed' = [r \in Requests |->
            IF r \in done THEN Outcome(c, r).computed ELSE computed[r]]
      /\ status' = [r \in Requests |-> IF r \in final THEN "finished" ELSE status[r]]
      /\ slots' = [r \in Requests |-> IF r \in freed THEN 0 ELSE slots[r]]
      /\ running' = Without(running, final)
  BY DEF Complete
<1>2. /\ pc = "idle" /\ flight' = [flight EXCEPT ![c] = {}]
      /\ UNCHANGED <<waiting, swapped, pc, batch, raised>>
  BY DEF Complete
<1>3. /\ final \subseteq done /\ freed \subseteq final
      /\ done \subseteq Scheduled(flight[c])
      /\ \A r \in done : status[r] \in Live
  OBVIOUS
<1>4. \A r \in done : /\ r \in Requests /\ status[r] = "running"
                      /\ Outcome(c, r).len = len[r] + 1
                      /\ Outcome(c, r).computed \in Nat
                      /\ Outcome(c, r).computed <= slots[r]
  BY <1>3, OutcomeFits
<1> HIDE DEF done, final, freed
<1>5. \A r : Among(running', r) => Among(running, r) /\ r \notin final
  BY <1>1, AmongTheRest DEF QueueInv, QueueTypes
<1>6. Numeric
  BY DEF Steady
<1>7. ASSUME NEW r \in Requests
      PROVE  /\ len'[r] \in Nat /\ computed'[r] \in Nat /\ slots'[r] \in Nat
             /\ InPlace(r)' /\ Cached(r)'
  <2>1. /\ InPlace(r) /\ Cached(r)
        /\ len[r] \in Nat /\ computed[r] \in Nat /\ slots[r] \in Nat
    BY <1>6 DEF Steady, Numeric
  <2>2. /\ Waits(r)' => Waits(r)
        /\ Runs(r)' => Runs(r) /\ r \notin final
        /\ SwappedAway(r)' => SwappedAway(r)
    BY <1>2, <1>5 DEF Waits, Runs, SwappedAway
  <2>3. CASE r \in done
    <3>1. /\ len'[r] = len[r] + 1 /\ computed'[r] \in Nat /\ computed'[r] <= slots[r]
          /\ status[r] = "running"
          /\ status'[r] = IF r \in final THEN "finished" ELSE "running"
          /\ slots'[r] = IF r \in freed THEN 0 ELSE slots[r]
      BY <1>1, <1>4, <2>3
    <3>2. slots[r] <= len[r] /\ ~Waits(r) /\ ~SwappedAway(r)
      BY <2>1, <3>1 DEF Cached, InPlace
    <3>3. InPlace(r)'
      BY <2>2, <3>1, <3>2 DEF InPlace
    <3>4. Cached(r)'
      BY <1>3, <2>1, <3>1, <3>2 DEF Cached
    <3>5. len'[r] \in Nat /\ slots'[r] \in Nat
      BY <2>1, <3>1
    <3> QED
      BY <3>1, <3>3, <3>4, <3>5
  <2>4. CASE r \notin done
    <3>1. /\ len'[r] = len[r] /\ computed'[r] = computed[r]
          /\ status'[r] = status[r] /\ slots'[r] = slots[r]
      BY <1>1, <1>3, <2>4
    <3>2. InPlace(r)' /\ Cached(r)'
      BY <2>1, <2>2, <3>1, StaysCached, StaysInPlace
    <3> QED
      BY <2>1, <3>1, <3>2
  <2> QED
    BY <2>3, <2>4
<1>8. Numeric'
  <2>1. /\ DOMAIN len' = Requests /\ DOMAIN computed' = Requests
        /\ DOMAIN slots' = Requests
        /\ len' = [r \in Requests |-> len'[r]]
        /\ computed' = [r \in Requests |-> computed'[r]]
        /\ slots' = [r \in Requests |-> slots'[r]]
    BY <1>1
  <2> QED
    BY <1>7, <2>1 DEF Numeric
<1>9. ASSUME NEW e, EntryOK(e), e.req \notin Scheduled(flight[c])
      PROVE  EntryOK(e)'
  <2>1. e.req \in Requests /\ e.req \notin done
    BY <1>3, <1>9 DEF EntryOK
  <2>2. /\ computed'[e.req] = computed[e.req] /\ status'[e.req] = status[e.req]
        /\ slots'[e.req] = slots[e.req]
    BY <1>1, <1>3, <2>1
  <2> QED
    BY <1>9, <2>2, EntryStays
<1>10. \A e \in batch' : EntryOK(e)'
  <2> SUFFICES ASSUME NEW e \in batch PROVE EntryOK(e)'
    BY <1>2
  <2>1. e.req \notin Scheduled(flight[c])
    BY DEF FlightInv, NoDoubleFlight, Scheduled
  <2> QED
    BY <1>9, <2>1 DEF Steady
<1>11. ASSUME NEW d \in Ctxs, NEW e \in flight'[d] PROVE EntryOK(e)'
  <2>1. d # c /\ e \in flight[d]
    BY <1>2, <1>11 DEF FlightInv
  <2>2. e.req \notin Scheduled(flight[c])
    BY <2>1 DEF FlightInv, NoDoubleFlight, Scheduled
  <2> QED
    BY <1>9, <2>1, <2>2 DEF Steady
<1> QED
  BY <1>2, <1>7, <1>8, <1>10, <1>11 DEF Steady

LEMMA StillSteady ==
  ASSUME Steady, UNCHANGED vars
  PROVE  Steady'
<1>1. UNCHANGED <<waiting, running, swapped, reserve, preempted, swappedOut, swappedIn,
                  decodes, prefills, pc, batch, flight, sequences, raised>>
  BY DEF vars, queues, results
<1>2. \A r \in Requests : /\ Waits(r)' => Waits(r)
                          /\ Runs(r)' => Runs(r)
                          /\ SwappedAway(r)' => SwappedAway(r)
  BY <1>1 DEF Waits, Runs, SwappedAway
<1> QED
  BY <1>1, <1>2, QuietSteady

LEMMA InitSteady == Init => Steady
<1> SUFFICES ASSUME Init PROVE Steady
  OBVIOUS
<1>1. \A r : /\ ~Among(waiting, r) /\ ~Among(running, r) /\ ~Among(swapped, r)
             /\ ~Among(reserve, r)
  BY AmongNone DEF Init
<1>2. \A r \in Requests : InPlace(r)
  BY <1>1 DEF Init, InPlace, Waits, Runs, SwappedAway
<1>3. (\A r \in Requests : Cached(r)) /\ Numeric
  BY MolinkSchedulerAssumption DEF Init, Cached, Numeric
<1> QED
  BY <1>2, <1>3 DEF Init, Steady

LEMMA SwapSpaceSteady ==
  ASSUME QueueInv, Steady, SwapSpaceRunsOut
  PROVE  Steady'
<1>1. /\ pc = "running" /\ pc' = "idle" /\ batch' = {}
      /\ raised' = raised \cup {"swap space"}
      /\ UNCHANGED <<waiting, swapped, flight, sequences>>
  BY DEF SwapSpaceRunsOut, RunningTurn
<1>2. \A r : Among(running', r) => Among(running, r)
  BY LosesBothEnds, OccurrencesType DEF Among, QueueInv, QueueTypes
<1>3. \A r \in Requests : /\ Waits(r)' => Waits(r)
                          /\ Runs(r)' => Runs(r)
                          /\ SwappedAway(r)' => SwappedAway(r)
  BY <1>1, <1>2 DEF Waits, Runs, SwappedAway
<1>4. "assertion" \in raised' => "assertion" \in raised
  BY <1>1
<1> QED
  BY <1>1, <1>3, <1>4, QuietSteady

LEMMA StepSteady ==
  ASSUME QueueInv, FlightInv, Steady, [Next]_vars, ~snatched'
  PROVE  Steady'
<1>1. ASSUME NEW r \in Requests, AddRequest(r) \/ Abort(r) PROVE Steady'
  BY <1>1, AddRequestSteady, AbortSteady
<1>2. CASE Turn
  <2>1. CASE SkipRunning \/ PreemptLast \/ SwapSpaceRunsOut \/ EndRunning
    BY <2>1, SkipRunningSteady, PreemptsSomehow, RecomputeLastSteady,
       SwapOutLastSteady, SwapSpaceSteady, EndRunningSteady
  <2>2. CASE SkipSwapped \/ DropSwapped \/ EndSwapped
    BY <2>2, SkipSwappedSteady, DropSwappedSteady, EndSwappedSteady
  <2>3. CASE SkipWaiting \/ IgnorePrompt \/ FailAssertion \/ EndPrefills
    BY <2>3, SkipWaitingSteady, IgnorePromptSteady, AssertionsDoHold,
       EndPrefillsSteady
  <2>4. ASSUME NEW r \in Requests,
               ScheduleRunning(r) \/ SwapIn(r) \/ SchedulePrefill(r)
        PROVE  Steady'
    BY <2>4, ScheduleRunningSteady, SwapInSteady, SchedulePrefillSteady
  <2>5. CASE FinishPass
    BY <2>5, FinishPassSteady
  <2> QED
    BY <1>2, <2>1, <2>2, <2>3, <2>4, <2>5 DEF Turn
<1>3. ASSUME NEW c \in Ctxs, BeginPass(c) \/ Complete(c) \/ Fail(c) PROVE Steady'
  BY <1>3, BeginPassSteady, CompleteSteady, FailSteady
<1>4. CASE UNCHANGED vars
  BY <1>4, StillSteady
<1> QED
  BY <1>1, <1>2, <1>3, <1>4 DEF Next

(* Once a request has been preempted on the fly, it has been.              *)
LEMMA SnatchedStays == [Next]_vars => (snatched => snatched')
<1> SUFFICES ASSUME [Next]_vars PROVE snatched => snatched'
  OBVIOUS
<1>1. ASSUME NEW r \in Requests, AddRequest(r) \/ Abort(r) PROVE snatched' = snatched
  BY <1>1 DEF AddRequest, Abort
<1>2. CASE Turn
  <2>1. CASE PreemptLast
    BY <2>1 DEF PreemptLast
  <2>2. CASE SkipRunning \/ EndRunning \/ SkipSwapped \/ DropSwapped \/ EndSwapped
    BY <2>2 DEF SkipRunning, EndRunning, SkipSwapped, DropSwapped, EndSwapped
  <2>3. CASE \/ SkipWaiting \/ IgnorePrompt \/ FailAssertion \/ EndPrefills \/ FinishPass
           \/ SwapSpaceRunsOut
    BY <2>3 DEF SkipWaiting, IgnorePrompt, FailAssertion, EndPrefills, FinishPass,
                SwapSpaceRunsOut
  <2>4. ASSUME NEW r \in Requests,
               ScheduleRunning(r) \/ SwapIn(r) \/ SchedulePrefill(r)
        PROVE  snatched' = snatched
    BY <2>4 DEF ScheduleRunning, SwapIn, SchedulePrefill
  <2> QED
    BY <1>2, <2>1, <2>2, <2>3, <2>4 DEF Turn
<1>3. ASSUME NEW c \in Ctxs, BeginPass(c) \/ Complete(c) \/ Fail(c)
      PROVE  snatched' = snatched
  BY <1>3 DEF BeginPass, Complete, Fail
<1>4. CASE UNCHANGED vars
  BY <1>4 DEF vars
<1> QED
  BY <1>1, <1>2, <1>3, <1>4 DEF Next

(* A pass is in one of its loops, between them, or there is none.          *)
Loops == {"idle", "running", "swapped", "prefills", "finish"}

LEMMA StaysInLoops == [Next]_vars => (pc \in Loops => pc' \in Loops)
<1> SUFFICES ASSUME [Next]_vars, pc \in Loops PROVE pc' \in Loops
  OBVIOUS
<1>1. ASSUME NEW r \in Requests, AddRequest(r) \/ Abort(r) PROVE pc' \in Loops
  BY <1>1 DEF AddRequest, Abort
<1>2. CASE Turn
  <2>1. CASE SkipRunning \/ PreemptLast \/ SkipSwapped \/ DropSwapped
    BY <2>1 DEF SkipRunning, PreemptLast, SkipSwapped, DropSwapped
  <2>2. CASE EndRunning \/ EndSwapped \/ EndPrefills
    BY <2>2 DEF EndRunning, EndSwapped, EndPrefills, NextLoop, Loops
  <2>3. CASE SkipWaiting \/ IgnorePrompt \/ FailAssertion \/ FinishPass \/ SwapSpaceRunsOut
    BY <2>3 DEF SkipWaiting, IgnorePrompt, FailAssertion, FinishPass, SwapSpaceRunsOut,
                Loops
  <2>4. ASSUME NEW r \in Requests,
               ScheduleRunning(r) \/ SwapIn(r) \/ SchedulePrefill(r)
        PROVE  pc' \in Loops
    BY <2>4 DEF ScheduleRunning, SwapIn, SchedulePrefill
  <2> QED
    BY <1>2, <2>1, <2>2, <2>3, <2>4 DEF Turn
<1>3. ASSUME NEW c \in Ctxs, BeginPass(c) \/ Complete(c) \/ Fail(c)
      PROVE  pc' \in Loops
  BY <1>3 DEF BeginPass, Complete, Fail, Loops
<1>4. CASE UNCHANGED vars
  BY <1>4 DEF vars
<1> QED
  BY <1>1, <1>2, <1>3, <1>4 DEF Next

(* Whoever has ended is in no queue: each queue tells a status of the      *)
(* living.                                                                 *)
LEMMA SteadyIsSound ==
  ASSUME QueueInv, Steady, pc \in Loops
  PROVE  "assertion" \notin raised /\ EndedAreGone /\ ComputedIsCached
<1>1. ASSUME NEW r \in Requests, status[r] \notin Live PROVE Copies(r) = 0
  <2>1. ~Waits(r) /\ ~Runs(r) /\ ~SwappedAway(r)
    BY <1>1 DEF Steady, InPlace, Live
  <2>2. Countable(r) /\ PlaceOf(r)
    BY Numbers DEF QueueInv
  <2>3. /\ Occurrences(waiting, r) = 0 /\ Occurrences(running, r) = 0
        /\ Occurrences(swapped, r) = 0
    BY <2>1 DEF Waits, Runs, SwappedAway, Among
  <2>4. CASE pc = "idle"
    BY <2>3, <2>4 DEF Copies
  <2>5. CASE pc # "idle"
    <3>1. /\ Occurrences(preempted, r) = 0 /\ Occurrences(swappedOut, r) = 0
          /\ Occurrences(swappedIn, r) = 0 /\ Occurrences(decodes, r) = 0
          /\ Occurrences(prefills, r) = 0
      BY <2>1, <2>5 DEF Waits, Runs, SwappedAway, Among
    <3>2. Copies(r) = Occurrences(reserve, r)
      BY <2>2, <2>3, <2>5, <3>1 DEF Copies, Countable
    <3>3. Occurrences(reserve, r) = 0
      <4>1. CASE pc = "finish"
        BY <4>1, OccurrencesInEmpty DEF QueueInv
      <4>2. CASE pc \in {"running", "swapped", "prefills"}
        BY <2>1, <4>2 DEF Waits, Runs, SwappedAway, Among
      <4> QED
        BY <2>5, <4>1, <4>2 DEF Loops
    <3> QED
      BY <3>2, <3>3
  <2> QED
    BY <2>4, <2>5
<1> QED
  BY <1>1 DEF EndedAreGone, ComputedIsCached, Steady, Cached

(* Until a request is preempted while it is on the fly no assertion of a   *)
(* pass fails, whoever has ended is in no queue, and whatever is computed  *)
(* of a running request has its slots: for any number of requests,         *)
(* micro-batches and slots, with or without chunking, swapping and aborts  *)
(* (scheduler.py:267 is the preemption, :512 and :532 the assertions).     *)
THEOREM SoundTillSnatched == Spec => []SoundUntilSnatched
<1>1. Init => SteadyInv /\ pc \in Loops
  BY InitQueues, FlightInvInit, InitSteady DEF Init, SteadyInv, Loops
<1>2. SteadyInv /\ pc \in Loops /\ [Next]_vars => (SteadyInv /\ pc \in Loops)'
  <2> SUFFICES ASSUME SteadyInv, pc \in Loops, [Next]_vars
               PROVE  QueueInv' /\ FlightInv' /\ (snatched' \/ Steady') /\ pc' \in Loops
    BY DEF SteadyInv
  <2>1. QueueInv' /\ FlightInv' /\ pc' \in Loops
    BY StepKeepsQueues, FlightInvStep, StaysInLoops DEF SteadyInv
  <2>2. CASE ~snatched'
    <3>1. ~snatched
      BY <2>2, SnatchedStays
    <3>2. QueueInv /\ FlightInv /\ Steady
      BY <3>1 DEF SteadyInv
    <3> QED
      BY <2>1, <2>2, <3>2, StepSteady
  <2> QED
    BY <2>1, <2>2
<1>3. SteadyInv /\ pc \in Loops => SoundUntilSnatched
  BY SteadyIsSound DEF SteadyInv, SoundUntilSnatched
<1> QED
  BY <1>1, <1>2, <1>3, PTL DEF Spec

-----------------------------------------------------------------------------
(* OutputPlaceholders.                                                     *)
(* What a step under way can be.                                           *)
Step == UNION {[S -> Entry] : S \in SUBSET AsyncRequests}

LEMMA StepIs ==
  \A s : s \in Step <=> \E S \in SUBSET AsyncRequests : s \in [S -> Entry]
<1> QED
  BY DEF Step

LEMMA BringsNumber == ASSUME NEW s \in Step, NEW r PROVE Brings(s, r) \in Nat
<1>1. PICK S \in SUBSET AsyncRequests : s \in [S -> Entry]
  BY StepIs
<1>2. r \in DOMAIN s => s[r].spec \in Nat
  BY <1>1 DEF Entry
<1> QED
  BY <1>2 DEF Brings

LEMMA ColumnSize ==
  ASSUME NEW i, NEW b \in Nat
  PROVE  IsFiniteSet({i} \X (1..b)) /\ Cardinality({i} \X (1..b)) = b
<1>1. IsFiniteSet({i}) /\ Cardinality({i}) = 1
  BY FS_Singleton
<1>2. IsFiniteSet(1..b) /\ Cardinality(1..b) = b
  BY FS_Interval
<1>3. /\ IsFiniteSet({i} \X (1..b))
      /\ Cardinality({i} \X (1..b)) = Cardinality({i}) * Cardinality(1..b)
  BY <1>1, <1>2, FS_Product
<1> QED
  BY <1>1, <1>2, <1>3

LEMMA ApartAdd ==
  ASSUME NEW S, IsFiniteSet(S), NEW T, IsFiniteSet(T), S \cap T = {}
  PROVE  Cardinality(S \cup T) = Cardinality(S) + Cardinality(T)
<1>1. Cardinality(S \cup T) = Cardinality(S) + Cardinality(T) - Cardinality(S \cap T)
  BY FS_Union
<1>2. Cardinality(S \cap T) = 0
  BY FS_EmptySet
<1>3. Cardinality(S) \in Nat /\ Cardinality(T) \in Nat
  BY FS_CardinalityType
<1> QED
  BY <1>1, <1>2, <1>3

LEMMA TokensDueAre ==
  ASSUME NEW q, NEW r
  PROVE  \A x : x \in TokensDue(q, r) <=>
                  \E i \in DOMAIN q : \E k \in 1..Brings(q[i], r) : x = <<i, k>>
<1> QED
  BY DEF TokensDue

LEMMA TokensDueFinite ==
  ASSUME NEW q \in Seq(Step), NEW r
  PROVE  IsFiniteSet(TokensDue(q, r)) /\ Cardinality(TokensDue(q, r)) \in Nat
<1> DEFINE Column(i) == {i} \X (1..Brings(q[i], r))
           columns == {Column(i) : i \in DOMAIN q}
           f == [i \in DOMAIN q |-> Column(i)]
<1>1. IsFiniteSet(DOMAIN q)
  BY FS_Interval
<1>2. f \in Surjection(DOMAIN q, columns)
  <2>1. f \in [DOMAIN q -> columns]
    OBVIOUS
  <2>2. \A c \in columns : \E i \in DOMAIN q : f[i] = c
    OBVIOUS
  <2> HIDE DEF f, columns
  <2> QED
    BY <2>1, <2>2 DEF Surjection
<1>3. \A c \in columns : IsFiniteSet(c)
  <2> SUFFICES ASSUME NEW i \in DOMAIN q PROVE IsFiniteSet(Column(i))
    OBVIOUS
  <2>1. Brings(q[i], r) \in Nat
    BY BringsNumber
  <2> QED
    BY <2>1, ColumnSize
<1>4. TokensDue(q, r) = UNION columns
  BY DEF TokensDue
<1> HIDE DEF f, columns
<1>5. IsFiniteSet(columns)
  BY <1>1, <1>2, FS_Surjection
<1> QED
  BY <1>3, <1>4, <1>5, FS_UNION, FS_CardinalityType

LEMMA NothingDue ==
  ASSUME NEW q, NEW r, \A i \in DOMAIN q : Brings(q[i], r) = 0
  PROVE  Cardinality(TokensDue(q, r)) = 0
<1>1. TokensDue(q, r) = {}
  <2>1. \A i \in DOMAIN q : 1..Brings(q[i], r) = {}
    OBVIOUS
  <2> QED
    BY <2>1, TokensDueAre
<1> QED
  BY <1>1, FS_EmptySet

LEMMA DueAfterAppend ==
  ASSUME NEW q \in Seq(Step), NEW s \in Step, NEW r
  PROVE  Cardinality(TokensDue(Append(q, s), r))
           = Cardinality(TokensDue(q, r)) + Brings(s, r)
<1>1. PICK n \in Nat : n = Len(q)
  OBVIOUS
<1>2. PICK q2 : q2 = Append(q, s)
  OBVIOUS
<1>3. /\ DOMAIN q2 = 1..(n + 1) /\ DOMAIN q = 1..n /\ q2[n + 1] = s
      /\ \A i \in 1..n : q2[i] = q[i]
  BY <1>1, <1>2, AppendProperties, LenProperties
<1>4. PICK b \in Nat : b = Brings(s, r)
  BY BringsNumber
<1>5. PICK last : last = {n + 1} \X (1..b)
  OBVIOUS
<1>6. IsFiniteSet(last) /\ Cardinality(last) = b
  BY <1>5, ColumnSize
<1>7. PICK before : before = TokensDue(q, r)
  OBVIOUS
<1>8. PICK after : after = TokensDue(q2, r)
  OBVIOUS
<1>9. \A x : x \in before <=>
               \E i \in 1..n : \E k \in 1..Brings(q[i], r) : x = <<i, k>>
  BY <1>3, <1>7, TokensDueAre
<1>10. \A x : x \in after <=>
                \E i \in 1..(n + 1) : \E k \in 1..Brings(q2[i], r) : x = <<i, k>>
  BY <1>3, <1>8, TokensDueAre
<1>11. \A x : x \in last <=> \E k \in 1..b : x = <<n + 1, k>>
  BY <1>5
<1>12. \A x : x \in after <=> x \in before \/ x \in last
  <2>1. \A i \in 1..(n + 1) : i \in 1..n \/ i = n + 1
    OBVIOUS
  <2>2. n + 1 \in 1..(n + 1) /\ \A i \in 1..n : i \in 1..(n + 1)
    OBVIOUS
  <2>3. ASSUME NEW x \in after PROVE x \in before \/ x \in last
    <3>1. PICK i \in 1..(n + 1) : \E k \in 1..Brings(q2[i], r) : x = <<i, k>>
      BY <1>10
    <3>2. CASE i \in 1..n
      BY <1>3, <1>9, <3>1, <3>2
    <3>3. CASE i = n + 1
      BY <1>3, <1>4, <1>11, <3>1, <3>3
    <3> QED
      BY <2>1, <3>2, <3>3
  <2>4. ASSUME NEW x \in before PROVE x \in after
    <3>1. PICK i \in 1..n : \E k \in 1..Brings(q[i], r) : x = <<i, k>>
      BY <1>9
    <3>2. i \in 1..(n + 1) /\ q2[i] = q[i]
      BY <1>3, <2>2
    <3> QED
      BY <1>10, <3>1, <3>2
  <2>5. ASSUME NEW x \in last PROVE x \in after
    <3>1. PICK k \in 1..b : x = <<n + 1, k>>
      BY <1>11
    <3>2. k \in 1..Brings(q2[n + 1], r)
      BY <1>3, <1>4, <3>1
    <3> QED
      BY <1>10, <3>1, <3>2, <2>2
  <2> QED
    BY <2>3, <2>4, <2>5
<1>13. after = before \cup last
  BY <1>12
<1>14. before \cap last = {}
  <2> SUFFICES ASSUME NEW x \in before, x \in last PROVE FALSE
    OBVIOUS
  <2>1. PICK i \in 1..n : \E k \in 1..Brings(q[i], r) : x = <<i, k>>
    BY <1>9
  <2>2. PICK m \in 1..b : x = <<n + 1, m>>
    BY <1>11
  <2>3. i = n + 1
    BY <2>1, <2>2
  <2> QED
    BY <2>3
<1>15. IsFiniteSet(before) /\ Cardinality(before) \in Nat
  BY <1>7, TokensDueFinite
<1>16. Cardinality(after) = Cardinality(before) + b
  BY <1>6, <1>13, <1>14, <1>15, ApartAdd
<1> QED
  BY <1>2, <1>4, <1>7, <1>8, <1>16

LEMMA DueAfterTail ==
  ASSUME NEW q \in Seq(Step), q # <<>>, NEW r
  PROVE  /\ Head(q) \in Step /\ Tail(q) \in Seq(Step)
         /\ Cardinality(TokensDue(q, r))
              = Brings(Head(q), r) + Cardinality(TokensDue(Tail(q), r))
<1>1. PICK n \in Nat : n + 1 = Len(q)
  <2>1. Len(q) \in Nat /\ Len(q) # 0
    BY EmptySeq
  <2> QED
    BY <2>1
<1>2. PICK t, h : t = Tail(q) /\ h = Head(q)
  OBVIOUS
<1>3. /\ DOMAIN q = 1..(n + 1) /\ DOMAIN t = 1..n /\ q[1] = h
      /\ \A i \in 1..n : t[i] = q[i + 1]
      /\ h \in Step /\ t \in Seq(Step)
  BY <1>1, <1>2, HeadTailProperties, LenProperties
<1>4. PICK b \in Nat : b = Brings(h, r)
  BY <1>3, BringsNumber
<1>5. PICK first : first = {1} \X (1..b)
  OBVIOUS
<1>6. IsFiniteSet(first) /\ Cardinality(first) = b
  BY <1>5, ColumnSize
<1>7. PICK all, rest, late :
        /\ all = TokensDue(q, r) /\ rest = TokensDue(t, r)
        /\ late = {x \in all : x[1] # 1}
  OBVIOUS
<1>8. \A x : x \in rest <=>
               \E i \in 1..n : \E k \in 1..Brings(t[i], r) : x = <<i, k>>
  <2>1. \A x : x \in TokensDue(t, r) <=>
                 \E i \in DOMAIN t : \E k \in 1..Brings(t[i], r) : x = <<i, k>>
    BY TokensDueAre
  <2> QED
    BY <1>3, <1>7, <2>1
<1>9. \A x : x \in all <=>
               \E i \in 1..(n + 1) : \E k \in 1..Brings(q[i], r) : x = <<i, k>>
  <2>1. \A x : x \in TokensDue(q, r) <=>
                 \E i \in DOMAIN q : \E k \in 1..Brings(q[i], r) : x = <<i, k>>
    BY TokensDueAre
  <2> QED
    BY <1>3, <1>7, <2>1
<1>10. \A x : x \in first <=> \E k \in 1..b : x = <<1, k>>
  BY <1>5
<1>11. IsFiniteSet(rest) /\ IsFiniteSet(all)
  BY <1>3, <1>7, TokensDueFinite
<1>12. all = first \cup late /\ first \cap late = {}
  <2>1. ASSUME NEW x \in all, x \notin late PROVE x \in first
    <3>1. PICK i \in 1..(n + 1) : \E k \in 1..Brings(q[i], r) : x = <<i, k>>
      BY <1>9
    <3>2. i = 1
      BY <1>7, <2>1, <3>1
    <3> QED
      BY <1>3, <1>4, <1>10, <3>1, <3>2
  <2>2. ASSUME NEW x \in first PROVE x \in all /\ x \notin late
    <3>1. PICK k \in 1..b : x = <<1, k>>
      BY <1>10
    <3>2. 1 \in 1..(n + 1) /\ k \in 1..Brings(q[1], r)
      BY <1>3, <1>4, <3>1
    <3> QED
      BY <1>7, <1>9, <3>1, <3>2
  <2>3. \A x \in late : x \in all
    BY <1>7
  <2> QED
    BY <2>1, <2>2, <2>3
<1>13. ExistsBijection(rest, late)
  <2> DEFINE f == [x \in rest |-> <<x[1] + 1, x[2]>>]
  <2>1. \A x \in rest : /\ x = <<x[1], x[2]>> /\ x[1] \in 1..n
                         /\ x[2] \in 1..Brings(t[x[1]], r)
    BY <1>8
  <2>2. f \in [rest -> late]
    <3> SUFFICES ASSUME NEW x \in rest PROVE <<x[1] + 1, x[2]>> \in late
      OBVIOUS
    <3>1. x[1] + 1 \in 1..(n + 1) /\ x[2] \in 1..Brings(q[x[1] + 1], r) /\ x[1] + 1 # 1
      BY <2>1, <1>3
    <3>2. <<x[1] + 1, x[2]>> \in all
      BY <3>1, <1>9
    <3> QED
      BY <3>1, <3>2, <1>7
  <2>3. \A x, y \in DOMAIN f : f[x] = f[y] => x = y
    <3> SUFFICES ASSUME NEW x \in rest, NEW y \in rest,
                        <<x[1] + 1, x[2]>> = <<y[1] + 1, y[2]>>
                 PROVE  x = y
      OBVIOUS
    <3>1. x[1] + 1 = y[1] + 1 /\ x[2] = y[2]
      OBVIOUS
    <3>2. x[1] \in Int /\ y[1] \in Int
      BY <2>1
    <3>3. x[1] = y[1]
      BY <3>1, <3>2
    <3> QED
      BY <3>1, <3>3, <2>1
  <2>4. \A y \in late : \E x \in DOMAIN f : f[x] = y
    <3> SUFFICES ASSUME NEW y \in late PROVE \E x \in rest : f[x] = y
      OBVIOUS
    <3>1. PICK i \in 1..(n + 1) : \E k \in 1..Brings(q[i], r) : y = <<i, k>>
      BY <1>7, <1>9
    <3>2. i # 1
      BY <1>7, <3>1
    <3>3. i - 1 \in 1..n /\ (i - 1) + 1 = i
      BY <3>2
    <3>4. PICK k \in 1..Brings(q[i], r) : y = <<i, k>>
      BY <3>1
    <3>5. k \in 1..Brings(t[i - 1], r)
      BY <1>3, <3>3, <3>4
    <3>6. <<i - 1, k>> \in rest
      BY <1>8, <3>3, <3>5
    <3>7. f[<<i - 1, k>>] = <<i, k>>
      BY <3>3, <3>6
    <3> QED
      BY <3>4, <3>6, <3>7
  <2> HIDE DEF f
  <2> QED
    BY <2>2, <2>3, <2>4, OntoIsBijection
<1>14. Cardinality(late) = Cardinality(rest) /\ IsFiniteSet(late)
  BY <1>11, <1>13, FS_Bijection
<1>15. Cardinality(all) = b + Cardinality(late)
  BY <1>6, <1>12, <1>14, ApartAdd
<1> QED
  BY <1>2, <1>3, <1>4, <1>7, <1>14, <1>15
-----------------------------------------------------------------------------
(* What is known of an unfinished request.  While it runs, all but the     *)
(* last of the tokens it has or waits for are computed; preempted, it has  *)
(* none, and may still wait for the older of two steps under way, from     *)
(* which the next output frees it before another step can take it in.      *)
Owed(r) ==
    /\ num_tokens[r] < PromptLen + MaxTokens
    /\ request_status[r] = "running" /\ num_output_placeholders[r] > 0 =>
         num_computed_tokens[r] = num_tokens[r] + num_output_placeholders[r] - 1
    /\ request_status[r] = "preempted" =>
         /\ num_computed_tokens[r] = 0
         /\ num_output_placeholders[r] > 0 =>
              Len(batch_queue) = 2 /\ r \notin DOMAIN batch_queue[2]
AsyncInv ==
    /\ PlaceholdersAreDue
    /\ batch_queue \in Seq(Step)
    /\ Len(batch_queue) <= MaxOutstanding
    /\ \A r \in Unfinished : Owed(r)

LEMMA AsyncInvInit == AsyncInit => AsyncInv
<1> SUFFICES ASSUME AsyncInit PROVE AsyncInv
  OBVIOUS
<1>1. batch_queue = <<>> /\ batch_queue \in Seq(Step) /\ Len(batch_queue) = 0
  BY DEF AsyncInit
<1>2. PlaceholderTypeOK
  BY OutputPlaceholdersAssumption DEF AsyncInit, PlaceholderTypeOK
<1>3. \A r : Cardinality(TokensDue(batch_queue, r)) = 0
  BY <1>1, NothingDue
<1>4. CountsAreDue
  BY <1>3 DEF CountsAreDue, Due, Unfinished, AsyncInit
<1>5. KnownTokensCached
  BY OutputPlaceholdersAssumption DEF KnownTokensCached, AsyncInit
<1>6. \A r \in Unfinished : Owed(r)
  BY OutputPlaceholdersAssumption DEF Unfinished, Owed, AsyncInit
<1> QED
  BY <1>1, <1>2, <1>4, <1>5, <1>6, OutputPlaceholdersAssumption
  DEF AsyncInv, PlaceholdersAreDue

LEMMA MaxWithZero == ASSUME NEW x \in Int PROVE Max({0, x}) = IF x > 0 THEN x ELSE 0
<1> DEFINE m == IF x > 0 THEN x ELSE 0
<1>1. m \in {0, x} /\ \A y \in {0, x} : m >= y
  OBVIOUS
<1>2. \A n \in {0, x} : (\A y \in {0, x} : n >= y) => n = m
  BY <1>1
<1> HIDE DEF m
<1>3. Max({0, x}) = m
  BY <1>1, <1>2 DEF Max
<1> QED
  BY <1>3 DEF m

LEMMA MinOfTwo ==
  ASSUME NEW a \in Int, NEW b \in Int
  PROVE  Min({a, b}) = IF a < b THEN a ELSE b
<1> DEFINE m == IF a < b THEN a ELSE b
<1>1. m \in {a, b} /\ \A y \in {a, b} : m <= y
  OBVIOUS
<1>2. \A n \in {a, b} : (\A y \in {a, b} : n <= y) => n = m
  BY <1>1
<1> HIDE DEF m
<1>3. Min({a, b}) = m
  BY <1>1, <1>2 DEF Min
<1> QED
  BY <1>3 DEF m

-----------------------------------------------------------------------------
(* A request in a step: it samples exactly when all it has, its            *)
(* placeholders and its drafts are computed, which a running request that  *)
(* waits for tokens always has.                                            *)
LEMMA EntryIs ==
  ASSUME PlaceholderTypeOK, NEW r \in AsyncRequests, Owed(r),
         request_status[r] # "finished",
         request_status[r] = "preempted" => num_output_placeholders[r] = 0,
         NEW n \in Nat, n > 0, n <= Outstanding(r),
         NEW reached,
         reached = n + IF request_status[r] = "running" THEN num_computed_tokens[r] ELSE 0,
         NEW e, e = EntryOf(r, n)
  PROVE  /\ e \in Entry /\ reached \in Nat
         /\ e.samples <=>
              reached = num_tokens[r] + num_output_placeholders[r] + e.spec
         /\ ~e.samples => num_output_placeholders[r] = 0
<1>1. /\ num_tokens[r] \in Nat /\ num_computed_tokens[r] \in Nat
      /\ num_output_placeholders[r] \in Nat /\ spec_token_ids[r] \in Nat
  BY OutputPlaceholdersAssumption DEF PlaceholderTypeOK
<1>2. PICK t \in Nat, c \in Nat, p \in Nat :
        t = num_tokens[r] /\ c = num_computed_tokens[r] /\ p = num_output_placeholders[r]
  BY <1>1
<1>3. PICK k \in Nat : k = Known(r) /\ k = t + p
  <2>1. Known(r) = t + p
    BY <1>2 DEF Known, PlaceholderTypeOK
  <2> QED
    BY <2>1
<1>4. reached \in Nat
  BY <1>2
<1>5. PICK d \in Int : d = reached - k
  BY <1>4
<1>6. PICK m : m = Max({0, d})
  OBVIOUS
<1>7. m = IF d > 0 THEN d ELSE 0
  BY <1>6, MaxWithZero
<1>8. e = [tokens |-> n, spec |-> m, samples |-> reached >= k]
  BY <1>3, <1>5, <1>6 DEF EntryOf
<1>9. m \in Nat /\ (reached >= k <=> reached = k + m)
  BY <1>4, <1>5, <1>7
<1>10. e \in Entry
  BY <1>8, <1>9 DEF Entry
<1>11. e.samples <=> reached >= k
  BY ONLY <1>8, Zenon
<1>12. ASSUME p > 0 PROVE e.samples
  <2>1. request_status[r] = "running" /\ c = t + p - 1
    BY <1>2, <1>12 DEF Owed, PlaceholderTypeOK
  <2>2. reached = n + c
    BY <1>2, <2>1
  <2>3. reached >= k
    BY <1>3, <2>1, <2>2
  <2> QED
    BY <1>11, <2>3
<1>13. e.spec = m
  BY <1>8
<1>14. e.samples <=> reached = t + p + e.spec
  BY <1>3, <1>9, <1>11, <1>13
<1> QED
  BY <1>2, <1>4, <1>10, <1>12, <1>14

LEMMA ScheduleKeepsDue ==
  ASSUME MaxOutstanding <= 2, AsyncInv,
         NEW chosen \in SUBSET AsyncRequests, NEW dropped \in SUBSET AsyncRequests,
         Schedule(chosen, dropped)
  PROVE  AsyncInv'
<1>1. PICK amounts \in [chosen -> 1..(PromptLen + MaxTokens + NumSpec)] :
        /\ \A r \in chosen : amounts[r] =< Outstanding(r)
        /\ LET step == [r \in chosen |-> EntryOf(r, amounts[r])]
               reached == [r \in AsyncRequests |->
                   IF r \in dropped THEN 0
                   ELSE IF r \notin chosen THEN num_computed_tokens[r]
                   ELSE amounts[r] + IF request_status[r] = "running"
                                     THEN num_computed_tokens[r] ELSE 0]
           IN  /\ batch_queue' = Append(batch_queue, step)
               /\ num_computed_tokens' = reached
               /\ AfterSchedule(step, reached)
  BY DEF Schedule
<1>2. PICK step : step = [r \in chosen |-> EntryOf(r, amounts[r])]
  OBVIOUS
<1>3. PICK reached : reached = [r \in AsyncRequests |->
          IF r \in dropped THEN 0
          ELSE IF r \notin chosen THEN num_computed_tokens[r]
          ELSE amounts[r] + IF request_status[r] = "running"
                            THEN num_computed_tokens[r] ELSE 0]
  OBVIOUS
<1>4. /\ batch_queue' = Append(batch_queue, step) /\ num_computed_tokens' = reached
      /\ AfterSchedule(step, reached)
  BY <1>1, <1>2, <1>3
<1>5. /\ Len(batch_queue) < MaxOutstanding /\ Len(batch_queue) \in Nat
      /\ batch_queue \in Seq(Step)
      /\ chosen \subseteq Unfinished
      /\ dropped \subseteq {r \in Unfinished : request_status[r] = "running"} \ chosen
      /\ request_status' = [r \in AsyncRequests |->
           IF r \in dropped THEN "preempted"
           ELSE IF r \in chosen THEN "running" ELSE request_status[r]]
      /\ num_tokens' = num_tokens /\ cached' = cached
  BY LenProperties DEF Schedule, AsyncInv
<1>6. PlaceholderTypeOK /\ CountsAreDue /\ KnownTokensCached
      /\ \A r \in Unfinished : Owed(r)
  BY DEF AsyncInv, PlaceholdersAreDue
<1>7. \A r \in AsyncRequests :
         /\ num_tokens[r] \in Nat /\ num_computed_tokens[r] \in Nat
         /\ num_output_placeholders[r] \in Nat /\ spec_token_ids[r] \in 0..NumSpec
         /\ request_status[r] \in {"running", "preempted", "finished"}
  BY <1>6, OutputPlaceholdersAssumption DEF PlaceholderTypeOK
<1>8. Len(batch_queue) < 2
  BY <1>5, OutputPlaceholdersAssumption
<1>9. \A r \in Unfinished :
         request_status[r] = "preempted" => num_output_placeholders[r] = 0
  BY <1>6, <1>7, <1>8 DEF Owed, Unfinished
<1>10. \A r \in chosen :
         /\ step[r] \in Entry /\ reached[r] \in Nat
         /\ step[r].samples <=>
              reached[r] = num_tokens[r] + num_output_placeholders[r] + step[r].spec
         /\ ~step[r].samples => num_output_placeholders[r] = 0
  <2> SUFFICES ASSUME NEW r \in chosen
               PROVE  /\ step[r] \in Entry /\ reached[r] \in Nat
                      /\ step[r].samples <=>
                           reached[r] = num_tokens[r] + num_output_placeholders[r]
                                          + step[r].spec
                      /\ ~step[r].samples => num_output_placeholders[r] = 0
    OBVIOUS
  <2>1. r \in AsyncRequests /\ r \in Unfinished /\ r \notin dropped /\ Owed(r)
        /\ request_status[r] # "finished"
    BY <1>5, <1>6 DEF Unfinished
  <2>2. amounts[r] \in Nat /\ amounts[r] > 0 /\ amounts[r] <= Outstanding(r)
    BY <1>1, OutputPlaceholdersAssumption
  <2>3. reached[r] = amounts[r] + IF request_status[r] = "running"
                                   THEN num_computed_tokens[r] ELSE 0
    BY <1>3, <2>1
  <2>4. step[r] = EntryOf(r, amounts[r])
    BY <1>2
  <2> QED
    BY <1>6, <1>9, <2>1, <2>2, <2>3, <2>4, EntryIs
<1>11. DOMAIN step = chosen /\ step \in [chosen -> Entry] /\ step \in Step
  <2>1. DOMAIN step = chosen /\ step \in [chosen -> Entry]
    BY <1>2, <1>10
  <2> QED
    BY <2>1, StepIs
<1>12. \A r : Brings(step, r) \in Nat
  BY <1>11, BringsNumber
<1>13. /\ num_output_placeholders' \in [AsyncRequests -> Nat]
       /\ \A r \in AsyncRequests :
            num_output_placeholders'[r] = num_output_placeholders[r] + Brings(step, r)
  <2> DEFINE CatchesUp(r) ==
               /\ r \in DOMAIN step
               /\ reached[r] = num_tokens[r] + num_output_placeholders[r] + step[r].spec
  <2>1. num_output_placeholders' = [r \in AsyncRequests |->
            IF CatchesUp(r) THEN num_output_placeholders[r] + 1 + step[r].spec
            ELSE num_output_placeholders[r]]
    BY <1>4 DEF AfterSchedule
  <2>2. \A r : CatchesUp(r) <=> r \in DOMAIN step /\ step[r].samples
    BY <1>10, <1>11
  <2> HIDE DEF CatchesUp
  <2>3. \A r \in AsyncRequests :
          num_output_placeholders'[r] = num_output_placeholders[r] + Brings(step, r)
    <3> SUFFICES ASSUME NEW r \in AsyncRequests
                 PROVE  num_output_placeholders'[r]
                          = num_output_placeholders[r] + Brings(step, r)
      OBVIOUS
    <3>1. CASE CatchesUp(r)
      <4>1. Brings(step, r) = 1 + step[r].spec /\ step[r].spec \in Nat
        BY <1>11, <2>2, <3>1 DEF Brings, Entry
      <4> QED
        BY <1>7, <2>1, <3>1, <4>1
    <3>2. CASE ~CatchesUp(r)
      BY <1>7, <2>1, <2>2, <3>2 DEF Brings
    <3> QED
      BY <3>1, <3>2
  <2>4. \A r \in AsyncRequests : num_output_placeholders'[r] \in Nat
    BY <1>7, <1>12, <2>3
  <2> QED
    BY <2>1, <2>3, <2>4
<1>14. spec_token_ids' \in [AsyncRequests -> 0..NumSpec]
  BY <1>4, <1>7, OutputPlaceholdersAssumption DEF AfterSchedule
<1>15. reached \in [AsyncRequests -> Nat]
  BY <1>3, <1>7, <1>10
<1>16. /\ batch_queue' \in Seq(Step) /\ Len(batch_queue') = Len(batch_queue) + 1
       /\ batch_queue'[Len(batch_queue) + 1] = step
  BY <1>4, <1>5, <1>11, AppendProperties
<1>17. PlaceholderTypeOK'
  <2>1. \A i \in DOMAIN batch_queue' :
          batch_queue'[i] \in [DOMAIN batch_queue'[i] -> Entry]
    BY <1>16, StepIs
  <2>2. request_status' \in [AsyncRequests -> {"running", "preempted", "finished"}]
    BY <1>5, <1>7
  <2> QED
    BY <1>4, <1>5, <1>6, <1>13, <1>14, <1>15, <2>1, <2>2 DEF PlaceholderTypeOK
<1>18. Unfinished' = Unfinished
  BY <1>5 DEF Unfinished
<1>19. CountsAreDue'
  <2> SUFFICES ASSUME NEW r \in Unfinished
               PROVE  num_output_placeholders'[r] = Due(r)'
    BY <1>18 DEF CountsAreDue
  <2>1. Cardinality(TokensDue(Append(batch_queue, step), r))
          = Cardinality(TokensDue(batch_queue, r)) + Brings(step, r)
    BY <1>5, <1>11, DueAfterAppend
  <2>2. Due(r)' = Due(r) + Brings(step, r)
    BY <1>4, <2>1 DEF Due
  <2> QED
    BY <1>6, <1>13, <2>2 DEF CountsAreDue, Unfinished
<1>20. KnownTokensCached'
  BY <1>5, <1>6 DEF KnownTokensCached
<1>21. ASSUME NEW r \in Unfinished PROVE Owed(r)'
  <2> PICK t, p, p2, c, c2 :
        /\ t = num_tokens[r] /\ p = num_output_placeholders[r] /\ c = num_computed_tokens[r]
        /\ p2 = num_output_placeholders'[r] /\ c2 = num_computed_tokens'[r]
    OBVIOUS
  <2>1. r \in AsyncRequests /\ t \in Nat /\ p \in Nat /\ c \in Nat /\ Owed(r)
        /\ request_status[r] \in {"running", "preempted"}
    BY <1>6, <1>7 DEF Unfinished
  <2>2. t < PromptLen + MaxTokens
    BY <2>1 DEF Owed
  <2>3. p2 = p + Brings(step, r)
    BY <1>13, <2>1
  <2>4. CASE r \in dropped
    <3>1. request_status'[r] = "preempted" /\ c2 = 0 /\ r \notin chosen
      BY <1>3, <1>4, <1>5, <2>1, <2>4
    <3>2. p2 = p
      BY <1>11, <2>1, <2>3, <3>1 DEF Brings
    <3>3. p > 0 => Len(batch_queue) # 0
      <4>1. ASSUME Len(batch_queue) = 0 PROVE p = 0
        <5>1. DOMAIN batch_queue = {}
          BY <1>5, <4>1, LenProperties
        <5>2. Cardinality(TokensDue(batch_queue, r)) = 0
          BY <5>1, NothingDue
        <5> QED
          BY <1>6, <5>2 DEF CountsAreDue, Due
      <4> QED
        BY <4>1
    <3>4. p > 0 => Len(batch_queue') = 2 /\ batch_queue'[2] = step
      BY <1>5, <1>8, <1>16, <3>3
    <3> QED
      BY <1>5, <1>11, <2>2, <3>1, <3>2, <3>4 DEF Owed
  <2>5. CASE r \in chosen
    <3>1. request_status'[r] = "running" /\ c2 = reached[r] /\ step[r].spec \in Nat
      BY <1>4, <1>5, <1>10, <2>1, <2>5 DEF Entry
    <3>2. CASE step[r].samples
      <4>1. c2 = t + p + step[r].spec
        BY <1>10, <2>5, <3>1, <3>2
      <4>2. p2 = p + (1 + step[r].spec)
        BY <1>11, <2>3, <2>5, <3>2 DEF Brings
      <4>3. c2 = t + p2 - 1
        BY <2>1, <3>1, <4>1, <4>2
      <4> QED
        BY <1>5, <2>2, <3>1, <4>3 DEF Owed
    <3>3. CASE ~step[r].samples
      <4>1. p2 = 0
        BY <1>10, <1>11, <2>1, <2>3, <2>5, <3>3 DEF Brings
      <4> QED
        BY <1>5, <2>2, <3>1, <4>1 DEF Owed
    <3> QED
      BY <3>2, <3>3
  <2>6. CASE r \notin dropped /\ r \notin chosen
    <3>1. request_status'[r] = request_status[r] /\ c2 = c
      BY <1>3, <1>4, <1>5, <2>1, <2>6
    <3>2. p2 = p
      BY <1>11, <2>1, <2>3, <2>6 DEF Brings
    <3>3. request_status[r] = "preempted" => p = 0
      BY <1>9
    <3> QED
      BY <1>5, <2>1, <3>1, <3>2, <3>3 DEF Owed
  <2> QED
    BY <2>4, <2>5, <2>6
<1> QED
  BY <1>5, <1>16, <1>17, <1>18, <1>19, <1>20, <1>21, OutputPlaceholdersAssumption
  DEF AsyncInv, PlaceholdersAreDue

LEMMA UpdateKeepsDue ==
  ASSUME MaxOutstanding <= 2, AsyncInv, Update
  PROVE  AsyncInv'
<1>1. /\ PlaceholderTypeOK /\ CountsAreDue /\ KnownTokensCached
      /\ batch_queue \in Seq(Step) /\ batch_queue # <<>>
      /\ Len(batch_queue) <= 2 /\ Len(batch_queue) \in Nat
      /\ \A r \in Unfinished : Owed(r)
  BY LenProperties, OutputPlaceholdersAssumption DEF AsyncInv, PlaceholdersAreDue, Update
<1> DEFINE oldest == Head(batch_queue)
           heard == {r \in DOMAIN oldest \cap Unfinished : oldest[r].samples}
<1>2. PICK accepted \in [heard -> 0..NumSpec], ended \in SUBSET heard :
        LET New(r) == Min({accepted[r] + 1, PromptLen + MaxTokens - num_tokens[r]})
            left == [r \in heard |->
                        PlaceholdersLeft(r, oldest[r], accepted[r], New(r))]
        IN  /\ \A r \in heard : accepted[r] =< oldest[r].spec
            /\ num_tokens' = [r \in AsyncRequests |->
                 num_tokens[r] + IF r \in heard THEN New(r) ELSE 0]
            /\ num_output_placeholders' = [r \in AsyncRequests |->
                 IF r \in heard THEN left[r]
                 ELSE num_output_placeholders[r]]
            /\ num_computed_tokens' = [r \in AsyncRequests |->
                 IF r \in heard
                 THEN TakeBack(num_computed_tokens[r],
                               oldest[r].spec - accepted[r])
                 ELSE num_computed_tokens[r]]
            /\ cached' = [r \in AsyncRequests |->
                 IF r \in heard /\ request_status[r] = "running"
                 THEN CachedTokens(r, oldest[r], accepted[r], left[r])
                 ELSE cached[r]]
            /\ request_status' = [r \in AsyncRequests |->
                 IF /\ r \in heard
                    /\ \/ r \in ended
                       \/ num_tokens'[r] = PromptLen + MaxTokens
                 THEN "finished" ELSE request_status[r]]
  BY DEF Update
<1>3. PICK step, rest, answered :
        step = oldest /\ rest = Tail(batch_queue) /\ answered = heard
  OBVIOUS
<1>4. /\ step = Head(batch_queue) /\ rest = Tail(batch_queue)
      /\ answered = {r \in DOMAIN step \cap Unfinished : step[r].samples}
  BY <1>3
<1> HIDE DEF oldest, heard
<1> DEFINE New(r) == Min({accepted[r] + 1, PromptLen + MaxTokens - num_tokens[r]})
           Left(r) == PlaceholdersLeft(r, step[r], accepted[r], New(r))
<1>5. /\ \A r \in answered : accepted[r] \in 0..NumSpec /\ accepted[r] <= step[r].spec
      /\ num_tokens' = [r \in AsyncRequests |->
           num_tokens[r] + IF r \in answered THEN New(r) ELSE 0]
      /\ num_output_placeholders' = [r \in AsyncRequests |->
           IF r \in answered THEN Left(r) ELSE num_output_placeholders[r]]
      /\ num_computed_tokens' = [r \in AsyncRequests |->
           IF r \in answered
           THEN TakeBack(num_computed_tokens[r], step[r].spec - accepted[r])
           ELSE num_computed_tokens[r]]
      /\ cached' = [r \in AsyncRequests |->
           IF r \in answered /\ request_status[r] = "running"
           THEN CachedTokens(r, step[r], accepted[r], Left(r)) ELSE cached[r]]
      /\ request_status' = [r \in AsyncRequests |->
           IF r \in answered /\ (r \in ended \/ num_tokens'[r] = PromptLen + MaxTokens)
           THEN "finished" ELSE request_status[r]]
  BY <1>2, <1>3
<1>6. batch_queue' = rest /\ spec_token_ids' = spec_token_ids
  BY <1>4 DEF Update
<1>7. /\ step \in Step /\ rest \in Seq(Step)
      /\ \A r : Cardinality(TokensDue(batch_queue, r))
                 = Brings(step, r) + Cardinality(TokensDue(rest, r))
      /\ \A r : Cardinality(TokensDue(rest, r)) \in Nat
  BY <1>1, <1>4, DueAfterTail, TokensDueFinite
<1>8. \A r \in AsyncRequests :
         /\ num_tokens[r] \in PromptLen..(PromptLen + MaxTokens)
         /\ num_tokens[r] \in Nat /\ num_tokens[r] > 0
         /\ num_computed_tokens[r] \in Nat
         /\ num_output_placeholders[r] \in Nat /\ cached[r] \in Nat
         /\ request_status[r] \in {"running", "preempted", "finished"}
         /\ cached[r] <= num_tokens[r]
  BY <1>1, OutputPlaceholdersAssumption DEF PlaceholderTypeOK, KnownTokensCached
<1>9. answered \subseteq Unfinished /\ Unfinished \subseteq AsyncRequests
  BY <1>4 DEF Unfinished
(* With a single step under way behind it, which does not hold a preempted *)
(* request, that request waits for nothing any more.                       *)
<1>10. ASSUME NEW r \in Unfinished, request_status[r] = "preempted",
              num_output_placeholders[r] > 0
       PROVE  Cardinality(TokensDue(rest, r)) = 0 /\ r \in answered
  <2>1. Len(batch_queue) = 2 /\ r \notin DOMAIN batch_queue[2]
    BY <1>1, <1>10 DEF Owed
  <2>2. DOMAIN rest = {1} /\ rest[1] = batch_queue[2]
    <3>1. Len(rest) = 1 /\ rest[1] = batch_queue[2]
      <4>1. PICK q \in Seq(Step) : q = batch_queue
        BY <1>1
      <4>2. /\ Len(q) = 2 /\ q # <<>> /\ Len(Tail(q)) = Len(q) - 1
            /\ \A i \in 1..(Len(q) - 1) : Tail(q)[i] = q[i + 1]
        BY <1>1, <2>1, <4>1, HeadTailProperties
      <4>3. Len(rest) = Len(q) - 1 /\ \A i \in 1..(Len(q) - 1) : rest[i] = q[i + 1]
        BY <1>4, <4>1, <4>2
      <4>4. 1 \in 1..(Len(q) - 1) /\ 1 + 1 = 2
        BY <4>2
      <4>5. rest[1] = q[2]
        BY <4>3, <4>4
      <4> QED
        BY <4>1, <4>2, <4>3, <4>5
    <3> QED
      BY <1>7, <3>1, LenProperties
  <2>3. Brings(rest[1], r) = 0
    BY <2>1, <2>2 DEF Brings
  <2>4. Cardinality(TokensDue(rest, r)) = 0
    BY <2>2, <2>3, NothingDue
  <2>5. Brings(step, r) # 0
    <3>1. num_output_placeholders[r] = Cardinality(TokensDue(batch_queue, r))
      BY <1>1 DEF CountsAreDue, Due
    <3> QED
      BY <1>7, <1>10, <2>4, <3>1
  <2> QED
    BY <1>4, <2>4, <2>5 DEF Brings
<1>11. ASSUME NEW r \in answered
       PROVE  /\ num_tokens'[r] \in PromptLen..(PromptLen + MaxTokens)
              /\ num_output_placeholders'[r] \in Nat /\ num_computed_tokens'[r] \in Nat
              /\ cached'[r] \in Nat /\ cached'[r] <= num_tokens'[r]
              /\ r \in Unfinished' =>
                   /\ num_tokens'[r] < PromptLen + MaxTokens
                   /\ num_output_placeholders'[r] = Cardinality(TokensDue(rest, r))
                   /\ Owed(r)'
  <2>1. r \in AsyncRequests /\ r \in Unfinished /\ Owed(r)
        /\ request_status[r] \in {"running", "preempted"}
    BY <1>1, <1>8, <1>9 DEF Unfinished
  <2>2. PICK S \in SUBSET AsyncRequests : step \in [S -> Entry]
    BY <1>7, StepIs
  <2>3. step[r].spec \in Nat /\ Brings(step, r) = 1 + step[r].spec
    BY <1>4, <2>2 DEF Entry, Brings
  <2>4. num_tokens[r] < PromptLen + MaxTokens
    BY <2>1 DEF Owed
  <2>5. /\ num_tokens[r] \in Nat /\ num_computed_tokens[r] \in Nat
         /\ num_output_placeholders[r] \in Nat /\ accepted[r] \in Nat
    BY <1>5, <1>8, <2>1, OutputPlaceholdersAssumption
  <2>6. PICK t \in Nat, c \in Nat, p \in Nat, spec \in Nat, acc \in Nat :
          /\ t = num_tokens[r] /\ c = num_computed_tokens[r]
          /\ p = num_output_placeholders[r] /\ spec = step[r].spec /\ acc = accepted[r]
    BY <2>3, <2>5
  <2>7. PICK room \in Nat : room = PromptLen + MaxTokens - t /\ room > 0
    BY <2>4, <2>6, OutputPlaceholdersAssumption
  <2>8. PICK d \in Nat : d = Cardinality(TokensDue(rest, r))
    BY <1>7
  <2>9. p = 1 + spec + d
    <3>1. p = Cardinality(TokensDue(batch_queue, r))
      BY <1>1, <2>1, <2>6 DEF CountsAreDue, Due
    <3> QED
      BY <1>7, <2>3, <2>6, <2>8, <3>1
  <2>10. PICK new : new = New(r)
    OBVIOUS
  <2>11. new = IF acc + 1 < room THEN acc + 1 ELSE room
    <3>1. new = Min({acc + 1, room})
      BY <2>6, <2>7, <2>10
    <3> QED
      BY <3>1, MinOfTwo
  <2>12. PICK p2 : p2 = TakeBack(p, spec - acc) - new /\ p2 = p - (spec - acc) - new
    BY <2>9 DEF TakeBack
  <2>13. PICK c2 : /\ c2 = TakeBack(c, spec - acc)
                   /\ c2 = IF c > 0 THEN c - (spec - acc) ELSE c
    BY DEF TakeBack
  <2>14. Left(r) = p2
    BY <2>6, <2>10, <2>12 DEF PlaceholdersLeft
  <2>15. /\ num_tokens'[r] = t + new /\ num_output_placeholders'[r] = p2
         /\ num_computed_tokens'[r] = c2
    BY <1>5, <2>1, <2>6, <2>10, <2>13, <2>14
  <2>16. cached'[r] = IF request_status[r] = "running" THEN c2 - p2 ELSE cached[r]
    BY <1>5, <2>1, <2>6, <2>13, <2>14 DEF CachedTokens
  <2>17. acc <= spec /\ t > 0
    BY <1>5, <1>8, <2>1, <2>6
  <2> HIDE DEF New, Left
  <2>18. /\ new \in Nat /\ new <= room /\ p2 \in Nat
         /\ new < room => p2 = d
         /\ c = 0 => c2 = 0
         /\ t > 0 /\ c = t + p - 1 =>
              c2 \in Nat /\ c2 - p2 = t + new - 1 /\ (new < room => c2 = t + new + p2 - 1)
    <3>1. /\ new \in Nat /\ new <= room /\ new <= acc + 1
          /\ new < room => new = acc + 1
      BY <2>7, <2>11
    <3>2. p2 \in Nat /\ (new < room => p2 = d)
      BY <2>9, <2>12, <2>17, <3>1
    <3>3. ASSUME t > 0, c = t + p - 1
          PROVE  /\ c2 \in Nat /\ c2 - p2 = t + new - 1
                 /\ new < room => c2 = t + new + p2 - 1
      <4>1. c2 = c - (spec - acc)
        BY <2>9, <2>13, <3>3
      <4> QED
        BY <2>9, <2>12, <2>17, <3>1, <3>3, <4>1
    <3> QED
      BY <2>13, <3>1, <3>2, <3>3
  <2>19. p > 0
    BY <2>9
  <2>20. request_status[r] = "running" =>
           c2 \in Nat /\ c2 - p2 = t + new - 1 /\ (new < room => c2 = t + new + p2 - 1)
    BY <2>1, <2>6, <2>17, <2>18, <2>19 DEF Owed
  <2>21. request_status[r] = "preempted" => c2 = 0 /\ d = 0
    BY <1>10, <2>1, <2>6, <2>8, <2>18, <2>19 DEF Owed
  <2>22. r \in Unfinished' => new < room /\ request_status'[r] = request_status[r]
    <3>1. r \in Unfinished' => num_tokens'[r] # PromptLen + MaxTokens
                              /\ request_status'[r] = request_status[r]
      BY <1>5, <2>1 DEF Unfinished
    <3> QED
      BY <2>6, <2>7, <2>15, <2>18, <3>1, OutputPlaceholdersAssumption
  <2>23. /\ num_tokens'[r] \in PromptLen..(PromptLen + MaxTokens)
         /\ num_output_placeholders'[r] \in Nat /\ num_computed_tokens'[r] \in Nat
         /\ cached'[r] \in Nat /\ cached'[r] <= num_tokens'[r]
    BY <1>8, <2>1, <2>6, <2>7, <2>15, <2>16, <2>17, <2>18, <2>20, <2>21,
       OutputPlaceholdersAssumption
  <2>24. ASSUME r \in Unfinished'
         PROVE  /\ num_tokens'[r] < PromptLen + MaxTokens
                /\ num_output_placeholders'[r] = d
                /\ Owed(r)'
    <3>1. num_tokens'[r] < PromptLen + MaxTokens /\ num_output_placeholders'[r] = d
      BY <2>6, <2>7, <2>15, <2>18, <2>22, <2>24, OutputPlaceholdersAssumption
    <3>2. request_status'[r] = "running" =>
            num_computed_tokens'[r] = num_tokens'[r] + num_output_placeholders'[r] - 1
      BY <2>15, <2>20, <2>22, <2>24
    <3>3. request_status'[r] = "preempted" =>
            num_computed_tokens'[r] = 0 /\ num_output_placeholders'[r] = 0
      BY <2>15, <2>21, <2>22, <2>24, <3>1
    <3> QED
      BY <3>1, <3>2, <3>3 DEF Owed
  <2> QED
    BY <2>8, <2>23, <2>24
<1>12. ASSUME NEW r \in AsyncRequests, r \notin answered
       PROVE  /\ num_tokens'[r] = num_tokens[r]
              /\ num_output_placeholders'[r] = num_output_placeholders[r]
              /\ num_computed_tokens'[r] = num_computed_tokens[r]
              /\ cached'[r] = cached[r] /\ request_status'[r] = request_status[r]
              /\ r \in Unfinished' =>
                   /\ num_output_placeholders'[r] = Cardinality(TokensDue(rest, r))
                   /\ Owed(r)'
  <2>1. /\ num_tokens'[r] = num_tokens[r]
        /\ num_output_placeholders'[r] = num_output_placeholders[r]
        /\ num_computed_tokens'[r] = num_computed_tokens[r]
        /\ cached'[r] = cached[r] /\ request_status'[r] = request_status[r]
    BY <1>5, <1>8, <1>12
  <2>2. ASSUME r \in Unfinished'
        PROVE  num_output_placeholders'[r] = Cardinality(TokensDue(rest, r)) /\ Owed(r)'
    <3>1. r \in Unfinished /\ Owed(r)
      BY <1>1, <2>1, <2>2 DEF Unfinished
    <3>2. Brings(step, r) = 0
      BY <1>4, <1>12, <3>1 DEF Brings
    <3>3. num_output_placeholders[r] = Cardinality(TokensDue(rest, r))
      BY <1>1, <1>7, <3>1, <3>2 DEF CountsAreDue, Due
    <3>4. request_status[r] = "preempted" => num_output_placeholders[r] = 0
      BY <1>8, <1>10, <1>12, <3>1
    <3> QED
      BY <1>8, <2>1, <3>1, <3>3, <3>4 DEF Owed
  <2> QED
    BY <2>1, <2>2
<1> HIDE DEF New, Left
<1>13. PlaceholderTypeOK'
  <2>1. /\ num_tokens' \in [AsyncRequests -> PromptLen..(PromptLen + MaxTokens)]
        /\ num_computed_tokens' \in [AsyncRequests -> Nat]
        /\ num_output_placeholders' \in [AsyncRequests -> Nat]
        /\ cached' \in [AsyncRequests -> Nat]
    <3>1. \A r \in AsyncRequests :
            /\ num_tokens'[r] \in PromptLen..(PromptLen + MaxTokens)
            /\ num_computed_tokens'[r] \in Nat /\ num_output_placeholders'[r] \in Nat
            /\ cached'[r] \in Nat
      BY <1>8, <1>11, <1>12
    <3> QED
      BY <1>5, <3>1
  <2>2. request_status' \in [AsyncRequests -> {"running", "preempted", "finished"}]
    BY <1>5, <1>8
  <2>3. \A i \in DOMAIN batch_queue' :
          batch_queue'[i] \in [DOMAIN batch_queue'[i] -> Entry]
    BY <1>6, <1>7, StepIs
  <2> QED
    BY <1>1, <1>6, <2>1, <2>2, <2>3 DEF PlaceholderTypeOK
<1>14. Unfinished' \subseteq AsyncRequests
  BY DEF Unfinished
<1>15. CountsAreDue'
  <2> SUFFICES ASSUME NEW r \in Unfinished'
               PROVE  num_output_placeholders'[r] = Cardinality(TokensDue(rest, r))
    BY <1>6 DEF CountsAreDue, Due
  <2> QED
    BY <1>11, <1>12, <1>14
<1>16. KnownTokensCached'
  <2> SUFFICES ASSUME NEW r \in AsyncRequests PROVE cached'[r] <= num_tokens'[r]
    BY DEF KnownTokensCached
  <2> QED
    BY <1>8, <1>11, <1>12
<1>17. \A r \in Unfinished' : Owed(r)'
  BY <1>11, <1>12, <1>14
<1>18. batch_queue' \in Seq(Step) /\ Len(batch_queue') <= MaxOutstanding
  <2>1. Len(rest) = Len(batch_queue) - 1
    BY <1>1, <1>4, HeadTailProperties
  <2> QED
    BY <1>1, <1>6, <1>7, <2>1, OutputPlaceholdersAssumption DEF AsyncInv
<1> QED
  BY <1>13, <1>15, <1>16, <1>17, <1>18 DEF AsyncInv, PlaceholdersAreDue

LEMMA FinishKeepsDue ==
  ASSUME AsyncInv, NEW r \in AsyncRequests, FinishRequest(r)
  PROVE  AsyncInv'
<1>1. request_status \in [AsyncRequests -> {"running", "preempted", "finished"}]
  BY DEF AsyncInv, PlaceholdersAreDue, PlaceholderTypeOK
<1>2. /\ request_status' \in [AsyncRequests -> {"running", "preempted", "finished"}]
      /\ Unfinished' = Unfinished \ {r}
      /\ \A q \in Unfinished' : request_status'[q] = request_status[q]
  BY <1>1 DEF FinishRequest, Unfinished
<1>3. /\ num_tokens' = num_tokens /\ num_computed_tokens' = num_computed_tokens
      /\ num_output_placeholders' = num_output_placeholders
      /\ spec_token_ids' = spec_token_ids /\ cached' = cached
      /\ batch_queue' = batch_queue
  BY DEF FinishRequest
<1>4. PlaceholderTypeOK'
  BY <1>2, <1>3 DEF AsyncInv, PlaceholdersAreDue, PlaceholderTypeOK
<1>5. CountsAreDue' /\ KnownTokensCached'
  BY <1>2, <1>3 DEF AsyncInv, PlaceholdersAreDue, CountsAreDue, Due, KnownTokensCached
<1>6. \A q \in Unfinished' : Owed(q)'
  BY <1>2, <1>3 DEF AsyncInv, Owed
<1> QED
  BY <1>3, <1>4, <1>5, <1>6 DEF AsyncInv, PlaceholdersAreDue

LEMMA AsyncInvStep ==
  ASSUME MaxOutstanding <= 2, AsyncInv, [AsyncNext]_async_vars
  PROVE  AsyncInv'
<1>1. CASE \E chosen, dropped \in SUBSET AsyncRequests : Schedule(chosen, dropped)
  BY <1>1, ScheduleKeepsDue
<1>2. CASE Update
  BY <1>2, UpdateKeepsDue
<1>3. CASE \E r \in AsyncRequests : FinishRequest(r)
  BY <1>3, FinishKeepsDue
<1>4. CASE UNCHANGED async_vars
  BY <1>4 DEF async_vars, request_vars, AsyncInv, PlaceholdersAreDue, PlaceholderTypeOK,
     CountsAreDue, Due, KnownTokensCached, Unfinished, Owed
<1> QED
  BY <1>1, <1>2, <1>3, <1>4 DEF AsyncNext

(* With at most two steps outstanding, as many as the engine core keeps    *)
(* with asynchronous scheduling, the placeholders of an unfinished request *)
(* are the tokens that the steps under way can bring it, the count never   *)
(* gets negative (scheduler.py:83) and only known tokens are cached: for   *)
(* any number of requests and drafts, any lengths, any preemptions.  With  *)
(* a third step a request may be preempted, taken in again, and get the    *)
(* output of the old step for that of the new one.                         *)
THEOREM PlaceholdersMatch ==
  ASSUME MaxOutstanding <= 2 PROVE AsyncSpec => []PlaceholdersAreDue
<1>1. AsyncInv => PlaceholdersAreDue
  BY DEF AsyncInv
<1>2. AsyncInv /\ [AsyncNext]_async_vars => AsyncInv'
  BY AsyncInvStep
<1> QED
  BY <1>1, <1>2, AsyncInvInit, PTL DEF AsyncSpec
=============================================================================
