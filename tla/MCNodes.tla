------------------------------ MODULE MCNodes -------------------------------
(***************************************************************************)
(* How nodes come up, find each other and serve the steps of a v0 swarm,   *)
(* in one run; the initial state chooses a part, and the others stay as    *)
(* they start.                                                             *)
(*                                                                         *)
(*   "serves"    SwarmPipeline, four steps; the head knows all servers     *)
(*   "grows"     three steps; servers join, calls fail                     *)
(*   "flaps"     two steps; the list in the DHT loses and finds servers    *)
(*   "registry"  SwarmRegistry, two servers that may stop                  *)
(*   "workers"   StageWorkers, four steps and two control calls            *)
(*   "startup"   NodeStartup, four nodes on two machines with equal and    *)
(*               different ports, two crashes                              *)
(***************************************************************************)
EXTENDS StageWorkers, SwarmPipeline, NodeStartup, TLC

CONSTANTS h, w1, w2, w3, Registered

VARIABLES
    part,
    list, info, at, seen, alive, looking, found, view

registry_vars == <<list, info, at, seen, alive, looking, found, view>>
all_vars == <<part, swarm_vars, registry_vars, workers_vars, startup_vars>>

-----------------------------------------------------------------------------
Grows == INSTANCE SwarmPipeline WITH
    MaxRounds <- 3, StartsComplete <- FALSE, MayLose <- TRUE
Flaps == INSTANCE SwarmPipeline WITH MaxRounds <- 2, MayUnlist <- TRUE

Registry == INSTANCE SwarmRegistry WITH Servers <- Registered, MayStop <- TRUE

TwoHosts == h :> "a" @@ w1 :> "a" @@ w2 :> "b" @@ w3 :> "b"
Ports == h :> 1 @@ w1 :> 1 @@ w2 :> 1 @@ w3 :> 2

-----------------------------------------------------------------------------
MCInit ==
    /\ part \in {"serves", "grows", "flaps", "registry", "workers", "startup"}
    /\ IF part = "grows" THEN Grows!SwarmInit ELSE SwarmInit
    /\ Registry!Init /\ WorkersInit /\ StartupInit
    /\ part # "startup" => oneByOne

SwarmIn(name, A) ==
    part = name /\ A /\ UNCHANGED <<part, registry_vars, workers_vars, startup_vars>>
RegistryIn(A) ==
    part = "registry" /\ A /\ UNCHANGED <<part, swarm_vars, workers_vars, startup_vars>>
WorkersIn(A) ==
    part = "workers" /\ A /\ UNCHANGED <<part, swarm_vars, registry_vars, startup_vars>>
StartupIn(A) ==
    part = "startup" /\ A /\ UNCHANGED <<part, swarm_vars, registry_vars, workers_vars>>

MCNext ==
    \/ SwarmIn("serves", SwarmNext) \/ SwarmIn("grows", Grows!SwarmNext)
    \/ SwarmIn("flaps", Flaps!SwarmNext)
    \/ RegistryIn(Registry!Next)
    \/ WorkersIn(WorkersNext)
    \/ StartupIn(StartupNext)

(* The fairness of the modules' FairSpecs.                                 *)
MCFairness ==
    /\ WF_all_vars(SwarmIn("serves", Working))
    /\ \A s \in Registered : WF_all_vars(RegistryIn(Registry!Refresh(s)))
    /\ WF_all_vars(RegistryIn(Registry!LookUp \/ Registry!Publish))
    /\ \A s \in 1..MaxSteps :
         /\ WF_all_vars(WorkersIn(Begin(s) \/ End(s)))
         /\ \A w \in Workers : WF_all_vars(WorkersIn(Send(s, w)))
    /\ \A w \in Workers :
         /\ WF_all_vars(WorkersIn(Serve(w)))
         /\ WF_all_vars(WorkersIn(Execute(w)))

MCSpec == MCInit /\ [][MCNext]_all_vars /\ MCFairness

-----------------------------------------------------------------------------
(* BatchHasCompleted, PathFollowsList, SameSteps, StepsComplete and        *)
(* AddressesHold hold in every part and are checked as the modules have    *)
(* them.  The others say in which they hold.                               *)

(* Every step ends, when the head knows all servers.                       *)
StepsEnd == part = "serves" => EveryStepEnds

(* In the end the head sees every server that is alive.                    *)
AliveAreSeen == part = "registry" => Registry!AliveAreSeen
=============================================================================
