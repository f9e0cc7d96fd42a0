------------------------------ MODULE Serving ------------------------------
(***************************************************************************)
(* The two workloads at run time: the pods of the Deployments that         *)
(* vllm-workload.ts and fastapi-workload.ts declare, the probes they are   *)
(* held to, the GPU node and the addresses in the target group of the ALB. *)
(*                                                                         *)
(* Kubernetes, the load balancer controller and vLLM enter by what the     *)
(* manifests ask of them.  A template that is applied differs from those   *)
(* of the pods that are there.                                             *)
(***************************************************************************)
EXTENDS Cluster, Naturals, FiniteSets

CONSTANTS
    ApiPod, ModelPod,     \* the pods there can be at a time, dying ones included
    Parts,                \* the parts the weights are downloaded in
    Window,               \* failures of the startup probe that end a container
    MaxFailing            \* bound: how many processes fail at a time

ASSUME PodAssumption ==
    /\ ApiPod \cap ModelPod = {}
    /\ IsFiniteSet(ApiPod) /\ IsFiniteSet(ModelPod)
ASSUME BoundAssumption ==
    Parts \in Nat /\ Window \in Nat \ {0} /\ MaxFailing \in Nat

VARIABLES
    gpuUp,       \* there is a node in the GPU node group
    phase,       \* phase[p]: where in its life the pod p is
    fresh,       \* the pods of the template that was applied last
    ready,       \* the pods whose readiness probe succeeds, as Kubernetes knows
    process,     \* process[p]: how the process in p does
    cached,      \* cached[p]: the parts of the weights in its model-cache volume
    failures,    \* failures[p]: of the startup probe of the container that runs
    targets      \* the pods whose addresses are in the target group

vars == <<gpuUp, phase, fresh, ready, process, cached, failures, targets>>

Pod == ApiPod \cup ModelPod
PodsOf(app) == IF app = "fastapi" THEN ApiPod ELSE ModelPod
AppOf(p) == IF p \in ApiPod THEN "fastapi" ELSE "vllm"

TypeOK ==
    /\ gpuUp \in BOOLEAN
    /\ phase \in [Pod -> {"none", "pending", "starting", "running", "stopping"}]
    /\ fresh \subseteq Pod /\ ready \subseteq Pod /\ targets \subseteq ApiPod
    /\ process \in [Pod -> {"well", "sick", "mute"}]
    /\ cached \in [Pod -> 0..Parts]
    /\ failures \in [Pod -> 0..(Window - 1)]
    /\ \A p \in fresh : phase[p] \in {"pending", "starting", "running"}
    /\ \A p \in ready : phase[p] = "running"
    /\ \A p \in Pod : process[p] # "well" => phase[p] = "running"
    /\ \A p \in ApiPod : process[p] # "sick"

\* Before the first deployment: the node groups, and no pod.
Init ==
    /\ gpuUp = TRUE
    /\ phase = [p \in Pod |-> "none"]
    /\ fresh = {} /\ ready = {} /\ targets = {}
    /\ process = [p \in Pod |-> "well"]
    /\ cached = [p \in Pod |-> 0]
    /\ failures = [p \in Pod |-> 0]

-----------------------------------------------------------------------------
(* What the manifests say.                                                 *)

\* A rolling update that may take one down.
MaxUnavailableOne == 1

\* The default strategy for both.
AlwaysRolling(app) == "RollingUpdate"

Replicas(app) == IF app = "fastapi" THEN 2 ELSE 1

Strategy(app) == IF app = "fastapi" THEN "RollingUpdate" ELSE "Recreate"

MaxUnavailable == 0

MaxSurge == 1

\* The pods that count: those that are being deleted do not.
Live(app) == {p \in PodsOf(app) : phase[p] \in {"pending", "starting", "running"}}
Available(app) == ready \cap PodsOf(app)

\* A request for the path, at the process in p.  When the engine is dead, the server
\* still tells its models.
Answers(p, path) ==
    /\ phase[p] = "running"
    /\ \/ process[p] = "well"
       \/ process[p] = "sick" /\ path = "/v1/models"

\* The Service vllm has its ready pods for endpoints, and check_ready asks it for
\* one path and then the other.
CheckReady ==
    /\ Reaches("fastapi", "vllm", 8000)
    /\ \E p \in Available("vllm"), path \in {"/health", "/v1/models"} : Answers(p, path)

\* The handler of /health/ready asks check_ready, the others ask nobody.
HealthOK(p, path) == Answers(p, path) /\ (path = "/health/ready" => CheckReady)

ReadinessPath(p) == IF p \in ApiPod THEN "/health/ready" ELSE "/health"
\* The liveness probe asks what the readiness probe asks.
LivenessAsReadiness(p) == ReadinessPath(p)

LivenessPath(p) == IF p \in ApiPod THEN "/health/live" ELSE "/health"

-----------------------------------------------------------------------------
(* The Deployment controller and the scheduler.                            *)

\* There is a node for a pod of the app, with a GPU to spare if it needs one.  A
\* pod holds its GPU until it is gone.
HasNode(app) ==
    \E nodes \in NodeGroup :
       /\ Fits(app, nodes)
       /\ nodes = "gpu" => gpuUp
       /\ \/ Gpus(app) = 0
          \/ \A p \in ModelPod : phase[p] \in {"none", "pending"}

\* Of a new template as many pods as asked for, within the surge; with Recreate
\* none while a pod of an old one is there, be it a dying one.
MayCreate(app) ==
    /\ Cardinality(Live(app) \cap fresh) < Replicas(app)
    /\ IF Strategy(app) = "Recreate"
       THEN \A p \in PodsOf(app) : phase[p] = "none" \/ p \in fresh
       ELSE Cardinality(Live(app)) < Replicas(app) + MaxSurge

\* A pod is as good as another; its address is not one that is in the target group.
Unused(app) == {p \in PodsOf(app) \ targets : phase[p] = "none"}

Create(app) ==
    /\ Unused(app) # {}
    /\ Admitted(app)
    /\ MayCreate(app)
    /\ LET p == CHOOSE q \in Unused(app) : TRUE IN
         /\ phase' = [phase EXCEPT ![p] = IF HasNode(app) THEN "starting" ELSE "pending"]
         /\ fresh' = fresh \cup {p}
    /\ UNCHANGED <<gpuUp, ready, process, cached, failures, targets>>

Schedule(p) ==
    /\ phase[p] = "pending"
    /\ HasNode(AppOf(p))
    /\ phase' = [phase EXCEPT ![p] = "starting"]
    /\ UNCHANGED <<gpuUp, fresh, ready, process, cached, failures, targets>>

\* Old pods go all at once with Recreate.  A rolling update takes no more than the
\* new pods that are not available yet leave over, and of those that serve none
\* below the minimum.
MayRemove(p) ==
    LET app == AppOf(p)
        least == Replicas(app) - MaxUnavailable
        lacking == Cardinality((Live(app) \cap fresh) \ ready) IN
    \/ Strategy(app) = "Recreate"
    \/ /\ Cardinality(Live(app)) > least + lacking
       /\ p \in ready => Cardinality(Available(app)) > least

\* The pod is being deleted; nothing it has is of use any more.
Remove(p) ==
    /\ p \in Live(AppOf(p)) \ fresh
    /\ MayRemove(p)
    /\ phase' = [phase EXCEPT ![p] = "stopping"]
    /\ ready' = ready \ {p}
    /\ process' = [process EXCEPT ![p] = "well"]
    /\ cached' = [cached EXCEPT ![p] = 0]
    /\ failures' = [failures EXCEPT ![p] = 0]
    /\ UNCHANGED <<gpuUp, fresh, targets>>

\* The pods of P are gone, and their emptyDir volumes with them.
Vanish(P) ==
    /\ phase' = [p \in Pod |-> IF p \in P THEN "none" ELSE phase[p]]
    /\ fresh' = fresh \ P
    /\ ready' = ready \ P
    /\ process' = [p \in Pod |-> IF p \in P THEN "well" ELSE process[p]]
    /\ cached' = [p \in Pod |-> IF p \in P THEN 0 ELSE cached[p]]
    /\ failures' = [p \in Pod |-> IF p \in P THEN 0 ELSE failures[p]]

Gone(p) ==
    /\ phase[p] = "stopping"
    /\ Vanish({p})
    /\ UNCHANGED <<gpuUp, targets>>

-----------------------------------------------------------------------------
(* The kubelet: containers and their probes.                               *)

\* A container starts in p.  The weights are there, part by part, before the
\* server answers; a part that has been downloaded is not downloaded again.
Start(p) ==
    /\ phase[p] = "starting"
    /\ IF p \in ModelPod /\ cached[p] < Parts
       THEN /\ cached' = [cached EXCEPT ![p] = @ + 1]
            /\ UNCHANGED <<phase, failures>>
       ELSE /\ phase' = [phase EXCEPT ![p] = "running"]
            /\ failures' = [failures EXCEPT ![p] = 0]
            /\ UNCHANGED cached
    /\ UNCHANGED <<gpuUp, fresh, ready, process, targets>>

\* A readiness that outlives the container it was found of.
RestartKeepingReady(p) ==
    /\ phase' = [phase EXCEPT ![p] = "starting"]
    /\ process' = [process EXCEPT ![p] = "well"]
    /\ failures' = [failures EXCEPT ![p] = 0]
    /\ UNCHANGED <<gpuUp, fresh, ready, cached, targets>>

\* The container is ended and another started in the same pod: the volumes stay.
Restart(p) ==
    /\ phase' = [phase EXCEPT ![p] = "starting"]
    /\ ready' = ready \ {p}
    /\ process' = [process EXCEPT ![p] = "well"]
    /\ failures' = [failures EXCEPT ![p] = 0]
    /\ UNCHANGED <<gpuUp, fresh, cached, targets>>

\* vLLM does not answer while it downloads and loads.
StartupProbeFails(p) ==
    /\ p \in ModelPod
    /\ phase[p] = "starting"
    /\ IF failures[p] + 1 < Window
       THEN /\ failures' = [failures EXCEPT ![p] = @ + 1]
            /\ UNCHANGED <<gpuUp, phase, fresh, ready, process, cached, targets>>
       ELSE Restart(p)

ReadinessSucceeds(p) ==
    /\ p \notin ready
    /\ HealthOK(p, ReadinessPath(p))
    /\ ready' = ready \cup {p}
    /\ UNCHANGED <<gpuUp, phase, fresh, process, cached, failures, targets>>

\* Often enough, that is, to count.
ReadinessFails(p) ==
    /\ p \in ready
    /\ ~HealthOK(p, ReadinessPath(p))
    /\ ready' = ready \ {p}
    /\ UNCHANGED <<gpuUp, phase, fresh, process, cached, failures, targets>>

LivenessFails(p) ==
    /\ phase[p] = "running"
    /\ ~HealthOK(p, LivenessPath(p))
    /\ Restart(p)

-----------------------------------------------------------------------------
(* The TargetGroupBinding: the load balancer controller sees the endpoints *)
(* of the Service fastapi with a delay.                                    *)

Register(p) ==
    /\ p \in Available("fastapi") \ targets
    /\ targets' = targets \cup {p}
    /\ UNCHANGED <<gpuUp, phase, fresh, ready, process, cached, failures>>

Deregister(p) ==
    /\ p \in targets \ Available("fastapi")
    /\ targets' = targets \ {p}
    /\ UNCHANGED <<gpuUp, phase, fresh, ready, process, cached, failures>>

-----------------------------------------------------------------------------
(* Operators and faults.                                                   *)

\* cdk deploy with a new template of the app's pods.
Apply(app) ==
    /\ fresh' = fresh \ PodsOf(app)
    /\ UNCHANGED <<gpuUp, phase, ready, process, cached, failures, targets>>

\* The event loop of an API process stands still (auth.py fetches the keys with a
\* blocking call), vLLM hangs, or its engine dies and the server does not.
Fail(p) ==
    /\ phase[p] = "running" /\ process[p] = "well"
    /\ Cardinality({q \in Pod : process[q] # "well"}) < MaxFailing
    /\ \E state \in IF p \in ApiPod THEN {"mute"} ELSE {"sick", "mute"} :
         process' = [process EXCEPT ![p] = state]
    /\ UNCHANGED <<gpuUp, phase, fresh, ready, cached, failures, targets>>

\* The call returns.
Recover(p) ==
    /\ process[p] = "mute"
    /\ process' = [process EXCEPT ![p] = "well"]
    /\ UNCHANGED <<gpuUp, phase, fresh, ready, cached, failures, targets>>

\* The node fails or the group is scaled to zero, with the pod that is on it.
GpuDown ==
    /\ gpuUp
    /\ gpuUp' = FALSE
    /\ Vanish({p \in ModelPod : phase[p] # "pending"})
    /\ UNCHANGED targets

GpuUp ==
    /\ ~gpuUp
    /\ gpuUp' = TRUE
    /\ UNCHANGED <<phase, fresh, ready, process, cached, failures, targets>>

-----------------------------------------------------------------------------
Controllers(p) == Schedule(p) \/ Remove(p) \/ Gone(p)
Processes(p) == Start(p) \/ LivenessFails(p)
Readiness(p) == ReadinessSucceeds(p) \/ ReadinessFails(p)
Balancer(p) == Register(p) \/ Deregister(p)

Next ==
    \/ \E p \in Pod : \/ Controllers(p) \/ Processes(p) \/ Readiness(p) \/ Balancer(p)
                      \/ StartupProbeFails(p) \/ Fail(p) \/ Recover(p)
    \/ \E app \in App : Create(app) \/ Apply(app)
    \/ GpuDown \/ GpuUp

\* Controllers, kubelet and balancer go on, and a kubelet is not kept from its
\* containers by what goes on elsewhere.  Nobody need apply or repair anything; a
\* startup probe may fail or not.
Fairness ==
    /\ WF_vars(\/ \E app \in App : Create(app)
               \/ \E p \in Pod : Controllers(p) \/ Processes(p)
                                  \/ Readiness(p) \/ Balancer(p))
    /\ WF_vars(\E p \in ApiPod : Processes(p))

Spec == Init /\ [][Next]_vars
FairSpec == Spec /\ Fairness

-----------------------------------------------------------------------------
(* Properties.                                                             *)

\* A rollout of the API, one that another overtakes included, never costs it
\* capacity: once two pods are ready there are fewer only when check_ready finds no
\* model or a process does not answer.  (replicas, maxUnavailable and the readiness
\* probe of fastapi-workload.ts.)
CapacityIsLostToFaultsOnly ==
    [][ (/\ Cardinality(Available("fastapi")) >= 2
         /\ Cardinality(Available("fastapi"))' < 2)
        => (~CheckReady \/ \E p \in ApiPod : process[p] = "mute") ]_vars

\* A step that leaves the pods of P in peace: none of them is outdated by a new
\* template or lost with its node, and no process fails.
Steady(P) ==
    /\ fresh \cap P \subseteq fresh'
    /\ \A p \in P : process[p] = "well" => process'[p] = "well"

\* When deployments, faults and scaling to zero are over and the GPU node is there,
\* the service comes up, however things stood: the model of the last template is
\* ready, two API pods of the last template are, and they, alone, get the traffic.
ServiceComesUp ==
    (<>[]gpuUp /\ <>[][Steady(Pod)]_vars) =>
        <>[](/\ Cardinality(Available("vllm")) = 1
             /\ Cardinality(Available("fastapi")) = 2
             /\ Live("vllm") \cup Live("fastapi") \subseteq fresh
             /\ targets = Available("fastapi"))

\* A model that comes and goes, for ever if it must, takes no API process down with
\* it: they are all up, with what they remember, once no deployment of theirs and
\* no blocked event loop interferes.  (/health/live calls nobody, main.py.)
ApiRidesOutTheModel ==
    <>[][Steady(ApiPod)]_vars =>
        <>[](\A p \in Live("fastapi") : phase[p] = "running" /\ process[p] = "well")
=============================================================================
