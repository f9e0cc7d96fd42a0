--------------------------- MODULE ServingProofs ---------------------------
(* What holds of the two workloads whatever pods there are. *)
EXTENDS Serving, TLAPS, FiniteSetTheorems

\* The step in which a container is replaced keeps the types.
LEMMA RestartKeepsTypes ==
    ASSUME TypeOK, NEW p \in Pod, Restart(p)
    PROVE  TypeOK'
<1>1. 0 \in 0..(Window - 1)
    BY BoundAssumption
<1>2. /\ phase' \in [Pod -> {"none", "pending", "starting", "running", "stopping"}]
      /\ process' \in [Pod -> {"well", "sick", "mute"}]
      /\ failures' \in [Pod -> 0..(Window - 1)]
    BY <1>1 DEF Restart, TypeOK
<1>3. \A q \in fresh' : phase'[q] \in {"pending", "starting", "running"}
    BY DEF Restart, TypeOK
<1>4. /\ \A q \in ready' : phase'[q] = "running"
      /\ \A q \in Pod : process'[q] # "well" => phase'[q] = "running"
    BY DEF Restart, TypeOK
<1>5. \A q \in ApiPod : process'[q] # "sick"
    BY DEF Restart, TypeOK, Pod
<1> QED
    BY <1>2, <1>3, <1>4, <1>5 DEF Restart, TypeOK

\* So does the end of any set of pods.
LEMMA VanishKeepsTypes ==
    ASSUME TypeOK, NEW P \in SUBSET Pod, Vanish(P),
           gpuUp' \in BOOLEAN, UNCHANGED targets
    PROVE  TypeOK'
<1>1. 0 \in 0..(Window - 1) /\ 0 \in 0..Parts
    BY BoundAssumption
<1>2. /\ phase' \in [Pod -> {"none", "pending", "starting", "running", "stopping"}]
      /\ process' \in [Pod -> {"well", "sick", "mute"}]
      /\ cached' \in [Pod -> 0..Parts]
      /\ failures' \in [Pod -> 0..(Window - 1)]
    BY <1>1 DEF Vanish, TypeOK
<1>3. \A q \in fresh' : phase'[q] \in {"pending", "starting", "running"}
    BY DEF Vanish, TypeOK
<1>4. /\ \A q \in ready' : phase'[q] = "running"
      /\ \A q \in Pod : process'[q] # "well" => phase'[q] = "running"
    BY DEF Vanish, TypeOK
<1>5. \A q \in ApiPod : process'[q] # "sick"
    BY DEF Vanish, TypeOK, Pod
<1>6. fresh' \subseteq Pod /\ ready' \subseteq Pod /\ targets' \subseteq ApiPod
    BY DEF Vanish, TypeOK
<1> QED
    BY <1>2, <1>3, <1>4, <1>5, <1>6 DEF TypeOK

\* The pod that is created is one that was not there.
LEMMA CreatedPod ==
    ASSUME TypeOK, NEW app \in App, Unused(app) # {}
    PROVE  (CHOOSE q \in Unused(app) : TRUE) \in {q \in Pod : phase[q] = "none"}
BY DEF Unused, PodsOf, Pod

\* A new pod has a phase, and nothing else.
LEMMA CreateKeepsTypes ==
    ASSUME TypeOK, NEW app \in App, Create(app)
    PROVE  TypeOK'
<1> DEFINE p == CHOOSE q \in Unused(app) : TRUE
           begun == IF HasNode(app) THEN "starting" ELSE "pending"
<1>1. p \in Pod /\ phase[p] = "none"
    BY CreatedPod DEF Create
<1>2. begun \in {"starting", "pending"}
    OBVIOUS
<1>3. /\ phase' = [phase EXCEPT ![p] = begun]
      /\ fresh' = fresh \cup {p}
      /\ UNCHANGED <<gpuUp, ready, process, cached, failures, targets>>
    BY DEF Create
<1> HIDE DEF p, begun
<1>4. phase' \in [Pod -> {"none", "pending", "starting", "running", "stopping"}]
    BY <1>1, <1>2, <1>3 DEF TypeOK
<1>5. \A q \in fresh' : phase'[q] \in {"pending", "starting", "running"}
    BY <1>1, <1>2, <1>3 DEF TypeOK
<1>6. /\ \A q \in ready' : phase'[q] = "running"
      /\ \A q \in Pod : process'[q] # "well" => phase'[q] = "running"
    BY <1>1, <1>2, <1>3 DEF TypeOK
<1> QED
    BY <1>1, <1>3, <1>4, <1>5, <1>6 DEF TypeOK

\* The steps of the controllers on a pod that is there.
LEMMA ControllersKeepTypes ==
    ASSUME TypeOK, NEW p \in Pod, Controllers(p)
    PROVE  TypeOK'
<1>1. CASE Schedule(p)
    BY <1>1 DEF Schedule, TypeOK
<1>2. CASE Remove(p)
  <2>1. p \notin fresh /\ 0 \in 0..(Window - 1) /\ 0 \in 0..Parts
      BY <1>2, BoundAssumption DEF Remove
  <2>2. /\ phase' \in [Pod -> {"none", "pending", "starting", "running", "stopping"}]
        /\ process' \in [Pod -> {"well", "sick", "mute"}]
        /\ cached' \in [Pod -> 0..Parts]
        /\ failures' \in [Pod -> 0..(Window - 1)]
      BY <1>2, <2>1 DEF Remove, TypeOK
  <2>3. /\ \A q \in fresh' : phase'[q] \in {"pending", "starting", "running"}
        /\ \A q \in ready' : phase'[q] = "running"
      BY <1>2, <2>1 DEF Remove, TypeOK
  <2>4. \A q \in Pod : process'[q] # "well" => phase'[q] = "running"
      BY <1>2, <2>1 DEF Remove, TypeOK
  <2>5. \A q \in ApiPod : process'[q] # "sick"
      BY <1>2 DEF Remove, TypeOK, Pod
  <2> QED
      BY <1>2, <2>2, <2>3, <2>4, <2>5 DEF Remove, TypeOK
<1>3. CASE Gone(p)
    BY <1>3, VanishKeepsTypes DEF Gone, TypeOK
<1> QED
    BY <1>1, <1>2, <1>3 DEF Controllers

\* The steps of the kubelet.
LEMMA KubeletKeepsTypes ==
    ASSUME TypeOK, NEW p \in Pod,
           Processes(p) \/ Readiness(p) \/ StartupProbeFails(p)
    PROVE  TypeOK'
<1>1. CASE Start(p) /\ p \in ModelPod /\ cached[p] < Parts
  <2>1. cached[p] + 1 \in 0..Parts
      BY <1>1, BoundAssumption DEF TypeOK
  <2>2. cached' \in [Pod -> 0..Parts]
      BY <1>1, <2>1 DEF Start, TypeOK
  <2> QED
      BY <1>1, <2>2 DEF Start, TypeOK
<1>2. CASE Start(p) /\ ~(p \in ModelPod /\ cached[p] < Parts)
  <2>1. 0 \in 0..(Window - 1)
      BY BoundAssumption
  <2>2. /\ phase' = [phase EXCEPT ![p] = "running"]
        /\ failures' = [failures EXCEPT ![p] = 0]
        /\ UNCHANGED <<gpuUp, fresh, ready, process, cached, targets>>
      BY <1>2 DEF Start
  <2>3. /\ phase' \in [Pod -> {"none", "pending", "starting", "running", "stopping"}]
        /\ failures' \in [Pod -> 0..(Window - 1)]
      BY <2>1, <2>2 DEF TypeOK
  <2>4. /\ \A q \in fresh' : phase'[q] \in {"pending", "starting", "running"}
        /\ \A q \in ready' : phase'[q] = "running"
        /\ \A q \in Pod : process'[q] # "well" => phase'[q] = "running"
      BY <2>2 DEF TypeOK
  <2> QED
      BY <2>2, <2>3, <2>4 DEF TypeOK
<1>3. CASE LivenessFails(p)
    BY <1>3, RestartKeepsTypes DEF LivenessFails
<1>4. CASE ReadinessSucceeds(p)
  <2>1. phase[p] = "running"
      BY <1>4 DEF ReadinessSucceeds, HealthOK, Answers
  <2> QED
      BY <1>4, <2>1 DEF ReadinessSucceeds, TypeOK
<1>5. CASE ReadinessFails(p)
    BY <1>5 DEF ReadinessFails, TypeOK
<1>6. CASE StartupProbeFails(p) /\ failures[p] + 1 < Window
  <2>1. failures[p] + 1 \in 0..(Window - 1)
      BY <1>6, BoundAssumption DEF TypeOK
  <2>2. failures' \in [Pod -> 0..(Window - 1)]
      BY <1>6, <2>1 DEF StartupProbeFails, TypeOK
  <2> QED
      BY <1>6, <2>2 DEF StartupProbeFails, TypeOK
<1>7. CASE StartupProbeFails(p) /\ ~(failures[p] + 1 < Window)
    BY <1>7, RestartKeepsTypes DEF StartupProbeFails
<1> QED
    BY <1>1, <1>2, <1>3, <1>4, <1>5, <1>6, <1>7 DEF Processes, Readiness

\* The balancer, the operators and the faults.
LEMMA SurroundingsKeepTypes ==
    ASSUME TypeOK,
           \/ \E p \in Pod : Balancer(p) \/ Fail(p) \/ Recover(p)
           \/ \E app \in App : Apply(app)
           \/ GpuDown \/ GpuUp
    PROVE  TypeOK'
<1>1. ASSUME NEW p \in Pod, Balancer(p)
      PROVE  TypeOK'
  <2>1. Available("fastapi") \subseteq ApiPod
      BY DEF Available, PodsOf
  <2> QED
      BY <1>1, <2>1 DEF Balancer, Register, Deregister, TypeOK
<1>2. ASSUME NEW p \in Pod, Fail(p)
      PROVE  TypeOK'
  <2>1. PICK state \in IF p \in ApiPod THEN {"mute"} ELSE {"sick", "mute"} :
             process' = [process EXCEPT ![p] = state]
      BY <1>2 DEF Fail
  <2>2. /\ process' \in [Pod -> {"well", "sick", "mute"}]
        /\ \A q \in Pod : process'[q] # "well" => phase'[q] = "running"
      BY <1>2, <2>1 DEF Fail, TypeOK
  <2>3. \A q \in ApiPod : process'[q] # "sick"
      BY <1>2, <2>1 DEF TypeOK, Pod
  <2> QED
      BY <1>2, <2>2, <2>3 DEF Fail, TypeOK
<1>3. ASSUME NEW p \in Pod, Recover(p)
      PROVE  TypeOK'
  <2>1. /\ process' \in [Pod -> {"well", "sick", "mute"}]
        /\ \A q \in Pod : process'[q] # "well" => phase'[q] = "running"
      BY <1>3 DEF Recover, TypeOK
  <2>2. \A q \in ApiPod : process'[q] # "sick"
      BY <1>3 DEF Recover, TypeOK, Pod
  <2> QED
      BY <1>3, <2>1, <2>2 DEF Recover, TypeOK
<1>4. ASSUME NEW app \in App, Apply(app)
      PROVE  TypeOK'
    BY <1>4 DEF Apply, TypeOK
<1>5. CASE GpuDown
    BY <1>5, VanishKeepsTypes DEF GpuDown, Pod
<1>6. CASE GpuUp
    BY <1>6 DEF GpuUp, TypeOK
<1> QED
    BY <1>1, <1>2, <1>3, <1>4, <1>5, <1>6

\* Every step keeps the types.
LEMMA StepKeepsTypes == TypeOK /\ [Next]_vars => TypeOK'
<1> SUFFICES ASSUME TypeOK, [Next]_vars
             PROVE  TypeOK'
    OBVIOUS
<1>1. CASE UNCHANGED vars
    BY <1>1 DEF vars, TypeOK
<1>2. ASSUME NEW app \in App, Create(app)
      PROVE  TypeOK'
    BY <1>2, CreateKeepsTypes
<1>3. ASSUME NEW p \in Pod,
             Controllers(p) \/ Processes(p) \/ Readiness(p) \/ StartupProbeFails(p)
      PROVE  TypeOK'
    BY <1>3, ControllersKeepTypes, KubeletKeepsTypes
<1> QED
    BY <1>1, <1>2, <1>3, SurroundingsKeepTypes DEF Next

\* A pod that is ready runs, a process that fails runs, a pod of the last template is
\* not being deleted, and only the API is in the target group.
THEOREM TypeCorrect == Spec => []TypeOK
<1>1. Init => TypeOK
  <2> SUFFICES ASSUME Init
               PROVE  TypeOK
      OBVIOUS
  <2>1. 0 \in 0..(Window - 1) /\ 0 \in 0..Parts
      BY BoundAssumption
  <2> QED
      BY <2>1 DEF Init, TypeOK, Pod
<1> QED
    BY <1>1, StepKeepsTypes, PTL DEF Spec

-----------------------------------------------------------------------------

\* What takes readiness from an API pod: its deletion, a process that does not
\* answer, or a model that cannot be found.
LEMMA LossHasACause ==
    ASSUME TypeOK, Next, CheckReady, \A p \in ApiPod : process[p] # "mute"
    PROVE  \/ Available("fastapi") \subseteq Available("fastapi")'
           \/ \E p \in Available("fastapi") :
                Remove(p) /\ Available("fastapi")' = Available("fastapi") \ {p}
<1>1. Available("fastapi") = ready \cap ApiPod /\ Available("fastapi")' = ready' \cap ApiPod
    BY DEF Available, PodsOf
<1>2. \A p \in ApiPod : p \notin ModelPod
    BY PodAssumption
<1>3. \A p \in ApiPod : process[p] = "well"
    BY DEF TypeOK, Pod
<1>4. ASSUME NEW app \in App, Create(app) \/ Apply(app)
      PROVE  ready' = ready
    BY <1>4 DEF Create, Apply
<1>5. ASSUME NEW p \in Pod, Schedule(p) \/ Start(p) \/ ReadinessSucceeds(p) \/ Fail(p)
                            \/ Recover(p) \/ Balancer(p)
      PROVE  ready \subseteq ready'
    BY <1>5 DEF Schedule, Start, ReadinessSucceeds, Fail, Recover, Balancer,
                Register, Deregister
<1>6. ASSUME NEW p \in Pod, Remove(p)
      PROVE  \/ ready \cap ApiPod \subseteq ready'
             \/ p \in ready \cap ApiPod /\ ready' \cap ApiPod = (ready \cap ApiPod) \ {p}
    BY <1>6 DEF Remove
<1>7. ASSUME NEW p \in Pod, Gone(p)
      PROVE  ready \cap ApiPod \subseteq ready'
    BY <1>7 DEF Gone, Vanish, TypeOK
<1>8. ASSUME NEW p \in Pod, LivenessFails(p)
      PROVE  ready \cap ApiPod \subseteq ready'
  <2>1. p \notin ApiPod
      BY <1>3, <1>8 DEF LivenessFails, LivenessPath, HealthOK, Answers
  <2> QED
      BY <1>8, <2>1 DEF LivenessFails, Restart
<1>9. ASSUME NEW p \in Pod, ReadinessFails(p)
      PROVE  ready \cap ApiPod \subseteq ready'
  <2>1. p \notin ApiPod
    <3>1. phase[p] = "running"
        BY <1>9 DEF ReadinessFails, TypeOK
    <3>2. CASE p \in ApiPod
        BY <1>3, <1>9, <3>1, <3>2 DEF ReadinessFails, HealthOK, Answers
    <3> QED
        BY <3>2
  <2> QED
      BY <1>9, <2>1 DEF ReadinessFails
<1>10. ASSUME NEW p \in Pod, StartupProbeFails(p)
       PROVE  ready \cap ApiPod \subseteq ready'
  <2>1. p \notin ApiPod
      BY <1>2, <1>10 DEF StartupProbeFails
  <2> QED
      BY <1>10, <2>1 DEF StartupProbeFails, Restart
<1>11. GpuDown \/ GpuUp => ready \cap ApiPod \subseteq ready'
    BY <1>2 DEF GpuDown, GpuUp, Vanish
<1> QED
    BY <1>1, <1>4, <1>5, <1>6, <1>7, <1>8, <1>9, <1>10, <1>11
    DEF Next, Controllers, Processes, Readiness

\* For any number of pods: rollouts of the API, overlapping ones included, leave two
\* ready pods ready.
THEOREM RolloutsKeepCapacity == Spec => CapacityIsLostToFaultsOnly
<1>1. ASSUME TypeOK, Next,
             Cardinality(Available("fastapi")) >= 2,
             CheckReady, \A p \in ApiPod : process[p] # "mute"
      PROVE  ~(Cardinality(Available("fastapi"))' < 2)
  <2> DEFINE before == Available("fastapi")
             after == Available("fastapi")'
  <2>1. IsFiniteSet(before) /\ IsFiniteSet(after)
    <3>1. before \subseteq ApiPod /\ after \subseteq ApiPod
        BY DEF Available, PodsOf
    <3> QED
        BY <3>1, PodAssumption, FS_Subset
  <2>2. Cardinality(before) \in Nat /\ Cardinality(after) \in Nat
      BY <2>1, FS_CardinalityType
  <2>3. CASE before \subseteq after
    <3>1. Cardinality(before) <= Cardinality(after)
        BY <2>1, <2>3, FS_Subset
    <3> HIDE DEF before, after
    <3>2. ~(Cardinality(after) < 2)
        BY <1>1, <2>2, <3>1 DEF before
    <3> QED
        BY <3>2 DEF after
  <2>4. ASSUME NEW p \in before, Remove(p), after = before \ {p}
        PROVE  ~(Cardinality(after) < 2)
    <3>1. p \in ApiPod /\ p \in ready
        BY DEF Available, PodsOf
    <3>2. Cardinality(before) > 2
        BY <2>4, <3>1 DEF Remove, MayRemove, AppOf, Strategy, Replicas, MaxUnavailable
    <3>3. Cardinality(after) = Cardinality(before) - 1
        BY <2>1, <2>4, FS_RemoveElement
    <3> HIDE DEF before, after
    <3> QED
        BY <2>2, <3>2, <3>3
  <2> QED
      BY <1>1, <2>3, <2>4, LossHasACause
<1>2. TypeOK /\ [Next]_vars =>
        [ (/\ Cardinality(Available("fastapi")) >= 2
           /\ Cardinality(Available("fastapi"))' < 2)
          => (~CheckReady \/ \E p \in ApiPod : process[p] = "mute") ]_vars
    BY <1>1
<1> QED
    BY <1>2, TypeCorrect, PTL DEF Spec, CapacityIsLostToFaultsOnly

-----------------------------------------------------------------------------
(* What the declarations of Cluster come to. *)

\* The matrix that applyNetworkPolicies is documented to enforce, for the model:
\* only the API reaches it, on its port (workload-stack.ts:274-279).
THEOREM OnlyTheApiReachesTheModel ==
    \A from \in Endpoint, port \in Port :
       Reaches(from, "vllm", port) => from = "fastapi" /\ port = 8000
<1> SUFFICES ASSUME NEW from \in Endpoint, NEW port \in Port,
                    Reaches(from, "vllm", port)
             PROVE  from = "fastapi" /\ port = 8000
    OBVIOUS
<1>1. Allows(Ingress, "vllm", from, port)
    BY DEF Reaches, PoliciesApply
<1>2. "vllm" \in OwnPod
    BY DEF OwnPod, App
<1>3. \E policy \in Ingress : "vllm" \in policy.pods
    BY <1>2 DEF Ingress
<1>4. PICK policy \in Ingress : /\ "vllm" \in policy.pods
                                /\ \E rule \in policy.rules :
                                     from \in rule.peers /\ port \in rule.ports
    BY <1>1, <1>3 DEF Allows
<1>5. policy.rules = {Rule({"fastapi"}, {8000})}
    BY <1>4 DEF Ingress
<1> QED
    BY <1>4, <1>5 DEF Rule

\* And for the API: nothing reaches it but on the port of its container.
THEOREM ApiIsReachedOnItsPort ==
    \A from \in Endpoint, port \in Port :
       Reaches(from, "fastapi", port) => port = 8080
<1> SUFFICES ASSUME NEW from \in Endpoint, NEW port \in Port,
                    Reaches(from, "fastapi", port)
             PROVE  port = 8080
    OBVIOUS
<1>1. Allows(Ingress, "fastapi", from, port)
    BY DEF Reaches, PoliciesApply
<1>2. \E policy \in Ingress : "fastapi" \in policy.pods
    BY DEF Ingress
<1>3. PICK policy \in Ingress : /\ "fastapi" \in policy.pods
                                /\ \E rule \in policy.rules :
                                     from \in rule.peers /\ port \in rule.ports
    BY <1>1, <1>2 DEF Allows
<1>4. policy.rules \in {{}, {Rule(Endpoint, {8080})}}
    BY <1>3 DEF Ingress
<1> QED
    BY <1>3, <1>4 DEF Rule

-----------------------------------------------------------------------------

\* A pod that no policy of a direction selects is free in it.
LEMMA Unselected ==
    ASSUME NEW policies, NEW pod, NEW peer, NEW port,
           \A policy \in policies : pod \notin policy.pods
    PROVE  Allows(policies, pod, peer, port)
BY DEF Allows

\* A rule of a policy that selects the pod is enough.
LEMMA RuleLetsThrough ==
    ASSUME NEW policies, NEW pod, NEW peer, NEW port,
           NEW policy \in policies, pod \in policy.pods,
           NEW rule \in policy.rules, peer \in rule.peers, port \in rule.ports
    PROVE  Allows(policies, pod, peer, port)
BY DEF Allows

\* The egress of the two apps, by their policies.
LEMMA AppsMayAsk ==
    /\ Allows(Egress, "fastapi", "vllm", 8000)
    /\ \A app \in App : Allows(Egress, app, "dns", 53) /\ Allows(Egress, app, "internet", 443)
<1> DEFINE api == [pods |-> {"fastapi"}, rules |-> {DnsEgress, Rule({"vllm"}, {8000}), Https}]
           model == [pods |-> {"vllm"}, rules |-> {DnsEgress, Https}]
<1>1. api \in Egress /\ model \in Egress
    BY DEF Egress
<1>2. /\ "fastapi" \in api.pods /\ "vllm" \in model.pods
      /\ DnsEgress \in api.rules /\ Https \in api.rules /\ Rule({"vllm"}, {8000}) \in api.rules
      /\ DnsEgress \in model.rules /\ Https \in model.rules
    OBVIOUS
<1>3. /\ "dns" \in DnsEgress.peers /\ 53 \in DnsEgress.ports
      /\ "internet" \in Https.peers /\ 443 \in Https.ports
      /\ "vllm" \in Rule({"vllm"}, {8000}).peers /\ 8000 \in Rule({"vllm"}, {8000}).ports
    BY DEF DnsEgress, Https, Rule, AnyPod, Endpoint
<1> HIDE DEF api, model
<1>4. Allows(Egress, "fastapi", "vllm", 8000)
    BY <1>1, <1>2, <1>3, RuleLetsThrough
<1>5. Allows(Egress, "fastapi", "dns", 53) /\ Allows(Egress, "fastapi", "internet", 443)
    BY <1>1, <1>2, <1>3, RuleLetsThrough
<1>6. Allows(Egress, "vllm", "dns", 53) /\ Allows(Egress, "vllm", "internet", 443)
    BY <1>1, <1>2, <1>3, RuleLetsThrough
<1> QED
    BY <1>4, <1>5, <1>6 DEF App

\* What an app needs is open to it: the API asks the model and Cognito, the model
\* downloads its weights, both resolve names (workload-stack.ts:277-279), and the ALB
\* asks the API.
THEOREM NeededTrafficPasses ==
    /\ Reaches("fastapi", "vllm", 8000)
    /\ Reaches("vpclink", "alb", 80) /\ Reaches("alb", "fastapi", 8080)
    /\ \A app \in App : Reaches(app, "dns", 53) /\ Reaches(app, "internet", 443)
<1>1. Allows(Ingress, "vllm", "fastapi", 8000)
  <2> DEFINE rule == Rule({"fastapi"}, {8000})
             policy == [pods |-> {"vllm"}, rules |-> {rule}]
  <2>1. policy \in Ingress /\ "vllm" \in policy.pods /\ rule \in policy.rules
      BY DEF Ingress
  <2>2. "fastapi" \in rule.peers /\ 8000 \in rule.ports
      BY DEF Rule
  <2> HIDE DEF policy, rule
  <2> QED
      BY <2>1, <2>2, RuleLetsThrough
<1>2. Allows(Ingress, "fastapi", "alb", 8080)
  <2> DEFINE rule == Rule(Endpoint, {8080})
             policy == [pods |-> {"fastapi"}, rules |-> {rule}]
  <2>1. policy \in Ingress /\ "fastapi" \in policy.pods /\ rule \in policy.rules
      BY DEF Ingress
  <2>2. "alb" \in rule.peers /\ 8080 \in rule.ports
      BY DEF Rule, Endpoint
  <2> HIDE DEF policy, rule
  <2> QED
      BY <2>1, <2>2, RuleLetsThrough
<1>3. ASSUME NEW to \in {"dns", "internet", "alb"}, NEW from, NEW port
      PROVE  Allows(Ingress, to, from, port)
  <2>1. \A policy \in Ingress : to \notin policy.pods
      BY DEF Ingress, OwnPod, App
  <2> QED
      BY <2>1, Unselected
<1>4. ASSUME NEW from \in {"alb", "vpclink"}, NEW to, NEW port
      PROVE  Allows(Egress, from, to, port)
  <2>1. \A policy \in Egress : from \notin policy.pods
      BY DEF Egress
  <2> QED
      BY <2>1, Unselected
<1>5. /\ SecurityGroups("fastapi", "vllm", 8000)
      /\ SecurityGroups("vpclink", "alb", 80) /\ SecurityGroups("alb", "fastapi", 8080)
      /\ \A app \in App : /\ SecurityGroups(app, "dns", 53)
                          /\ SecurityGroups(app, "internet", 443)
    BY DEF SecurityGroups, AnyPod, OwnPod, App
<1> QED
    BY <1>1, <1>2, <1>3, <1>4, <1>5, AppsMayAsk DEF Reaches

-----------------------------------------------------------------------------

\* Each app runs on its own node group and on no other, and the namespace admits
\* both; at the level restricted, of which it only warns, it would not admit the
\* model (eks-stack.ts:111-118).
THEOREM EachAppHasItsPlace ==
    /\ \A nodes \in NodeGroup : /\ Fits("fastapi", nodes) <=> nodes = "cpu"
                                /\ Fits("vllm", nodes) <=> nodes = "gpu"
    /\ \A app \in App : Admitted(app)
    /\ \A app \in App : Asked(Warned) \subseteq Hardening(app) <=> app = "fastapi"
<1>1. MayRunOn("plugin", "gpu") /\ MayRunOn("vllm", "gpu")
    BY DEF MayRunOn, NodeSelector, Labels, Taints, Tolerated
<1>2. MayRunOn("fastapi", "cpu")
    BY DEF MayRunOn, NodeSelector, Labels, Taints
<1>3. ~MayRunOn("vllm", "cpu")
    BY DEF MayRunOn, NodeSelector, Labels
<1>4. ~MayRunOn("fastapi", "gpu")
    BY DEF MayRunOn, NodeSelector, Labels
<1>5. /\ Gpus("fastapi") = 0 /\ Gpus("vllm") = 1
      /\ GpusOn("gpu") = 1 /\ GpusOn("cpu") = 0
    BY <1>1 DEF Gpus, GpusOn
<1>6. \A nodes \in NodeGroup : /\ Fits("fastapi", nodes) <=> nodes = "cpu"
                               /\ Fits("vllm", nodes) <=> nodes = "gpu"
    BY <1>1, <1>2, <1>3, <1>4, <1>5 DEF Fits, NodeGroup
<1>7. \A app \in App : Admitted(app)
    BY DEF Admitted, Asked, Enforced
<1>8. \A app \in App : Asked(Warned) \subseteq Hardening(app) <=> app = "fastapi"
    BY DEF App, Asked, Warned, Hardening
<1> QED
    BY <1>6, <1>7, <1>8

\* Every call of the screen gets past the preflight and the gateway to a handler, the
\* gateway has no route that the API does not serve, and without a token it lets
\* only the health routes through, not the metrics (workload-stack.ts:203-223, chat.ts,
\* main.py).
THEOREM TheEdgeFitsBothSides ==
    /\ \A call \in ScreenCalls : PassesTheEdge(call)
    /\ Authorized \subseteq Guarded
    /\ Open \subseteq Served \ Guarded
    /\ <<"GET", "/metrics">> \notin Authorized \cup Open
<1>1. \A call \in ScreenCalls : /\ call.route[1] \in AllowMethods
                                /\ call.headers \subseteq AllowHeaders
                                /\ "Authorization" \in call.headers
    BY DEF ScreenCalls, AllowMethods, AllowHeaders
<1>2. \A call \in ScreenCalls : call.route \in Authorized \cap Guarded
    BY DEF ScreenCalls, Authorized, Guarded
<1>3. \A call \in ScreenCalls : PassesTheEdge(call)
    BY <1>1, <1>2, NeededTrafficPasses DEF PassesTheEdge
<1>4. Authorized \subseteq Guarded
    BY DEF Authorized, Guarded
<1>5. Open \subseteq Served \ Guarded
  <2> SUFFICES ASSUME NEW path \in Health
               PROVE  <<"GET", path>> \in Served \ Guarded
      BY DEF Open
  <2>1. <<"GET", path>> \in Served
      BY DEF Served, Health
  <2>2. <<"GET", path>> \notin Guarded
      BY DEF Guarded, Health, Completions, Session
  <2> QED
      BY <2>1, <2>2
<1>6. <<"GET", "/metrics">> \notin Authorized \cup Open
    BY DEF Authorized, Open, Health, Completions, Session
<1> QED
    BY <1>3, <1>4, <1>5, <1>6
=============================================================================
