------------------------------ MODULE Cluster ------------------------------
(***************************************************************************)
(* What the stacks declare once and for all: the node groups and what may  *)
(* run on them, the security contexts, the network policies, and the path  *)
(* from the internet to the API.  What Kubernetes, EC2 and API Gateway     *)
(* make of the declarations is modelled from how they are used.            *)
(***************************************************************************)
EXTENDS Naturals

App == {"fastapi", "vllm"}

-----------------------------------------------------------------------------
(* Placement.  A label or a taint is a pair of a key and a value; the       *)
(* effect of every taint is NoSchedule.                                     *)

NodeGroup == {"cpu", "gpu"}

Labels(nodes) ==
    IF nodes = "cpu"
    THEN {<<"workload-type", "general">>, <<"node-lifecycle", "on-demand">>}
    ELSE {<<"workload-type", "inference">>, <<"accelerator", "nvidia">>,
          <<"model-family", "llama">>, <<"nvidia.com/gpu.present", "true">>}

Taints(nodes) == IF nodes = "cpu" THEN {} ELSE {<<"dedicated", "inference">>}

\* The pods that are placed: those of the two Deployments and of the device plugin,
\* whose chart asks for the label of a GPU besides what the values ask for.
NodeSelector(pod) ==
    CASE pod = "fastapi" -> {<<"workload-type", "general">>}
      [] pod = "vllm" -> {<<"workload-type", "inference">>}
      [] pod = "plugin" -> {<<"workload-type", "inference">>,
                            <<"nvidia.com/gpu.present", "true">>}

\* operator Equal, and operator Exists.
Tolerated(pod) == IF pod = "fastapi" THEN {} ELSE {<<"dedicated", "inference">>}
ToleratedKeys(pod) == IF pod = "fastapi" THEN {} ELSE {"nvidia.com/gpu"}

MayRunOn(pod, nodes) ==
    /\ NodeSelector(pod) \subseteq Labels(nodes)
    /\ \A taint \in Taints(nodes) :
         taint \in Tolerated(pod) \/ taint[1] \in ToleratedKeys(pod)

\* nvidia.com/gpu: a node has it when the device plugin runs there.  A node of the
\* GPU group is an instance with one GPU.
Gpus(app) == IF app = "vllm" THEN 1 ELSE 0
GpusOn(nodes) == IF nodes = "gpu" /\ MayRunOn("plugin", nodes) THEN 1 ELSE 0

Fits(app, nodes) == MayRunOn(app, nodes) /\ Gpus(app) <= GpusOn(nodes)

-----------------------------------------------------------------------------
(* Pod security.                                                            *)

\* What the level restricted asks for beyond baseline.  Neither pod has what
\* baseline forbids.
Asked(level) ==
    IF level = "baseline" THEN {}
    ELSE {"runAsNonRoot", "noPrivilegeEscalation", "dropAll", "seccomp"}

Hardening(app) ==
    IF app = "fastapi" THEN Asked("restricted")
    ELSE {"noPrivilegeEscalation", "dropAll", "seccomp"}

Enforced == "baseline"
Warned == "restricted"

Admitted(app) == Asked(Enforced) \subseteq Hardening(app)

-----------------------------------------------------------------------------
(* Who reaches whom.  Besides the two apps: a pod of the same namespace, a  *)
(* pod of another one, the DNS of the cluster, the VPC link of the gateway, *)
(* the ALB and the internet.                                                *)

OwnPod == App \cup {"neighbour"}
AnyPod == OwnPod \cup {"stranger", "dns"}
Endpoint == AnyPod \cup {"vpclink", "alb", "internet"}
Port == {53, 80, 443, 8000, 8080}

\* A rule names the peers it lets through and the ports.
Rule(peers, ports) == [peers |-> peers, ports |-> ports]
Https == Rule(Endpoint, {443})
DnsEgress == Rule(AnyPod, {53})

\* The policies of a direction: the pods each selects, and its rules.
Ingress ==
    {[pods |-> OwnPod, rules |-> {}],
     [pods |-> {"vllm"}, rules |-> {Rule({"fastapi"}, {8000})}],
     [pods |-> {"fastapi"}, rules |-> {Rule(Endpoint, {8080})}]}

Egress ==
    {[pods |-> {"fastapi"}, rules |-> {DnsEgress, Rule({"vllm"}, {8000}), Https}],
     [pods |-> {"vllm"}, rules |-> {DnsEgress, Https}]}

\* A pod that no policy of the direction selects is free; one that some select
\* needs a rule of one of them.
Allows(policies, pod, peer, port) ==
    (\E policy \in policies : pod \in policy.pods) =>
        \E policy \in policies : /\ pod \in policy.pods
                                 /\ \E rule \in policy.rules :
                                      peer \in rule.peers /\ port \in rule.ports

\* The add-on that applies the policies at all: enableNetworkPolicy.
PoliciesApply == "true"

\* Pods share the security group of the cluster.  The ALB is let in on the port of
\* the API only, the VPC link only to the listener.  Private subnets: what comes
\* from the internet was asked for from within.
SecurityGroups(from, to, port) ==
    \/ from \in AnyPod /\ to \in AnyPod \cup {"internet"}
    \/ from = "alb" /\ to \in AnyPod /\ port = 8080
    \/ from = "vpclink" /\ to = "alb" /\ port = 80

Reaches(from, to, port) ==
    /\ SecurityGroups(from, to, port)
    /\ PoliciesApply = "true" => /\ Allows(Egress, from, to, port)
                                 /\ Allows(Ingress, to, from, port)

-----------------------------------------------------------------------------
(* The edge.  A route is a method, a path and whether a token is asked for. *)

Completions == "/api/v1/chat/completions"
Session == "/api/v1/sessions/{session_id}"
Health == {"/health/live", "/health/ready"}

Authorized == {<<"POST", Completions>>, <<"GET", "/api/v1/models">>,
               <<"GET", "/api/v1/me">>, <<"GET", Session>>, <<"DELETE", Session>>}
Open == {"GET"} \X Health

\* What the API serves, and of that what asks for a token itself.
Guarded == {<<"GET", "/api/v1/me">>, <<"GET", "/api/v1/models">>,
            <<"POST", Completions>>, <<"GET", Session>>, <<"DELETE", Session>>}
Served == Guarded \cup ({"GET"} \X {"/health/live", "/health/ready", "/metrics"})

\* What the screen asks for, with the headers that CORS does not let pass anyway.
ScreenCalls ==
    {[route |-> <<"POST", Completions>>, headers |-> {"Content-Type", "Authorization"}],
     [route |-> <<"DELETE", Session>>, headers |-> {"Authorization"}]}

\* corsPreflight of the gateway.
AllowHeaders == {"Authorization", "Content-Type", "X-Request-ID"}
AllowMethods == {"GET", "POST", "DELETE", "OPTIONS"}

\* A call of the screen gets past the preflight and the gateway, token in hand, to a
\* handler.
PassesTheEdge(call) ==
    /\ call.route[1] \in AllowMethods
    /\ call.headers \subseteq AllowHeaders
    /\ call.route \in Authorized \cap Guarded
    /\ "Authorization" \in call.headers
    /\ Reaches("vpclink", "alb", 80) /\ Reaches("alb", "fastapi", 8080)
=============================================================================
