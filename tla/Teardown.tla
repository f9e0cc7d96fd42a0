------------------------------ MODULE Teardown ------------------------------
(***************************************************************************)
(* scripts/destroy.sh: cdk destroy of the five stacks, and the recovery    *)
(* pass over those that are left in DELETE_FAILED.                         *)
(*                                                                         *)
(* Most commands of the script end in "|| true": one that fails changes    *)
(* nothing and the script goes on.  A wait ends when what it waits for is  *)
(* over or when the AWS CLI stops waiting, so that the command after it    *)
(* may come at any time.  The script may be interrupted and run again.     *)
(***************************************************************************)
EXTENDS Stacks, Naturals, Sequences

VARIABLES
    stack,      \* what CloudFormation says of each stack
    retained,   \* the deletion of Eks leaves its custom resources out
    groups,     \* the node groups of the EKS cluster
    cluster,    \* the EKS cluster
    vpc,        \* whether ENIs and the security group of the cluster block it
    script      \* where destroy.sh is

aws == <<stack, retained, groups, cluster, vpc>>
vars == <<aws, script>>

Status == {"LIVE", "DELETE_IN_PROGRESS", "DELETE_FAILED", "GONE"}
Existence == {"up", "deleting", "gone"}

\* The orders in which cdk may destroy the stacks: each after those that use it.
Orders ==
    {order \in [1..5 -> Stack] :
        /\ \A s \in Stack : \E i \in 1..5 : order[i] = s
        /\ \A i, j \in 1..5 : <<order[i], order[j]>> \in Uses => i < j}

\* The order in which they are recovered.
Recovered == <<"Eks", "Container", "Auth", "Network">>
Attempts == 3

Place == {"idle", "destroy", "destroying", "look", "groups", "cluster", "clear",
          "delete", "deleting"}

TypeOK ==
    /\ stack \in [Stack -> Status]
    /\ retained \in BOOLEAN
    /\ groups \in Existence /\ cluster \in Existence
    /\ vpc \in {"blocked", "free"}
    /\ script \in [place : Place, order : Orders \cup {<<>>}, at : 1..5,
                  attempt : 1..Attempts, failed : BOOLEAN]
    /\ script.place \in {"destroy", "destroying"} => script.order \in Orders
    /\ script.place \notin {"idle", "destroy", "destroying"} => script.at <= 4

Script(place) ==
    [place |-> place, order |-> <<>>, at |-> 1, attempt |-> 1, failed |-> FALSE]

Init ==
    /\ stack = [s \in Stack |-> "LIVE"]
    /\ retained = FALSE
    /\ groups = "up" /\ cluster = "up" /\ vpc = "blocked"
    /\ script = Script("idle")

Goto(place) == script' = [script EXCEPT !.place = place]

-----------------------------------------------------------------------------
(* cdk destroy.                                                            *)

Start ==
    /\ script.place = "idle"
    /\ \E order \in Orders : script' = [Script("destroy") EXCEPT !.order = order]
    /\ UNCHANGED aws

\* Somebody stops the script, or its machine stops.
Interrupt ==
    /\ script.place # "idle"
    /\ script' = Script("idle")
    /\ UNCHANGED aws

AtDestroyed(s) ==
    script.place \in {"destroy", "destroying"} /\ script.order[script.at] = s

\* A stack whose deletion is under way is only waited for.
CdkDestroy(s) ==
    /\ AtDestroyed(s) /\ script.place = "destroy"
    /\ stack[s] # "GONE"
    /\ stack' = [stack EXCEPT ![s] = "DELETE_IN_PROGRESS"]
    /\ retained' = (retained /\ (s = "Eks" => stack[s] = "DELETE_IN_PROGRESS"))
    /\ Goto("destroying")
    /\ UNCHANGED <<groups, cluster, vpc>>

CdkNext(s) ==
    /\ AtDestroyed(s)
    /\ stack[s] = "GONE"
    /\ script' = IF script.at < 5
                 THEN [script EXCEPT !.place = "destroy", !.at = @ + 1]
                 ELSE Script("look")
    /\ UNCHANGED aws

\* An error does not keep cdk from the next stack.
CdkFailsAndGoesOn(s) ==
    /\ AtDestroyed(s)
    /\ script' = IF script.at < 5
                 THEN [script EXCEPT !.place = "destroy", !.at = @ + 1]
                 ELSE Script("look")
    /\ UNCHANGED aws

\* The first error ends cdk destroy: a stack that is left in DELETE_FAILED, or
\* one of the command itself.  The stacks after it are not tried.
CdkFails(s) ==
    /\ AtDestroyed(s)
    /\ script' = Script("look")
    /\ UNCHANGED aws

-----------------------------------------------------------------------------
(* The recovery pass.                                                      *)

\* The pass may be repeated once more than that.
PassOnceMore ==
    script' = IF script.at < Len(Recovered)
              THEN [script EXCEPT !.place = "look", !.at = @ + 1]
              ELSE IF script.failed /\ script.attempt <= Attempts
              THEN [Script("look") EXCEPT !.attempt = script.attempt + 1]
              ELSE Script("idle")

\* The pass is repeated for as long as it finds something.
PassUntilClean ==
    script' = IF script.at < Len(Recovered)
              THEN [script EXCEPT !.place = "look", !.at = @ + 1]
              ELSE IF script.failed THEN Script("look")
              ELSE Script("idle")

\* On to the next stack; after the last one, the pass is repeated if it found a
\* stack to recover, and not more than three times.
Pass ==
    script' = IF script.at < Len(Recovered)
              THEN [script EXCEPT !.place = "look", !.at = @ + 1]
              ELSE IF script.failed /\ script.attempt < Attempts
              THEN [Script("look") EXCEPT !.attempt = script.attempt + 1]
              ELSE Script("idle")

AtRecovered(s) ==
    script.place \notin {"idle", "destroy", "destroying"} /\ Recovered[script.at] = s

\* A stack is deleted again as it is.
RecoveryAsItIs(s) == IF s = "Eks" THEN "groups" ELSE "delete"

\* What is done about it before a stack is deleted again.
Recovery(s) ==
    CASE s = "Eks" -> "groups"
      [] s = "Network" -> "clear"
      [] OTHER -> "delete"

Recover(s) ==
    /\ AtRecovered(s) /\ script.place = "look"
    /\ stack[s] = "DELETE_FAILED"
    /\ script' = [script EXCEPT !.failed = TRUE, !.place = Recovery(s)]
    /\ UNCHANGED aws

\* Any other status, and one that cannot be read.
Skip ==
    /\ script.place = "look"
    /\ Pass
    /\ UNCHANGED aws

\* ensure_cluster_deleted: nothing to do, or so it seems.
ClusterNotFound ==
    /\ script.place = "groups"
    /\ Goto("delete")
    /\ UNCHANGED aws

DeleteGroups ==
    /\ script.place = "groups"
    /\ cluster # "gone" /\ groups = "up"
    /\ groups' = "deleting"
    /\ Goto("cluster")
    /\ UNCHANGED <<stack, retained, cluster, vpc>>

\* Refused while the cluster has node groups.
DeleteCluster ==
    /\ script.place = "cluster"
    /\ cluster = "up" /\ groups = "gone"
    /\ cluster' = "deleting"
    /\ Goto("delete")
    /\ UNCHANGED <<stack, retained, groups, vpc>>

\* clear_cluster_sg_and_enis: what a cluster uses cannot be deleted.
Clear ==
    /\ script.place = "clear"
    /\ cluster = "gone"
    /\ vpc' = "free"
    /\ Goto("delete")
    /\ UNCHANGED <<stack, retained, groups, cluster>>

\* delete-stack.  For Eks, the custom resources that are not deleted yet are
\* retained; there are none if they cannot be listed.
Delete(s) ==
    /\ AtRecovered(s) /\ script.place = "delete"
    /\ stack' = [stack EXCEPT ![s] = "DELETE_IN_PROGRESS"]
    /\ retained' \in IF s = "Eks" THEN BOOLEAN ELSE {retained}
    /\ Goto("deleting")
    /\ UNCHANGED <<groups, cluster, vpc>>

\* A command fails.
CommandFails ==
    /\ script.place \in {"groups", "cluster", "clear", "delete"}
    /\ Goto(CASE script.place = "groups" -> "cluster"
              [] script.place \in {"cluster", "clear"} -> "delete"
              [] script.place = "delete" -> "deleting")
    /\ UNCHANGED aws

Waited ==
    /\ script.place = "deleting"
    /\ Pass
    /\ UNCHANGED aws

-----------------------------------------------------------------------------
(* AWS.                                                                    *)

\* Eks takes its node groups along, and its cluster unless that is retained; the
\* cluster may leave its security group and ENIs behind.  A VPC goes only when
\* nothing is left in it.
StackDeleted(s) ==
    /\ stack[s] = "DELETE_IN_PROGRESS"
    /\ s = "Network" => vpc = "free" /\ cluster = "gone"
    /\ stack' = [stack EXCEPT ![s] = "GONE"]
    /\ groups' = IF s = "Eks" THEN "gone" ELSE groups
    /\ IF s = "Eks" /\ ~retained
       THEN cluster' = "gone" /\ vpc' \in {vpc, "free"}
       ELSE UNCHANGED <<cluster, vpc>>
    /\ UNCHANGED <<retained, script>>

\* A deletion may fail at any of the resources.
StackFails(s) ==
    /\ stack[s] = "DELETE_IN_PROGRESS"
    /\ stack' = [stack EXCEPT ![s] = "DELETE_FAILED"]
    /\ \/ UNCHANGED <<groups, cluster, vpc>>
       \/ s = "Eks" /\ groups' = "gone" /\ UNCHANGED <<cluster, vpc>>
       \/ s = "Eks" /\ ~retained /\ groups' = "gone" /\ cluster' = "gone"
            /\ vpc' \in {vpc, "free"}
    /\ UNCHANGED <<retained, script>>

GroupsDeleted ==
    /\ groups = "deleting" /\ groups' = "gone"
    /\ UNCHANGED <<stack, retained, cluster, vpc, script>>

GroupsFail ==
    /\ groups = "deleting" /\ groups' = "up"
    /\ UNCHANGED <<stack, retained, cluster, vpc, script>>

ClusterDeleted ==
    /\ cluster = "deleting" /\ cluster' = "gone" /\ vpc' \in {vpc, "free"}
    /\ UNCHANGED <<stack, retained, groups, script>>

ClusterFails ==
    /\ cluster = "deleting" /\ cluster' = "up"
    /\ UNCHANGED <<stack, retained, groups, vpc, script>>

-----------------------------------------------------------------------------

\* What the script does of itself.
ScriptStep ==
    \/ \E s \in Stack : \/ CdkDestroy(s) \/ CdkNext(s)
                        \/ stack[s] = "DELETE_FAILED" /\ script.place = "destroying" /\ CdkFails(s)
                        \/ Recover(s) \/ Delete(s)
    \/ Skip \/ ClusterNotFound \/ DeleteGroups \/ DeleteCluster \/ Clear
    \/ CommandFails \/ Waited

Next ==
    \/ Start \/ Interrupt
    \/ ScriptStep
    \/ \E s \in Stack : CdkFails(s) \/ StackDeleted(s) \/ StackFails(s)
    \/ GroupsDeleted \/ GroupsFail \/ ClusterDeleted \/ ClusterFails

Spec == Init /\ [][Next]_vars

\* The script goes on by itself and is run again, and CloudFormation ends what it
\* began, one way or the other.
Fairness ==
    /\ WF_vars(ScriptStep) /\ WF_vars(Start)
    /\ WF_vars(\E s \in Stack : StackDeleted(s) \/ StackFails(s))

FairSpec == Spec /\ Fairness

-----------------------------------------------------------------------------
(* What must hold.                                                         *)

\* A stack is touched only when those that use it are gone, however often the
\* script was interrupted, failed and was run again.
StackOrder ==
    \A u, s \in Stack :
        <<u, s>> \in Uses /\ stack[s] # "LIVE" => stack[u] = "GONE"

\* The waits for the node groups and for the cluster may end before they are
\* gone, and delete-cluster may be refused; the cluster is then among the custom
\* resources that are retained, although "nothing real is orphaned"
\* (destroy.sh:14-15, 76-77).
Orphaned == stack["Eks"] = "GONE" /\ cluster # "gone"

\* A run of the script comes to its end, whatever cannot be deleted.
RunEnds == script.place # "idle" ~> script.place = "idle"

\* What goes wrong although it could have gone well: all of it may happen again
\* and again.
Failure ==
    \/ ~ScriptStep /\ (Interrupt \/ \E s \in Stack : CdkFails(s))
    \/ CommandFails /\ \/ script.place = "delete"
                       \/ script.place = "clear" /\ cluster = "gone" /\ vpc = "blocked"
    \/ \E s \in Stack :
         \/ AtRecovered(s) /\ stack[s] = "DELETE_FAILED" /\ Skip
         \/ StackFails(s) /\ (s = "Network" => vpc = "free" /\ cluster = "gone")

\* destroy.sh:22 and 189: if something is left, run it again.  When the failures
\* end, all stacks are gone at last, wherever the failures left them, unless a
\* cluster is left that no stack knows of.
ReRunsFinish ==
    <>[][~Failure]_vars =>
        <>[](\A s \in Stack : stack[s] = "GONE") \/ <>[]Orphaned

=============================================================================
