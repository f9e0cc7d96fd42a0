--------------------------- MODULE TeardownProofs ---------------------------
(* No stack is taken from those that use it, in whatever order cdk destroys  *)
(* the others, and however often destroy.sh is interrupted, fails and is run *)
(* again.                                                                    *)
EXTENDS Teardown, TLAPS

\* cdk destroy has come to a stack past those that are gone.
DestroyedSoFar ==
    script.place \in {"destroy", "destroying"} =>
        \A i \in 1..5 : i < script.at => stack[script.order[i]] = "GONE"

\* The stack that is recovered stays as it was found until it is deleted again.
FailedUntilDeleted ==
    script.place \in {"groups", "cluster", "clear", "delete"} =>
        stack[Recovered[script.at]] = "DELETE_FAILED"

IInv == TypeOK /\ StackOrder /\ DestroyedSoFar /\ FailedUntilDeleted

-----------------------------------------------------------------------------
(* Orders and lists.                                                       *)

\* In every order of cdk destroy, those that use a stack come before it.
LEMMA UsersComeFirst ==
    ASSUME NEW order \in Orders, NEW k \in 1..5, NEW u \in Stack,
           <<u, order[k]>> \in Uses
    PROVE  \E i \in 1..5 : i < k /\ order[i] = u
<1>1. PICK i \in 1..5 : order[i] = u
  BY DEF Orders
<1>2. i < k
  BY <1>1 DEF Orders
<1> QED BY <1>1, <1>2

\* What the recovery pass looks at are stacks.
LEMMA RecoveredList ==
    /\ Len(Recovered) = 4
    /\ \A i \in 1..4 : Recovered[i] \in Stack
<1>1. /\ Recovered[1] = "Eks" /\ Recovered[2] = "Container"
      /\ Recovered[3] = "Auth" /\ Recovered[4] = "Network"
  BY DEF Recovered
<1>2. \A i \in 1..4 : i = 1 \/ i = 2 \/ i = 3 \/ i = 4
  OBVIOUS
<1>3. Len(Recovered) = 4
  BY DEF Recovered
<1> QED BY <1>1, <1>2, <1>3 DEF Stack

-----------------------------------------------------------------------------
(* Scripts.                                                                *)

Scripts == [place : Place, order : Orders \cup {<<>>}, at : 1..5,
            attempt : 1..Attempts, failed : BOOLEAN]

\* A script that begins, looks or ends is a script.
LEMMA ScriptType ==
    ASSUME NEW place \in Place
    PROVE  /\ Script(place) \in Scripts
           /\ Script(place).place = place /\ Script(place).at = 1
  BY DEF Script, Scripts, Attempts

\* Changing the place alone keeps the rest.
LEMMA GotoKeeps ==
    ASSUME script \in Scripts, NEW place \in Place, Goto(place)
    PROVE  /\ script' \in Scripts
           /\ script'.place = place /\ script'.at = script.at
           /\ script'.order = script.order
  BY DEF Goto, Scripts

\* A pass ends at rest or at the next look.
LEMMA PassLooks ==
    ASSUME script \in Scripts, script.at <= 4, Pass
    PROVE  /\ script' \in Scripts
           /\ script'.place \in {"idle", "look"} /\ script'.at <= 4
<1>1. Len(Recovered) = 4
  BY RecoveredList
<1>2. CASE script.at < 4
  <2>1. script' = [script EXCEPT !.place = "look", !.at = script.at + 1]
    BY <1>1, <1>2 DEF Pass
  <2>2. script.at + 1 \in 1..5 /\ script.at + 1 <= 4
    BY <1>2 DEF Scripts
  <2> QED BY <2>1, <2>2 DEF Scripts, Place
<1>3. CASE ~(script.at < 4) /\ script.failed /\ script.attempt < Attempts
  <2>1. script' = [Script("look") EXCEPT !.attempt = script.attempt + 1]
    BY <1>1, <1>3 DEF Pass
  <2>2. script.attempt + 1 \in 1..Attempts
    BY <1>3 DEF Scripts, Attempts
  <2>3. Script("look") \in Scripts /\ Script("look").place = "look" /\ Script("look").at = 1
    BY ScriptType DEF Place
  <2> HIDE DEF Script
  <2> QED BY <2>1, <2>2, <2>3 DEF Scripts
<1>4. CASE ~(script.at < 4) /\ ~(script.failed /\ script.attempt < Attempts)
  <2>1. script' = Script("idle")
    BY <1>1, <1>4 DEF Pass
  <2>2. Script("idle") \in Scripts /\ Script("idle").place = "idle" /\ Script("idle").at = 1
    BY ScriptType DEF Place
  <2> QED BY <2>1, <2>2
<1> QED BY <1>2, <1>3, <1>4

\* What the steps that change no stack have to keep.
LEMMA ScriptMoves ==
    ASSUME IInv, UNCHANGED <<stack, retained>>,
           groups' \in Existence, cluster' \in Existence, vpc' \in {"blocked", "free"},
           script' \in Scripts,
           script'.place \in {"destroy", "destroying"} => script'.order \in Orders,
           script'.place \notin {"idle", "destroy", "destroying"} => script'.at <= 4,
           DestroyedSoFar', FailedUntilDeleted'
    PROVE  IInv'
<1>1. TypeOK'
  BY DEF IInv, TypeOK, Scripts
<1>2. StackOrder'
  BY DEF IInv, StackOrder
<1> QED BY <1>1, <1>2 DEF IInv

\* What becomes of the invariant when one stack changes that was not gone: it had
\* been touched before, or those before it are gone.
LEMMA StackMoves ==
    ASSUME IInv, NEW s \in Stack, NEW status \in Status \ {"LIVE"},
           stack' = [stack EXCEPT ![s] = status],
           stack[s] # "GONE",
           \/ stack[s] # "LIVE"
           \/ \A u \in Stack : <<u, s>> \in Uses => stack[u] = "GONE"
    PROVE  /\ stack' \in [Stack -> Status]
           /\ StackOrder'
           /\ \A q \in Stack : stack[q] = "GONE" => stack'[q] = "GONE"
<1>1. stack' \in [Stack -> Status]
  BY DEF IInv, TypeOK
<1>2. \A q \in Stack : stack[q] = "GONE" => stack'[q] = "GONE"
  BY DEF IInv, TypeOK
<1>3. StackOrder'
  <2> SUFFICES ASSUME NEW u \in Stack, NEW q \in Stack, <<u, q>> \in Uses,
                      stack'[q] # "LIVE"
               PROVE  stack'[u] = "GONE"
    BY DEF StackOrder
  <2>1. CASE stack[q] # "LIVE"
    BY <1>2, <2>1 DEF IInv, StackOrder
  <2>2. CASE stack[q] = "LIVE"
    <3>1. q = s
      BY <2>2 DEF IInv, TypeOK
    <3>2. stack[u] = "GONE"
      BY <3>1, <2>2
    <3> QED BY <3>2, <1>2
  <2> QED BY <2>1, <2>2
<1> QED BY <1>1, <1>2, <1>3

-----------------------------------------------------------------------------
(* The invariant.                                                          *)

\* Before the script has run.
LEMMA InitIInv == Init => IInv
<1> SUFFICES ASSUME Init PROVE IInv
  OBVIOUS
<1>1. script \in Scripts /\ script.place = "idle"
  BY ScriptType DEF Init, Place
<1>2. TypeOK
  BY <1>1 DEF Init, TypeOK, Scripts, Status, Existence
<1>3. StackOrder
  BY DEF Init, StackOrder
<1> QED BY <1>1, <1>2, <1>3 DEF IInv, DestroyedSoFar, FailedUntilDeleted

\* The steps of cdk destroy.
LEMMA CdkStep ==
    ASSUME IInv, NEW s \in Stack, CdkDestroy(s) \/ CdkNext(s) \/ CdkFails(s)
    PROVE  IInv'
<1>0. /\ script \in Scripts /\ script.order \in Orders /\ script.order[script.at] = s
      /\ script.place \in {"destroy", "destroying"}
      /\ \A i \in 1..5 : i < script.at => stack[script.order[i]] = "GONE"
  BY DEF CdkDestroy, CdkNext, CdkFails, AtDestroyed, IInv, TypeOK, Scripts, DestroyedSoFar
<1>1. CASE CdkDestroy(s)
  <2>1. /\ stack' = [stack EXCEPT ![s] = "DELETE_IN_PROGRESS"] /\ stack[s] # "GONE"
        /\ retained' \in BOOLEAN /\ UNCHANGED <<groups, cluster, vpc>>
        /\ Goto("destroying")
    BY <1>1 DEF CdkDestroy, IInv, TypeOK
  <2>2. /\ script' \in Scripts /\ script'.place = "destroying"
        /\ script'.at = script.at /\ script'.order = script.order
    BY <1>0, <2>1, GotoKeeps DEF Place
  <2>3. \A u \in Stack : <<u, s>> \in Uses => stack[u] = "GONE"
    BY <1>0, UsersComeFirst DEF Scripts
  <2>4. "DELETE_IN_PROGRESS" \in Status \ {"LIVE"}
    BY DEF Status
  <2>5. /\ stack' \in [Stack -> Status] /\ StackOrder'
        /\ \A q \in Stack : stack[q] = "GONE" => stack'[q] = "GONE"
    BY <2>1, <2>3, <2>4, StackMoves
  <2>6. TypeOK'
    BY <1>0, <2>1, <2>2, <2>5 DEF IInv, TypeOK, Scripts
  <2>7. \A i \in 1..5 : script.order[i] \in Stack
    BY <1>0 DEF Orders
  <2>8. DestroyedSoFar' /\ FailedUntilDeleted'
    BY <1>0, <2>2, <2>5, <2>7 DEF DestroyedSoFar, FailedUntilDeleted
  <2> QED BY <2>5, <2>6, <2>8 DEF IInv
<1>2. CASE CdkFails(s) \/ (CdkNext(s) /\ script' = Script("look"))
  <2>1. UNCHANGED aws /\ script' = Script("look")
    BY <1>2 DEF CdkFails, CdkNext
  <2>2. script' \in Scripts /\ script'.place = "look" /\ script'.at = 1
    BY <2>1, ScriptType DEF Place
  <2>3. DestroyedSoFar' /\ FailedUntilDeleted'
    BY <2>2 DEF DestroyedSoFar, FailedUntilDeleted
  <2> QED BY <2>1, <2>2, <2>3, ScriptMoves DEF aws, IInv, TypeOK
<1>3. CASE CdkNext(s) /\ script' # Script("look")
  <2>1. /\ UNCHANGED aws /\ stack[s] = "GONE" /\ script.at < 5
        /\ script' = [script EXCEPT !.place = "destroy", !.at = script.at + 1]
    BY <1>3 DEF CdkNext
  <2>2. /\ script' \in Scripts /\ script'.place = "destroy"
        /\ script'.at = script.at + 1 /\ script'.order = script.order
    <3>1. script.at + 1 \in 1..5
      BY <1>0, <2>1 DEF Scripts
    <3> QED BY <1>0, <2>1, <3>1 DEF Scripts, Place
  <2>3. DestroyedSoFar'
    <3> SUFFICES ASSUME NEW i \in 1..5, i < script.at + 1 PROVE stack[script.order[i]] = "GONE"
      BY <2>1, <2>2 DEF DestroyedSoFar, aws
    <3>1. i < script.at \/ i = script.at
      BY <1>0 DEF Scripts
    <3> QED BY <1>0, <2>1, <3>1
  <2>4. FailedUntilDeleted'
    BY <2>2 DEF FailedUntilDeleted
  <2> QED BY <1>0, <2>1, <2>2, <2>3, <2>4, ScriptMoves DEF aws, IInv, TypeOK
<1> QED BY <1>1, <1>2, <1>3

\* The steps of the script that touch no stack.
LEMMA QuietStep ==
    ASSUME IInv,
           \/ Start \/ Interrupt
           \/ Skip \/ Waited
           \/ \E s \in Stack : Recover(s)
           \/ ClusterNotFound \/ DeleteGroups \/ DeleteCluster \/ Clear \/ CommandFails
    PROVE  IInv'
<1>0. /\ script \in Scripts
      /\ script.place \notin {"idle", "destroy", "destroying"} => script.at <= 4
      /\ groups \in Existence /\ cluster \in Existence /\ vpc \in {"blocked", "free"}
  BY DEF IInv, TypeOK, Scripts
<1>1. CASE Start \/ Interrupt
  <2>1. \/ script' = Script("idle")
        \/ \E order \in Orders : script' = [Script("destroy") EXCEPT !.order = order]
    BY <1>1 DEF Start, Interrupt
  <2>2. /\ script' \in Scripts /\ script'.place \in {"destroy", "idle"} /\ script'.at = 1
        /\ script'.place = "destroy" => script'.order \in Orders
    <3>1. CASE script' = Script("idle")
      BY <3>1, ScriptType DEF Place
    <3>2. ASSUME NEW order \in Orders, script' = [Script("destroy") EXCEPT !.order = order]
          PROVE  script' \in Scripts /\ script'.place = "destroy" /\ script'.at = 1
                 /\ script'.order \in Orders
      <4>1. /\ Script("destroy") \in Scripts
            /\ Script("destroy").place = "destroy" /\ Script("destroy").at = 1
        BY ScriptType DEF Place
      <4> HIDE DEF Script
      <4> QED BY <3>2, <4>1 DEF Scripts
    <3> QED BY <2>1, <3>1, <3>2
  <2>3. DestroyedSoFar' /\ FailedUntilDeleted'
    BY <2>2 DEF DestroyedSoFar, FailedUntilDeleted
  <2> QED BY <1>0, <1>1, <2>2, <2>3, ScriptMoves DEF aws, Start, Interrupt
<1>2. CASE Skip \/ Waited
  <2>1. Pass /\ UNCHANGED aws /\ script.at <= 4
    BY <1>0, <1>2 DEF Skip, Waited
  <2>2. /\ script' \in Scripts /\ script'.place \in {"idle", "look"}
        /\ script'.at <= 4
    BY <1>0, <2>1, PassLooks
  <2>3. DestroyedSoFar' /\ FailedUntilDeleted'
    BY <2>2 DEF DestroyedSoFar, FailedUntilDeleted
  <2> QED BY <1>0, <2>1, <2>2, <2>3, ScriptMoves DEF aws
<1>3. ASSUME NEW s \in Stack, Recover(s) PROVE IInv'
  <2>1. /\ UNCHANGED aws /\ stack[s] = "DELETE_FAILED" /\ Recovered[script.at] = s
        /\ script.at <= 4
        /\ script' = [script EXCEPT !.failed = TRUE, !.place = Recovery(s)]
    BY <1>0, <1>3 DEF Recover, AtRecovered
  <2>2. Recovery(s) \in {"groups", "clear", "delete"}
    BY DEF Recovery
  <2>3. /\ script' \in Scripts /\ script'.place \in {"groups", "clear", "delete"}
        /\ script'.at = script.at
    BY <1>0, <2>1, <2>2 DEF Scripts, Place
  <2>4. DestroyedSoFar' /\ FailedUntilDeleted'
    BY <2>1, <2>3 DEF DestroyedSoFar, FailedUntilDeleted, aws
  <2> QED BY <1>0, <2>1, <2>3, <2>4, ScriptMoves DEF aws
<1>4. CASE ClusterNotFound \/ DeleteGroups \/ DeleteCluster \/ Clear \/ CommandFails
  <2>1. script.place \in {"groups", "cluster", "clear", "delete"}
    BY <1>4 DEF ClusterNotFound, DeleteGroups, DeleteCluster, Clear, CommandFails
  <2>2. PICK place \in {"cluster", "delete", "deleting"} : Goto(place)
    BY <1>4, <2>1 DEF ClusterNotFound, DeleteGroups, DeleteCluster, Clear, CommandFails
  <2>3. script' \in Scripts /\ script'.place = place /\ script'.at = script.at
    BY <1>0, <2>2, GotoKeeps DEF Place
  <2>4. /\ UNCHANGED <<stack, retained>>
        /\ groups' \in Existence /\ cluster' \in Existence /\ vpc' \in {"blocked", "free"}
    BY <1>0, <1>4 DEF ClusterNotFound, DeleteGroups, DeleteCluster, Clear, CommandFails,
         aws, Existence
  <2>5. DestroyedSoFar' /\ FailedUntilDeleted'
    BY <2>1, <2>3, <2>4 DEF IInv, DestroyedSoFar, FailedUntilDeleted
  <2> QED BY <1>0, <2>1, <2>3, <2>4, <2>5, ScriptMoves
<1> QED BY <1>1, <1>2, <1>3, <1>4

\* delete-stack of the recovery pass, for a stack found in DELETE_FAILED.
LEMMA DeleteStep == ASSUME IInv, NEW s \in Stack, Delete(s) PROVE IInv'
<1>1. /\ stack' = [stack EXCEPT ![s] = "DELETE_IN_PROGRESS"] /\ stack[s] = "DELETE_FAILED"
      /\ script.place = "delete" /\ script.at <= 4 /\ script \in Scripts
      /\ retained' \in BOOLEAN /\ UNCHANGED <<groups, cluster, vpc>> /\ Goto("deleting")
  BY DEF Delete, AtRecovered, IInv, TypeOK, FailedUntilDeleted, Scripts
<1>2. /\ script' \in Scripts /\ script'.place = "deleting"
      /\ script'.at = script.at
  BY <1>1, GotoKeeps DEF Place
<1>3. "DELETE_IN_PROGRESS" \in Status \ {"LIVE"}
  BY DEF Status
<1>4. stack' \in [Stack -> Status] /\ StackOrder'
  BY <1>1, <1>3, StackMoves
<1>5. TypeOK'
  BY <1>1, <1>2, <1>4 DEF IInv, TypeOK, Scripts
<1> QED BY <1>2, <1>4, <1>5 DEF IInv, DestroyedSoFar, FailedUntilDeleted

\* What CloudFormation does with a stack whose deletion is under way.
LEMMA StackStep == ASSUME IInv, NEW s \in Stack, StackDeleted(s) \/ StackFails(s) PROVE IInv'
<1>1. PICK status \in {"GONE", "DELETE_FAILED"} : stack' = [stack EXCEPT ![s] = status]
  BY DEF StackDeleted, StackFails
<1>2. stack[s] = "DELETE_IN_PROGRESS" /\ UNCHANGED <<retained, script>>
  BY DEF StackDeleted, StackFails
<1>3. status \in Status \ {"LIVE"}
  BY DEF Status
<1>4. /\ stack' \in [Stack -> Status] /\ StackOrder'
      /\ \A q \in Stack : stack[q] = "GONE" => stack'[q] = "GONE"
  BY <1>1, <1>2, <1>3, StackMoves
<1>5. groups' \in Existence /\ cluster' \in Existence /\ vpc' \in {"blocked", "free"}
  BY DEF StackDeleted, StackFails, IInv, TypeOK, Existence
<1>6. TypeOK'
  BY <1>2, <1>4, <1>5 DEF IInv, TypeOK
<1>7. DestroyedSoFar'
  <2>1. script.order \in Orders => \A i \in 1..5 : script.order[i] \in Stack
    BY DEF Orders
  <2> QED BY <1>2, <1>4, <2>1 DEF IInv, TypeOK, DestroyedSoFar
<1>8. FailedUntilDeleted'
  <2> SUFFICES ASSUME script.place \in {"groups", "cluster", "clear", "delete"}
               PROVE  stack'[Recovered[script.at]] = "DELETE_FAILED"
    BY <1>2 DEF FailedUntilDeleted
  <2>1. script.at \in 1..4
    BY DEF IInv, TypeOK
  <2>2. Recovered[script.at] \in Stack /\ stack[Recovered[script.at]] = "DELETE_FAILED"
    BY <2>1, RecoveredList DEF IInv, FailedUntilDeleted
  <2> QED BY <1>1, <1>2, <2>2 DEF IInv, TypeOK
<1> QED BY <1>4, <1>6, <1>7, <1>8 DEF IInv

\* Every step keeps the invariant.
LEMMA NextIInv == IInv /\ [Next]_vars => IInv'
<1> SUFFICES ASSUME IInv, [Next]_vars PROVE IInv'
  OBVIOUS
<1>1. ASSUME NEW s \in Stack, CdkDestroy(s) \/ CdkNext(s) \/ CdkFails(s) PROVE IInv'
  BY <1>1, CdkStep
<1>2. ASSUME NEW s \in Stack, Recover(s) PROVE IInv'
  BY <1>2, QuietStep
<1>3. ASSUME NEW s \in Stack, Delete(s) PROVE IInv'
  BY <1>3, DeleteStep
<1>4. ASSUME NEW s \in Stack, StackDeleted(s) \/ StackFails(s) PROVE IInv'
  BY <1>4, StackStep
<1>5. CASE Start \/ Interrupt \/ Skip \/ Waited \/ ClusterNotFound \/ DeleteGroups
             \/ DeleteCluster \/ Clear \/ CommandFails
  BY <1>5, QuietStep
<1>6. CASE GroupsDeleted \/ GroupsFail \/ ClusterDeleted \/ ClusterFails
  BY <1>6 DEF GroupsDeleted, GroupsFail, ClusterDeleted, ClusterFails, IInv, TypeOK,
       StackOrder, DestroyedSoFar, FailedUntilDeleted, Existence
<1>7. CASE UNCHANGED vars
  BY <1>7 DEF IInv, TypeOK, StackOrder, DestroyedSoFar, FailedUntilDeleted, vars, aws
<1>8. ScriptStep => IInv'
  BY <1>1, <1>2, <1>3, <1>5 DEF ScriptStep
<1> QED BY <1>1, <1>4, <1>5, <1>6, <1>7, <1>8 DEF Next

-----------------------------------------------------------------------------
(* The theorems.                                                           *)

\* The invariant holds throughout.
LEMMA SpecIInv == Spec => []IInv
  BY InitIInv, NextIInv, PTL DEF Spec

\* Every variable keeps its type; the pass is not begun a fourth time
\* (destroy.sh:120-135).
THEOREM TypeCorrect == Spec => []TypeOK
<1>1. IInv => TypeOK
  BY DEF IInv
<1> QED BY <1>1, SpecIInv, PTL

\* However often the script is interrupted and run again, whatever fails in it,
\* and in whatever order cdk takes independent stacks, none is touched before
\* those that use it are gone (destroy.sh:50-58, application-stage.ts:44-76).
THEOREM StacksGoInOrder == Spec => []StackOrder
<1>1. IInv => StackOrder
  BY DEF IInv
<1> QED BY <1>1, SpecIInv, PTL

=============================================================================
