-------------------------- MODULE DeploymentProofs --------------------------
(* What holds of deploy.sh for every number of shells, of edits and of       *)
(* images that the repository keeps.                                         *)
EXTENDS Deployment, TLAPS

\* What is left of a phase: cdk comes to Auth first, to Amplify last.
TodoInv ==
    \A d \in Deployer :
        /\ run[d].todo \in {{}, {"Eks", "Amplify"}, {"Amplify"}}
        /\ run[d].place \notin {"phase2", "phase3"} => run[d].todo = {}
        /\ run[d].place = "phase3" => run[d].url = "amplify"

-----------------------------------------------------------------------------
(* Images.                                                                 *)

Pushed(tag) == \E i \in DOMAIN pushed : pushed[i] = tag

\* The rule takes what is old enough; a tag that it left is not pushed again.
RegistryInv ==
    /\ pushed \in Seq(Tag) /\ expired \in 0..Len(pushed)
    /\ expired = 0 \/ expired + MaxImages <= Len(pushed)
    /\ \A i, j \in DOMAIN pushed : i < j /\ pushed[i] = pushed[j] => i + MaxImages < j

\* What is run, or is going to be, has been pushed.
ImageInv ==
    /\ \A d \in Deployer :
         /\ run[d].place \in {"phase2", "resolve", "phase3"} => Pushed(run[d].image)
         /\ run[d].place \in {"build", "push"} => run[d].image # None
    /\ stack["Eks"] # None => Pushed(stack["Eks"].image)
    /\ oldest # None => Pushed(oldest)

-----------------------------------------------------------------------------
(* Wiring.  A script that has begun owes each stack that names the address *)
(* of the SPA its rewiring in phase 3: until it has come to that stack, and *)
(* when it failed before.                                                  *)

Early == {"phase0", "phase1", "build", "push", "phase2", "resolve", "failed"}

Owes(r, s) == r.place \in Early \/ (r.place = "phase3" /\ s \in TodoOf(r))

WiredInv ==
    \A s \in Resolved :
        (\E d \in Deployer : run[d].place # "idle") =>
            (\E d \in Deployer : Owes(run[d], s)) \/ stack[s].redirect = "amplify"

\* A script ends well only when its SPA is served; what is served or on its way
\* was started by a script.
ServedInv ==
    /\ site \in {None, "amplify"}
    /\ \A d \in Deployer : run[d].place = "done" \/ job[d] = "SUCCEED" => site # None
    /\ \A d \in Deployer : job[d] # None => run[d].place # "idle"
    /\ site # None => \E d \in Deployer : run[d].place # "idle"

-----------------------------------------------------------------------------
(* Types.                                                                  *)

Runs == [place : Place, todo : SUBSET Resolved, image : Tag \cup {None},
         url : Redirect \cup {None}]

\* A script that begins or ends is a script.
LEMMA NewRunType ==
    ASSUME NEW place \in Place
    PROVE  /\ NewRun(place) \in Runs
           /\ NewRun(place).place = place /\ NewRun(place).todo = {}
  BY DEF NewRun, Runs

-----------------------------------------------------------------------------
(* The invariant.                                                          *)

IInv == TypeOK /\ TodoInv /\ RegistryInv /\ ImageInv /\ WiredInv /\ ServedInv

\* What the invariant says of one script.
LEMMA RunFacts ==
    ASSUME IInv, NEW d \in Deployer
    PROVE  /\ run \in [Deployer -> Runs] /\ run[d] \in Runs
           /\ run[d].place \notin {"phase2", "phase3"} => run[d].todo = {}
           /\ job \in [Deployer -> Status \cup {None}]
           /\ stack \in [Resolved -> Template \cup {None}]
           /\ edits \in Version
           /\ tree \in [head : 0..edits, version : 0..edits, dirty : BOOLEAN]
           /\ 0..edits \subseteq Version
<1>1. edits \in Version => 0..edits \subseteq Version
  BY EditsAssumption DEF Version
<1> QED BY <1>1 DEF IInv, TypeOK, TodoInv, Runs

\* Before any script has run.
LEMMA InitIInv == Init => IInv
<1> SUFFICES ASSUME Init PROVE IInv
  OBVIOUS
<1>1. \A d \in Deployer : /\ run[d] = NewRun("idle") /\ NewRun("idle") \in Runs
                          /\ run[d].place = "idle" /\ run[d].todo = {}
  BY NewRunType DEF Init, Place
<1>2. TypeOK
  <2>1. 0 \in Version
    BY EditsAssumption DEF Version
  <2> QED BY <1>1, <2>1 DEF Init, TypeOK, Runs
<1>3. TodoInv
  BY <1>1 DEF TodoInv
<1>4. RegistryInv
  BY ImagesAssumption DEF Init, RegistryInv
<1>5. ImageInv
  BY <1>1 DEF Init, ImageInv, Resolved
<1>6. WiredInv
  BY <1>1 DEF WiredInv
<1>7. ServedInv
  BY <1>1, NoneAssumption DEF Init, ServedInv, Status
<1> QED BY <1>2, <1>3, <1>4, <1>5, <1>6, <1>7 DEF IInv

\* An edit touches the checkout alone.
LEMMA EditStep == IInv /\ Edit => IInv'
<1> SUFFICES ASSUME IInv, Edit PROVE IInv'
  OBVIOUS
<1> USE DEF Edit, world, ecr
<1>1. TypeOK'
  <2>1. edits' \in Version /\ 0..edits \subseteq 0..edits' /\ edits' \in 0..edits'
    BY EditsAssumption DEF IInv, TypeOK, Version
  <2> QED BY <2>1 DEF IInv, TypeOK
<1>2. TodoInv' /\ RegistryInv' /\ ImageInv' /\ WiredInv' /\ ServedInv'
  BY DEF IInv, TodoInv, RegistryInv, ImageInv, Pushed, WiredInv, ServedInv
<1> QED BY <1>1, <1>2 DEF IInv

\* So does a commit.
LEMMA CommitStep == IInv /\ Commit => IInv'
<1> SUFFICES ASSUME IInv, Commit PROVE IInv'
  OBVIOUS
<1> USE DEF Commit, world, ecr
<1>1. TypeOK'
  BY DEF IInv, TypeOK
<1>2. TodoInv' /\ RegistryInv' /\ ImageInv' /\ WiredInv' /\ ServedInv'
  BY DEF IInv, TodoInv, RegistryInv, ImageInv, Pushed, WiredInv, ServedInv
<1> QED BY <1>1, <1>2 DEF IInv

\* The lifecycle rule of the repository takes an image (container-stack.ts:35-37).
LEMMA ExpireStep == IInv /\ Expire => IInv'
<1> SUFFICES ASSUME IInv, Expire PROVE IInv'
  OBVIOUS
<1>1. /\ Len(pushed) - expired > MaxImages /\ expired' = expired + 1
      /\ UNCHANGED <<edits, tree, pushed, stack, job, site, oldest, run>>
  BY DEF Expire, sources
<1>2. RegistryInv'
  BY <1>1, ImagesAssumption DEF IInv, RegistryInv
<1>3. TypeOK'
  BY <1>1, <1>2 DEF IInv, TypeOK, RegistryInv
<1>4. TodoInv' /\ ImageInv' /\ WiredInv' /\ ServedInv'
  BY <1>1 DEF IInv, TodoInv, ImageInv, Pushed, WiredInv, ServedInv
<1> QED BY <1>2, <1>3, <1>4 DEF IInv

\* Which stack cdk deploy comes to, and what it leaves.
LEMMA TodoStep ==
    ASSUME TodoInv, NEW d \in Deployer, NEW s, DeployStack(d, s)
    PROVE  /\ s \in Resolved
           /\ TodoOf(run[d]) \ {s} \in {{}, {"Eks", "Amplify"}, {"Amplify"}}
           /\ TodoOf(run[d]) = {s} <=> TodoOf(run[d]) \ {s} = {}
<1>1. /\ s \in TodoOf(run[d]) /\ \A q \in TodoOf(run[d]) : <<s, q>> \notin Uses
      /\ run[d].place \in {"phase2", "phase3"}
  BY DEF DeployStack
<1>2. Deploys(run[d].place) = {"Auth", "Eks", "Amplify"}
  BY <1>1 DEF Deploys, Resolved
<1>3. TodoOf(run[d]) \in {{"Auth", "Eks", "Amplify"}, {"Eks", "Amplify"}, {"Amplify"}}
  BY <1>2 DEF TodoInv, TodoOf
<1>4. CASE TodoOf(run[d]) = {"Auth", "Eks", "Amplify"}
  <2>1. s = "Auth"
    BY <1>1, <1>4 DEF Uses
  <2> QED BY <1>4, <2>1 DEF Resolved
<1>5. CASE TodoOf(run[d]) = {"Eks", "Amplify"}
  <2>1. s = "Eks"
    BY <1>1, <1>5 DEF Uses
  <2> QED BY <1>5, <2>1 DEF Resolved
<1>6. CASE TodoOf(run[d]) = {"Amplify"}
  BY <1>1, <1>6 DEF Resolved
<1> QED BY <1>3, <1>4, <1>5, <1>6

\* The step of a script that changes a stack.  In phase 2 the phase 3 is still to
\* come; in phase 3 the stack is wired.
LEMMA DeployStep ==
    ASSUME IInv, NEW d \in Deployer, NEW s \in Resolved, DeployStack(d, s) PROVE IInv'
<1> DEFINE rest == TodoOf(run[d]) \ {s}
<1>1. /\ run[d].place \in {"phase2", "phase3"} /\ s \in TodoOf(run[d])
      /\ stack' = [stack EXCEPT ![s] = Synthesised(s, d)]
      /\ UNCHANGED <<edits, tree, pushed, expired, job, site, oldest>>
  BY DEF DeployStack, sources, ecr
<1>2. /\ rest \in {{}, {"Eks", "Amplify"}, {"Amplify"}}
      /\ TodoOf(run[d]) = {s} <=> rest = {}
  BY TodoStep DEF IInv
<1>3. run' = [run EXCEPT ![d] = IF rest = {} THEN After(run[d])
                               ELSE [run[d] EXCEPT !.todo = rest]]
  BY <1>2 DEF DeployStack
<1>4. /\ run[d] \in Runs /\ run \in [Deployer -> Runs]
      /\ stack \in [Resolved -> Template \cup {None}]
  BY RunFacts
<1>5. NewRun("publish") \in Runs /\ NewRun("publish").place = "publish"
      /\ NewRun("publish").todo = {}
  BY NewRunType DEF Place
<1>6. /\ rest # {} => /\ run'[d].place = run[d].place /\ run'[d].todo = rest
                      /\ run'[d].image = run[d].image /\ run'[d].url = run[d].url
      /\ rest = {} => run'[d].todo = {}
      /\ rest = {} /\ run[d].place = "phase2" =>
           run'[d].place = "resolve" /\ run'[d].image = run[d].image
      /\ rest = {} /\ run[d].place = "phase3" => run'[d].place = "publish"
      /\ run'[d] \in Runs
  <2>1. CASE rest # {}
    <3>1. run'[d] = [run[d] EXCEPT !.todo = rest] /\ rest \in SUBSET Resolved
      BY <1>2, <1>3, <1>4, <2>1 DEF Resolved
    <3> HIDE DEF rest
    <3> QED BY <1>4, <2>1, <3>1 DEF Runs
  <2>2. CASE rest = {} /\ run[d].place = "phase3"
    <3>1. run'[d] = NewRun("publish")
      BY <1>3, <1>4, <2>2 DEF After
    <3> QED BY <1>5, <2>2, <3>1
  <2>3. CASE rest = {} /\ run[d].place = "phase2"
    <3>1. run'[d] = [run[d] EXCEPT !.place = "resolve", !.todo = {}]
      BY <1>3, <1>4, <2>3 DEF After
    <3> HIDE DEF rest
    <3> QED BY <1>4, <2>3, <3>1 DEF Runs, Place
  <2> QED BY <1>1, <2>1, <2>2, <2>3
<1>7. /\ \A e \in Deployer : e # d => run'[e] = run[e]
      /\ run' \in [Deployer -> Runs]
      /\ stack'[s] = Synthesised(s, d)
      /\ \A q \in Resolved : q # s => stack'[q] = stack[q]
  BY <1>1, <1>3, <1>4, <1>6
<1>8. Synthesised(s, d) \in Template
  BY <1>4 DEF Synthesised, Template, Runs, LoadPilotConfig, SpaRedirectUrl, ApiImageTag, Redirect
<1>9. TypeOK'
  BY <1>1, <1>4, <1>7, <1>8 DEF IInv, TypeOK, Runs
<1>10. TodoInv'
  BY <1>1, <1>2, <1>6, <1>7 DEF IInv, TodoInv
<1>11. RegistryInv'
  BY <1>1 DEF IInv, RegistryInv
<1>12. ImageInv'
  <2>1. Pushed(run[d].image)
    BY <1>1 DEF IInv, ImageInv
  <2>2. s = "Eks" => stack'["Eks"].image = run[d].image
    BY <1>7 DEF Synthesised, ApiImageTag
  <2> QED BY <1>1, <1>6, <1>7, <2>1, <2>2 DEF IInv, ImageInv, Pushed, Resolved
<1>13. WiredInv'
  <2>1. CASE run[d].place = "phase2"
    <3>1. run'[d].place \in Early
      BY <1>6, <2>1 DEF Early
    <3> QED BY <3>1 DEF WiredInv, Owes
  <2>2. CASE run[d].place = "phase3"
    <3>1. stack'[s].redirect = "amplify"
      BY <1>7, <2>2, NoneAssumption
      DEF IInv, TodoInv, Synthesised, LoadPilotConfig, SpaRedirectUrl, Redirect
    <3> SUFFICES ASSUME NEW q \in Resolved, stack'[q].redirect # "amplify"
                 PROVE  \E e \in Deployer : Owes(run'[e], q)
      BY DEF WiredInv
    <3>2. q # s /\ stack'[q] = stack[q]
      BY <1>7, <3>1
    <3>3. PICK e \in Deployer : Owes(run[e], q)
      BY <2>2, <3>2 DEF IInv, WiredInv
    <3>4. CASE e # d
      BY <1>7, <3>3, <3>4
    <3>5. CASE e = d
      <4>1. run[d].place \notin Early
        BY <2>2 DEF Early
      <4>2. q \in TodoOf(run[d])
        BY <3>3, <3>5, <4>1 DEF Owes
      <4>3. q \in rest
        BY <3>2, <4>2
      <4>4. run'[d].place = "phase3" /\ run'[d].todo = rest /\ rest # {}
        BY <1>6, <2>2, <4>3
      <4> HIDE DEF rest
      <4> QED BY <4>3, <4>4 DEF Owes, TodoOf
    <3> QED BY <3>4, <3>5
  <2> QED BY <1>1, <2>1, <2>2
<1>14. ServedInv'
  <2>1. run'[d].place \notin {"idle", "done"}
    BY <1>1, <1>6
  <2> QED BY <1>1, <1>7, <2>1 DEF IInv, ServedInv
<1> QED BY <1>9, <1>10, <1>11, <1>12, <1>13, <1>14 DEF IInv

\* The other steps of a script leave the stacks and what is served alone.  After
\* one, a script owes all it may owe, or it owed nothing before.
LEMMA MoveStep ==
    ASSUME IInv, NEW d \in Deployer, NEW next \in Runs,
           run' = [run EXCEPT ![d] = next],
           UNCHANGED <<edits, tree, stack, site, oldest>>,
           job' \in [Deployer -> Status \cup {None}],
           \A e \in Deployer : e # d => job'[e] = job[e],
           RegistryInv',
           \A i \in DOMAIN pushed : i \in DOMAIN pushed' /\ pushed'[i] = pushed[i],
           next.todo = {}, next.place # "idle",
           next.place = "phase3" => next.url = "amplify",
           next.place \in {"phase2", "resolve", "phase3"} =>
               \E i \in DOMAIN pushed' : pushed'[i] = next.image,
           next.place \in {"build", "push"} => next.image # None,
           next.place \in Early \cup {"phase3"} \/ run[d].place \in {"publish", "wait"},
           next.place = "done" \/ job'[d] = "SUCCEED" => site # None
    PROVE  IInv'
<1>1. run \in [Deployer -> Runs]
  BY RunFacts
<1>2. run'[d] = next /\ \A e \in Deployer : e # d => run'[e] = run[e]
  BY <1>1
<1>3. TypeOK'
  BY <1>1 DEF IInv, TypeOK, RegistryInv, Runs
<1>4. TodoInv'
  BY <1>2 DEF IInv, TodoInv
<1>5. ImageInv'
  <2>1. ASSUME NEW e \in Deployer
        PROVE  /\ run'[e].place \in {"phase2", "resolve", "phase3"} => Pushed(run[e].image)'
               /\ run'[e].place \in {"build", "push"} => run'[e].image # None
    <3>1. CASE e = d
      BY <1>2, <3>1 DEF Pushed
    <3>2. CASE e # d
      <4>1. run'[e] = run[e]
        BY <1>2, <3>2
      <4>2. run[e].place \in {"phase2", "resolve", "phase3"} => Pushed(run[e].image)
        BY DEF IInv, ImageInv
      <4>3. run[e].place \in {"build", "push"} => run[e].image # None
        BY DEF IInv, ImageInv
      <4> QED BY <4>1, <4>2, <4>3 DEF Pushed
    <3> QED BY <3>1, <3>2
  <2>2. stack'["Eks"] # None => Pushed(stack["Eks"].image)'
    BY DEF IInv, ImageInv, Pushed
  <2>3. oldest' # None => Pushed(oldest)'
    BY DEF IInv, ImageInv, Pushed
  <2> QED BY <2>1, <2>2, <2>3 DEF ImageInv
<1>6. WiredInv'
  <2> SUFFICES ASSUME NEW s \in Resolved
               PROVE  \/ \E e \in Deployer : Owes(run'[e], s)
                      \/ stack[s].redirect = "amplify"
    BY DEF WiredInv
  <2>1. CASE next.place \in Early
    BY <1>2, <2>1 DEF Owes
  <2>2. CASE next.place = "phase3"
    BY <1>2, <2>2 DEF Owes, TodoOf, Deploys, Resolved
  <2>3. CASE run[d].place \in {"publish", "wait"}
    <3>1. ~Owes(run[d], s) /\ run[d].place # "idle"
      BY <2>3 DEF Owes, Early
    <3>2. (\E e \in Deployer : Owes(run[e], s)) \/ stack[s].redirect = "amplify"
      BY <3>1 DEF IInv, WiredInv
    <3> QED BY <1>2, <3>1, <3>2
  <2> QED BY <2>1, <2>2, <2>3
<1>7. ServedInv'
  BY <1>2 DEF IInv, ServedInv
<1> QED BY <1>3, <1>4, <1>5, <1>6, <1>7 DEF IInv

\* A step that touches the run alone.
LEMMA RunStep ==
    ASSUME IInv, NEW d \in Deployer, NEW next \in Runs,
           run' = [run EXCEPT ![d] = next],
           UNCHANGED <<edits, tree, ecr, stack, job, site, oldest>>,
           run[d].place # "wait",
           next.todo = {}, next.place \in Early \cup {"phase3"},
           next.place = "phase3" => next.url = "amplify",
           next.place \in {"phase2", "resolve", "phase3"} => Pushed(next.image),
           next.place \in {"build", "push"} => next.image # None
    PROVE  IInv'
<1>1. RegistryInv' /\ \A i \in DOMAIN pushed : i \in DOMAIN pushed' /\ pushed'[i] = pushed[i]
  BY DEF IInv, RegistryInv, Pushed, ecr
<1>2. job' \in [Deployer -> Status \cup {None}] /\ \A e \in Deployer : job'[e] = job[e]
  BY RunFacts
<1>3. job'[d] = "SUCCEED" => site # None
  BY DEF IInv, ServedInv
<1>4. next.place # "idle" /\ next.place # "done"
  BY DEF Early
<1>5. next.place \in {"phase2", "resolve", "phase3"} =>
          \E i \in DOMAIN pushed' : pushed'[i] = next.image
  BY DEF Pushed, ecr
<1>6. UNCHANGED <<edits, tree, stack, site, oldest>>
  OBVIOUS
<1> QED BY <1>1, <1>2, <1>3, <1>4, <1>5, <1>6, MoveStep

\* A script begins with phase 0 (deploy.sh:19).
LEMMA StartStep == ASSUME IInv, NEW d \in Deployer, Start(d) PROVE IInv'
<1>1. NewRun("phase0") \in Runs /\ NewRun("phase0").place = "phase0"
      /\ NewRun("phase0").todo = {}
  BY NewRunType DEF Place
<1>2. "phase0" \in Early
  BY DEF Early
<1> QED BY <1>1, <1>2, RunStep DEF Start, sources

\* A script ends at a command that fails (set -e).
LEMMA FailStep == ASSUME IInv, NEW d \in Deployer, Fail(d) PROVE IInv'
<1>1. NewRun("failed") \in Runs /\ NewRun("failed").place = "failed"
      /\ NewRun("failed").todo = {}
  BY NewRunType DEF Place
<1>2. /\ run' = [run EXCEPT ![d] = NewRun("failed")]
      /\ UNCHANGED <<edits, tree, ecr, stack, job, site, oldest>>
  BY DEF Fail, sources
<1>3. job' \in [Deployer -> Status \cup {None}]
      /\ RegistryInv' /\ \A i \in DOMAIN pushed : i \in DOMAIN pushed' /\ pushed'[i] = pushed[i]
  BY <1>2, RunFacts DEF IInv, RegistryInv, Pushed, ecr
<1>4. "failed" \in Early /\ (job'[d] = "SUCCEED" => site # None)
  BY <1>2 DEF Early, IInv, ServedInv
<1> QED BY <1>1, <1>2, <1>3, <1>4, MoveStep

\* Phase 0 (deploy.sh:41-43).
LEMMA ContainerStep == ASSUME IInv, NEW d \in Deployer, DeployContainer(d) PROVE IInv'
<1> DEFINE next == [run[d] EXCEPT !.place = "phase1"]
<1>1. /\ run[d].place = "phase0" /\ run' = [run EXCEPT ![d] = next]
      /\ UNCHANGED <<edits, tree, ecr, stack, job, site, oldest>>
  BY DEF DeployContainer, sources
<1>2. next \in Runs /\ next.todo = {} /\ next.place = "phase1"
  BY <1>1, RunFacts DEF Runs, Place
<1> HIDE DEF next
<1> QED BY <1>1, <1>2, RunStep DEF Early

\* The tag, and the check for its image (build-api-image.sh:21-36).
LEMMA ReadTagStep == ASSUME IInv, NEW d \in Deployer, ReadTag(d) PROVE IInv'
<1> DEFINE tag == [head |-> tree.head, dirty |-> tree.dirty]
<1>1. tag \in Tag /\ tag # None
  BY RunFacts, NoneAssumption DEF Tag
<1>2. PICK place \in {"build"} \cup (IF Exists(tag) THEN {"phase2"} ELSE {}) :
         run' = [run EXCEPT ![d].image = tag, ![d].place = place]
  BY DEF ReadTag
<1> DEFINE next == [run[d] EXCEPT !.image = tag, !.place = place]
<1>3. /\ run[d].place = "phase1" /\ run' = [run EXCEPT ![d] = next]
      /\ UNCHANGED <<edits, tree, ecr, stack, job, site, oldest>>
  BY <1>2, RunFacts DEF ReadTag, sources
<1> HIDE DEF tag
<1>4. place \in {"build", "phase2"} /\ (place = "phase2" => Exists(tag))
  BY <1>2
<1>5. next \in Runs /\ next.todo = {} /\ next.image = tag /\ next.place = place
  BY <1>1, <1>3, <1>4, RunFacts DEF Runs, Place
<1> HIDE DEF next
<1>6. Exists(tag) => Pushed(tag)
  BY DEF Exists, Pushed
<1> QED BY <1>1, <1>3, <1>4, <1>5, <1>6, RunStep DEF Early

\* docker build (build-api-image.sh:43-46).
LEMMA BuildImageStep == ASSUME IInv, NEW d \in Deployer, BuildImage(d) PROVE IInv'
<1> DEFINE next == [run[d] EXCEPT !.place = "push"]
<1>1. run[d].place = "build" /\ run' = [run EXCEPT ![d] = next]
      /\ UNCHANGED <<edits, tree, ecr, stack, job, site, oldest>>
  BY DEF BuildImage, sources
<1>2. run[d].image # None
  BY <1>1 DEF IInv, ImageInv
<1>3. next \in Runs /\ next.todo = {} /\ next.place = "push" /\ next.image = run[d].image
  BY <1>1, RunFacts DEF Runs, Place
<1> HIDE DEF next
<1> QED BY <1>1, <1>2, <1>3, RunStep DEF Early

\* docker push: the tag has never been there, or has expired
\* (build-api-image.sh:48-52).
LEMMA PushImageStep == ASSUME IInv, NEW d \in Deployer, PushImage(d) PROVE IInv'
<1> DEFINE image == run[d].image
           next == [run[d] EXCEPT !.place = "phase2"]
<1>1. /\ run[d].place = "push" /\ run' = [run EXCEPT ![d] = next]
      /\ ~Exists(image) /\ pushed' = Append(pushed, image)
      /\ UNCHANGED <<edits, tree, expired, stack, job, site, oldest>>
  BY DEF PushImage, sources
<1>2. image \in Tag
  BY <1>1, RunFacts DEF IInv, ImageInv, Runs
<1>3. next \in Runs /\ next.todo = {} /\ next.place = "phase2" /\ next.image = image
  BY <1>1, RunFacts DEF Runs, Place
<1> HIDE DEF next, image
<1>4. /\ pushed \in Seq(Tag) /\ pushed' \in Seq(Tag) /\ Len(pushed') = Len(pushed) + 1
      /\ DOMAIN pushed = 1..Len(pushed) /\ DOMAIN pushed' = 1..(Len(pushed) + 1)
      /\ \A i \in DOMAIN pushed : pushed'[i] = pushed[i]
      /\ pushed'[Len(pushed) + 1] = image
      /\ Len(pushed) \in Nat
  BY <1>1, <1>2 DEF IInv, RegistryInv
<1>5. RegistryInv'
  <2>1. expired' = expired /\ expired \in 0..Len(pushed')
        /\ (expired = 0 \/ expired + MaxImages <= Len(pushed'))
    BY <1>1, <1>4, ImagesAssumption DEF IInv, RegistryInv
  <2>2. ASSUME NEW i \in DOMAIN pushed', NEW j \in DOMAIN pushed', i < j,
               pushed'[i] = pushed'[j]
        PROVE  i + MaxImages < j
    <3>1. i \in DOMAIN pushed /\ pushed'[i] = pushed[i]
      BY <1>4, <2>2
    <3>2. CASE j \in DOMAIN pushed
      BY <1>4, <2>2, <3>1, <3>2 DEF IInv, RegistryInv
    <3>3. CASE j = Len(pushed) + 1
      <4>1. pushed[i] = image
        BY <1>4, <2>2, <3>1, <3>3
      <4>2. ~Exists(image)
        BY <1>1
      <4>3. ~(i > expired)
        BY <3>1, <4>1, <4>2 DEF Exists
      <4>4. expired \in 0..Len(pushed) /\ (expired = 0 \/ expired + MaxImages <= Len(pushed))
        BY DEF IInv, RegistryInv
      <4>5. i \in 1..Len(pushed)
        BY <1>4, <3>1
      <4> HIDE DEF Exists
      <4> QED BY <1>4, <3>3, <4>3, <4>4, <4>5, ImagesAssumption
    <3> QED BY <1>4, <3>2, <3>3
  <2> QED BY <1>4, <2>1, <2>2 DEF RegistryInv
<1>6. /\ \A i \in DOMAIN pushed : i \in DOMAIN pushed' /\ pushed'[i] = pushed[i]
      /\ \E i \in DOMAIN pushed' : pushed'[i] = image
  <2>1. Len(pushed) + 1 \in DOMAIN pushed' /\ DOMAIN pushed \subseteq DOMAIN pushed'
    BY <1>4
  <2> QED BY <1>4, <2>1
<1>7. job' \in [Deployer -> Status \cup {None}] /\ (job'[d] = "SUCCEED" => site # None)
  BY <1>1, RunFacts DEF IInv, ServedInv
<1> QED BY <1>1, <1>3, <1>5, <1>6, <1>7, MoveStep DEF Early

\* The URL of the Amplify branch (deploy.sh:60-65).
LEMMA ResolveUrlStep == ASSUME IInv, NEW d \in Deployer, ResolveUrl(d) PROVE IInv'
<1> DEFINE next == [run[d] EXCEPT !.url = "amplify", !.place = "phase3"]
<1>1. run[d].place = "resolve" /\ run' = [run EXCEPT ![d] = next]
      /\ UNCHANGED <<edits, tree, ecr, stack, job, site, oldest>>
  BY DEF ResolveUrl, sources
<1>2. /\ next \in Runs /\ next.todo = {} /\ next.place = "phase3"
      /\ next.url = "amplify" /\ next.image = run[d].image
  BY <1>1, RunFacts DEF Runs, Place, Redirect
<1> HIDE DEF next
<1>3. Pushed(next.image)
  BY <1>1, <1>2 DEF IInv, ImageInv
<1> QED BY <1>1, <1>2, <1>3, RunStep

\* The upload of the SPA and its deployment (deploy-spa.sh:36-83).
LEMMA PublishStep == ASSUME IInv, NEW d \in Deployer, Publish(d) PROVE IInv'
<1> DEFINE next == [run[d] EXCEPT !.place = "wait"]
<1>1. /\ run[d].place = "publish" /\ run' = [run EXCEPT ![d] = next]
      /\ job' = [job EXCEPT ![d] = "running"]
      /\ UNCHANGED <<edits, tree, ecr, stack, site, oldest>>
  BY DEF Publish, sources
<1>2. next \in Runs /\ next.todo = {} /\ next.place = "wait"
  BY <1>1, RunFacts DEF Runs, Place
<1> HIDE DEF next
<1>3. /\ job' \in [Deployer -> Status \cup {None}] /\ job'[d] = "running"
      /\ \A e \in Deployer : e # d => job'[e] = job[e]
  BY <1>1, RunFacts DEF Status
<1>4. RegistryInv' /\ \A i \in DOMAIN pushed : i \in DOMAIN pushed' /\ pushed'[i] = pushed[i]
  BY <1>1 DEF IInv, RegistryInv, Pushed, ecr
<1> QED BY <1>1, <1>2, <1>3, <1>4, MoveStep

\* The end of the job (deploy-spa.sh:85-97).
LEMMA JobSeenStep == ASSUME IInv, NEW d \in Deployer, JobSeen(d) PROVE IInv'
<1> DEFINE end == IF job[d] = "SUCCEED" THEN "done" ELSE "failed"
           next == NewRun(end)
<1>1. /\ run[d].place = "wait" /\ run' = [run EXCEPT ![d] = next]
      /\ job' = [job EXCEPT ![d] = None]
      /\ UNCHANGED <<edits, tree, ecr, stack, site, oldest>>
  BY DEF JobSeen, sources
<1>2. end \in {"done", "failed"} /\ end \in Place
  BY DEF Place
<1>3. next \in Runs /\ next.todo = {} /\ next.place = end
  BY <1>2, NewRunType
<1>4. end = "done" => site # None
  BY DEF IInv, ServedInv
<1> HIDE DEF next, end
<1>5. /\ job' \in [Deployer -> Status \cup {None}] /\ job'[d] = None
      /\ \A e \in Deployer : e # d => job'[e] = job[e]
  BY <1>1, RunFacts
<1>6. None # "SUCCEED"
  BY NoneAssumption DEF Status
<1>7. RegistryInv' /\ \A i \in DOMAIN pushed : i \in DOMAIN pushed' /\ pushed'[i] = pushed[i]
  BY <1>1 DEF IInv, RegistryInv, Pushed, ecr
<1> QED BY <1>1, <1>2, <1>3, <1>4, <1>5, <1>6, <1>7, MoveStep

\* Amplify serves another SPA only after a script has come past its phase 3.
LEMMA JobEndsStep == ASSUME IInv, NEW d \in Deployer, JobEnds(d) PROVE IInv'
<1>1. PICK status \in {"SUCCEED", "FAILED"} :
         /\ job' = [job EXCEPT ![d] = IF run[d].place = "wait" THEN status ELSE None]
         /\ site' = IF status = "SUCCEED" THEN "amplify" ELSE site
  BY DEF JobEnds
<1>2. job[d] = "running" /\ UNCHANGED <<edits, tree, pushed, expired, stack, oldest, run>>
  BY DEF JobEnds, sources, ecr
<1>3. /\ job' \in [Deployer -> Status \cup {None}]
      /\ \A e \in Deployer : e # d => job'[e] = job[e]
      /\ job'[d] \in {status, None}
  BY <1>1, RunFacts DEF Status
<1>4. TypeOK' /\ TodoInv' /\ RegistryInv' /\ ImageInv' /\ WiredInv'
  BY <1>1, <1>2, <1>3 DEF IInv, TypeOK, TodoInv, RegistryInv, ImageInv, Pushed, WiredInv, Redirect
<1>5. ServedInv'
  <2>1. "amplify" # None /\ "running" # None /\ None # "SUCCEED"
    BY NoneAssumption DEF Redirect, Status
  <2>2. run[d].place # "idle"
    BY <1>2, <2>1 DEF IInv, ServedInv
  <2>3. CASE status = "SUCCEED"
    BY <1>1, <1>2, <1>3, <2>1, <2>2, <2>3 DEF IInv, ServedInv
  <2>4. CASE status = "FAILED"
    <3>1. job'[d] # "SUCCEED" /\ site' = site
      BY <1>1, <1>3, <2>1, <2>4
    <3> QED BY <1>2, <1>3, <2>2, <3>1 DEF IInv, ServedInv
  <2> QED BY <2>3, <2>4
<1> QED BY <1>4, <1>5 DEF IInv

\* Pods are started with the image that Eks has, which was pushed.
LEMMA RollOutStep == IInv /\ RollOut => IInv'
<1> SUFFICES ASSUME IInv, RollOut PROVE IInv'
  OBVIOUS
<1>1. /\ stack["Eks"] # None /\ oldest' = stack["Eks"].image
      /\ UNCHANGED <<edits, tree, pushed, expired, stack, job, site, run>>
  BY DEF RollOut, sources, ecr
<1>2. stack["Eks"].image \in Tag \cup {None}
  BY <1>1 DEF IInv, TypeOK, Template, Resolved
<1>3. TypeOK'
  BY <1>1, <1>2 DEF IInv, TypeOK
<1>4. TodoInv' /\ RegistryInv' /\ ImageInv' /\ WiredInv' /\ ServedInv'
  BY <1>1 DEF IInv, TodoInv, RegistryInv, ImageInv, Pushed, WiredInv, ServedInv
<1> QED BY <1>3, <1>4 DEF IInv

\* Every step keeps the invariant.
LEMMA NextIInv == IInv /\ [Next]_vars => IInv'
<1> SUFFICES ASSUME IInv, [Next]_vars PROVE IInv'
  OBVIOUS
<1>1. CASE Edit \/ Commit \/ RollOut \/ Expire
  BY <1>1, EditStep, CommitStep, RollOutStep, ExpireStep
<1>2. ASSUME NEW d \in Deployer, Script(d) PROVE IInv'
  BY <1>2, StartStep, FailStep, ContainerStep, ReadTagStep, BuildImageStep, PushImageStep,
     DeployStep, ResolveUrlStep, PublishStep, JobSeenStep DEF Script
<1>3. ASSUME NEW d \in Deployer, JobEnds(d) PROVE IInv'
  BY <1>3, JobEndsStep
<1>4. CASE UNCHANGED vars
  BY <1>4 DEF IInv, TypeOK, TodoInv, RegistryInv, ImageInv, Pushed, WiredInv, ServedInv,
       vars, ecr
<1> QED BY <1>1, <1>2, <1>3, <1>4 DEF Next

-----------------------------------------------------------------------------
(* The theorems.                                                           *)

\* The invariant holds throughout.
LEMMA SpecIInv == Spec => []IInv
  BY InitIInv, NextIInv, PTL DEF Spec

\* Every variable keeps its type: the stacks are templates, what is left of a
\* phase are stacks (deploy.sh:41-77).
THEOREM TypeCorrect == Spec => []TypeOK
<1>1. IInv => TypeOK
  BY DEF IInv
<1> QED BY <1>1, SpecIInv, PTL

\* However many shells run deploy.sh, whatever is edited and committed meanwhile
\* and wherever each fails: the image that the pods run or are told to run was
\* pushed, and it is there, alone under its tag, until as many others have been
\* pushed after it as the repository keeps (build-api-image.sh:17-36,
\* container-stack.ts:32-37).
THEOREM OneImage == Spec => []PodsRunOneImage
<1>1. IInv => PodsRunOneImage
  <2> SUFFICES ASSUME IInv,
                      NEW image \in {eks.image : eks \in {stack["Eks"]} \ {None}}
                                      \cup ({oldest} \ {None})
               PROVE  /\ \E i \in DOMAIN pushed : pushed[i] = image
                      /\ \A i \in DOMAIN pushed :
                           pushed[i] = image /\ i + MaxImages > Len(pushed) => i > expired
                      /\ \A i, j \in DOMAIN pushed :
                           pushed[i] = image /\ pushed[j] = image /\ i < j =>
                               i + MaxImages < j
    BY DEF PodsRunOneImage
  <2>1. Pushed(image)
    BY DEF IInv, ImageInv
  <2>2. pushed \in Seq(Tag) /\ expired \in 0..Len(pushed)
        /\ (expired = 0 \/ expired + MaxImages <= Len(pushed))
    BY DEF IInv, RegistryInv
  <2>3. \A i \in DOMAIN pushed : i + MaxImages > Len(pushed) => i > expired
    BY <2>2, ImagesAssumption
  <2> QED BY <2>1, <2>3 DEF Pushed, IInv, RegistryInv
<1> QED BY <1>1, SpecIInv, PTL

\* Sign-in to a served SPA is refused only while a script is short of the end of
\* its phase 3, or has failed (deploy.sh:48-73).
THEOREM SignInCloses == Spec => []SignInClosedOnlyMidway
<1>1. IInv => SignInClosedOnlyMidway
  <2> SUFFICES ASSUME IInv, site # None, stack["Auth"].redirect # site
               PROVE  \E d \in Deployer :
                        run[d].place \notin {"idle", "publish", "wait", "done"}
    BY DEF SignInClosedOnlyMidway
  <2>1. site = "amplify" /\ \E d \in Deployer : run[d].place # "idle"
    BY DEF IInv, ServedInv
  <2>2. PICK d \in Deployer : Owes(run[d], "Auth")
    BY <2>1 DEF IInv, WiredInv, Resolved
  <2> QED BY <2>2 DEF Owes, Early
<1> QED BY <1>1, SpecIInv, PTL

\* When the scripts that ran have all ended well, whatever ran beside what, was
\* interrupted and was run again: the SPA is served, and Cognito, the CORS
\* origins of the API and the Amplify app name its address (deploy.sh:67-80).
THEOREM SettledIsUsable == Spec => []SettledMeansUsable
<1>1. IInv => SettledMeansUsable
  <2> SUFFICES ASSUME IInv, Settled
               PROVE  site # None /\ \A s \in Resolved : stack[s].redirect = site
    BY DEF SettledMeansUsable
  <2>1. PICK d \in Deployer : run[d].place = "done"
    BY DEF Settled
  <2>2. site = "amplify" /\ site # None
    BY <2>1 DEF IInv, ServedInv
  <2>3. \A s \in Resolved, e \in Deployer : ~Owes(run[e], s)
    BY DEF Settled, Owes, Early
  <2> QED BY <2>1, <2>2, <2>3 DEF IInv, WiredInv
<1> QED BY <1>1, SpecIInv, PTL

=============================================================================
