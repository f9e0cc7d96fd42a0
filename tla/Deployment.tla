----------------------------- MODULE Deployment -----------------------------
(***************************************************************************)
(* Deploying the pilot: scripts/deploy.sh and the two scripts it calls,    *)
(* build-api-image.sh and deploy-spa.sh, run from one checkout that is     *)
(* edited and committed meanwhile.  Nothing keeps two of them from running *)
(* at the same time.                                                       *)
(*                                                                         *)
(* A command either does what it says or ends the script (set -e): a stack *)
(* whose update fails is rolled back to what it was.  A script that ended  *)
(* may be run again, from its first phase.                                 *)
(***************************************************************************)
EXTENDS Stacks, Naturals, Sequences

CONSTANTS
    Deployer,        \* the shells deploy.sh is run in, again and again
    MaxEdits,        \* bound: how often the sources of the API are changed
    MaxImages,       \* as many images the ECR repository keeps (15)
    None             \* not there

ASSUME EditsAssumption == MaxEdits \in Nat
ASSUME ImagesAssumption == MaxImages \in Nat \ {0}

Version == 0..MaxEdits              \* a state of services/api
Tag == [head : Version, dirty : BOOLEAN]
Redirect == {"placeholder", "amplify"}
Status == {"running", "SUCCEED", "FAILED"}

ASSUME NoneAssumption == None \notin Tag \cup Version \cup Redirect \cup Status

VARIABLES
    edits,    \* the versions written so far are 0..edits
    tree,     \* the checkout: its HEAD, what it holds, what git diff says
    pushed,   \* the tags of the images pushed to the ECR repository, in order
    expired,  \* how many of them its lifecycle rule has removed
    stack,    \* stack[s]: what the resolved stack s was last synthesised with
    job,      \* job[d]: the Amplify deployment that d started last
    site,     \* the redirect compiled into the SPA that Amplify serves
    oldest,   \* the image that the oldest API pod was started with
    run       \* run[d]: where d's deploy.sh is

ecr == <<pushed, expired>>
vars == <<edits, tree, ecr, stack, job, site, oldest, run>>

\* The stacks whose templates depend on what the script resolves.  Network and
\* Container do not: each run deploys them as they were.
Resolved == {"Auth", "Eks", "Amplify"}

Template == [redirect : Redirect \cup {None}, image : Tag \cup {None}]
Place == {"idle", "phase0", "phase1", "build", "push", "phase2", "resolve",
          "phase3", "publish", "wait", "done", "failed"}

TypeOK ==
    /\ edits \in Version
    /\ tree \in [head : 0..edits, version : 0..edits, dirty : BOOLEAN]
    /\ pushed \in Seq(Tag) /\ expired \in 0..Len(pushed)
    /\ stack \in [Resolved -> Template \cup {None}]
    /\ job \in [Deployer -> Status \cup {None}]
    /\ site \in Redirect \cup {None}
    /\ oldest \in Tag \cup {None}
    /\ run \in [Deployer ->
         [place : Place, todo : SUBSET Resolved, image : Tag \cup {None},
          url : Redirect \cup {None}]]

NewRun(place) ==
    [place |-> place, todo |-> {}, image |-> None, url |-> None]

Init ==
    /\ edits = 0
    /\ tree = [head |-> 0, version |-> 0, dirty |-> FALSE]
    /\ pushed = <<>> /\ expired = 0
    /\ stack = [s \in Resolved |-> None]
    /\ job = [d \in Deployer |-> None]
    /\ site = None
    /\ oldest = None
    /\ run = [d \in Deployer |-> NewRun("idle")]

-----------------------------------------------------------------------------
(* The checkout.                                                           *)

world == <<ecr, stack, job, site, oldest, run>>

\* The API is changed.  git diff does not see a file that is not tracked yet,
\* docker build does.
Edit ==
    /\ edits < MaxEdits
    /\ edits' = edits + 1
    /\ \E tracked \in BOOLEAN :
         tree' = [tree EXCEPT !.version = edits', !.dirty = tracked \/ @]
    /\ UNCHANGED world

Commit ==
    /\ tree.version # tree.head
    /\ tree' = [tree EXCEPT !.head = tree.version, !.dirty = FALSE]
    /\ UNCHANGED <<edits, world>>

-----------------------------------------------------------------------------
(* One run of the script.                                                  *)

sources == <<edits, tree>>

Exists(tag) == \E i \in DOMAIN pushed : i > expired /\ pushed[i] = tag

\* deploy.sh begins with phase 0, however the last run ended.  A script that has
\* ended keeps nothing; a job it gave up on goes on.
Start(d) ==
    /\ run[d].place \in {"idle", "done", "failed"}
    /\ run' = [run EXCEPT ![d] = NewRun("phase0")]
    /\ UNCHANGED <<sources, ecr, stack, job, site, oldest>>

\* A command fails or is interrupted.
Fail(d) ==
    /\ run[d].place \notin {"idle", "done", "failed"}
    /\ run' = [run EXCEPT ![d] = NewRun("failed")]
    /\ UNCHANGED <<sources, ecr, stack, job, site, oldest>>

\* Phase 1: the tag, and whether there is an image of it already.  That cannot be
\* told from describe-images when it fails.
ReadTag(d) ==
    LET tag == [head |-> tree.head, dirty |-> tree.dirty] IN
    /\ run[d].place = "phase1"
    /\ \E place \in {"build"} \cup (IF Exists(tag) THEN {"phase2"} ELSE {}) :
         run' = [run EXCEPT ![d].image = tag, ![d].place = place]
    /\ UNCHANGED <<sources, ecr, stack, job, site, oldest>>

\* docker build takes the checkout as it is by then: each build makes an image of
\* its own.
BuildImage(d) ==
    /\ run[d].place = "build"
    /\ run' = [run EXCEPT ![d].place = "push"]
    /\ UNCHANGED <<sources, ecr, stack, job, site, oldest>>

\* A repository whose tags are mutable.
PushOverwriting(d) ==
    /\ run[d].place = "push"
    /\ pushed' = Append(pushed, run[d].image)
    /\ run' = [run EXCEPT ![d].place = "phase2"]
    /\ UNCHANGED <<sources, expired, stack, job, site, oldest>>

\* The repository refuses a tag it has (its tags are immutable).
PushImage(d) ==
    /\ run[d].place = "push"
    /\ ~Exists(run[d].image)
    /\ pushed' = Append(pushed, run[d].image)
    /\ run' = [run EXCEPT ![d].place = "phase2"]
    /\ UNCHANGED <<sources, expired, stack, job, site, oldest>>

\* The lifecycle rule of the repository removes its oldest image.
Expire ==
    /\ Len(pushed) - expired > MaxImages
    /\ expired' = expired + 1
    /\ UNCHANGED <<sources, pushed, stack, job, site, oldest, run>>

\* The origin where the redirect belongs: AMPLIFY_URL without the slash.
OriginForRedirect(spaRedirectUrl) ==
    IF spaRedirectUrl = None THEN "placeholder" ELSE "origin"

\* The redirect URL the configuration is resolved to: that of the context if
\* there is one, the one of cdk.json otherwise.
LoadPilotConfig(spaRedirectUrl) ==
    IF spaRedirectUrl = None THEN "placeholder" ELSE spaRedirectUrl

\* The context values of phases 2 and 3.  Phase 0 has neither.
SpaRedirectUrl(d) == run[d].url
ApiImageTag(d) == run[d].image

\* What of the context a stack's template depends on: the callback and logout
\* URLs of Auth, the CORS origins and the image of Eks, the variables of Amplify.
Synthesised(s, d) ==
    [redirect |-> LoadPilotConfig(SpaRedirectUrl(d)),
     image |-> IF s = "Eks" THEN ApiImageTag(d) ELSE None]

\* Phase 3 rewires the API and the SPA, and not the user pool.
DeploysWithoutAuth(place) ==
    CASE place = "phase2" -> Resolved
      [] place = "phase3" -> {"Eks", "Amplify"}

\* Which of these stacks a phase deploys.
Deploys(place) ==
    CASE place = "phase2" -> Resolved
      [] place = "phase3" -> {"Auth", "Eks", "Amplify"}

\* Phase 0: the Container stack, so that there is a repository for the image.
DeployContainer(d) ==
    /\ run[d].place = "phase0"
    /\ run' = [run EXCEPT ![d].place = "phase1"]
    /\ UNCHANGED <<sources, ecr, stack, job, site, oldest>>

\* What a run in one of these phases has not deployed yet.
TodoOf(r) == IF r.todo = {} THEN Deploys(r.place) ELSE r.todo

\* After phase 3 the tag and the URL are not used again: deploy-spa.sh reads its
\* own.
After(r) ==
    IF r.place = "phase2" THEN [r EXCEPT !.place = "resolve", !.todo = {}]
    ELSE NewRun("publish")

\* cdk deploy, one stack after the other, each after those it uses.
DeployStack(d, s) ==
    /\ run[d].place \in {"phase2", "phase3"}
    /\ s \in TodoOf(run[d]) /\ \A q \in TodoOf(run[d]) : <<s, q>> \notin Uses
    /\ stack' = [stack EXCEPT ![s] = Synthesised(s, d)]
    /\ run' = [run EXCEPT ![d] = IF TodoOf(run[d]) = {s} THEN After(run[d])
                                 ELSE [run[d] EXCEPT !.todo = TodoOf(run[d]) \ {s}]]
    /\ UNCHANGED <<sources, ecr, job, site, oldest>>

\* Between phases 2 and 3: the URL of the Amplify branch.
ResolveUrl(d) ==
    /\ run[d].place = "resolve"
    /\ stack["Amplify"] # None
    /\ run' = [run EXCEPT ![d].url = "amplify", ![d].place = "phase3"]
    /\ UNCHANGED <<sources, ecr, stack, job, site, oldest>>

\* Phase 4: the outputs of the stacks are compiled into the SPA, the bundle is
\* uploaded and its deployment started.  Amplify runs one at a time and refuses
\* another.
Publish(d) ==
    /\ run[d].place = "publish"
    /\ \A s \in Resolved : stack[s] # None
    /\ \A e \in Deployer : job[e] # "running"
    /\ job' = [job EXCEPT ![d] = "running"]
    /\ run' = [run EXCEPT ![d].place = "wait"]
    /\ UNCHANGED <<sources, ecr, stack, site, oldest>>

\* Amplify ends a deployment, whether the script still waits for it or not.
JobEnds(d) ==
    /\ job[d] = "running"
    /\ \E status \in {"SUCCEED", "FAILED"} :
         /\ job' = [job EXCEPT ![d] = IF run[d].place = "wait" THEN status ELSE None]
         /\ site' = IF status = "SUCCEED" THEN "amplify" ELSE site
    /\ UNCHANGED <<sources, ecr, stack, oldest, run>>

\* Any end of the job is taken for its success.
JobSeenAnyEnd(d) ==
    /\ run[d].place = "wait"
    /\ job[d] # "running"
    /\ run' = [run EXCEPT ![d] = NewRun("done")]
    /\ job' = [job EXCEPT ![d] = None]
    /\ UNCHANGED <<sources, ecr, stack, site, oldest>>

\* The script polls the job, for which CANCELLED is FAILED; after 60 polls it
\* gives up, which is Fail.
JobSeen(d) ==
    /\ run[d].place = "wait"
    /\ job[d] # "running"
    /\ run' = [run EXCEPT ![d] = NewRun(IF job[d] = "SUCCEED" THEN "done" ELSE "failed")]
    /\ job' = [job EXCEPT ![d] = None]
    /\ UNCHANGED <<sources, ecr, stack, site, oldest>>

\* Kubernetes replaces the API pods when their image is another one.
RollOut ==
    /\ stack["Eks"] # None /\ oldest # stack["Eks"].image
    /\ oldest' = stack["Eks"].image
    /\ UNCHANGED <<sources, ecr, stack, job, site, run>>

-----------------------------------------------------------------------------

Script(d) ==
    \/ Start(d) \/ Fail(d)
    \/ ReadTag(d) \/ BuildImage(d) \/ PushImage(d)
    \/ DeployContainer(d) \/ \E s \in Resolved : DeployStack(d, s)
    \/ ResolveUrl(d) \/ Publish(d) \/ JobSeen(d)

Next ==
    \/ Edit \/ Commit \/ RollOut \/ Expire
    \/ \E d \in Deployer : Script(d) \/ JobEnds(d)

Spec == Init /\ [][Next]_vars

-----------------------------------------------------------------------------
(* What must hold.                                                         *)

\* The image the pods are told to run has been pushed, and so has that of the
\* pods that still run.  Until MaxImages others are pushed it is there, and
\* nothing else is under its tag: a pod that starts later, on a node that has not
\* pulled it, runs what the others run (imagePullPolicy is IfNotPresent).
PodsRunOneImage ==
    \A image \in {eks.image : eks \in {stack["Eks"]} \ {None}} \cup ({oldest} \ {None}) :
        LET under == {i \in DOMAIN pushed : pushed[i] = image} IN
        /\ under # {}
        /\ \A i \in under : i + MaxImages > Len(pushed) => i > expired
        /\ \A i, j \in under : i < j => i + MaxImages < j

\* While an SPA is served, sign-in is refused (its redirect is not in Cognito's
\* list) only on account of a script that has not come past its phase 3: one that
\* is on its way there, has failed, or was started again.
SignInClosedOnlyMidway ==
    site # None /\ stack["Auth"].redirect # site =>
        \E d \in Deployer :
            run[d].place \notin {"idle", "publish", "wait", "done"}

\* The scripts that ran have all ended well.
Settled ==
    /\ \E d \in Deployer : run[d].place = "done"
    /\ \A d \in Deployer : run[d].place \in {"idle", "done"}

\* When the scripts that ran have all ended well, the deployment is whole: the
\* SPA is served, and Cognito, the CORS origins of the API and the variables of
\* the Amplify app all name its address.
SettledMeansUsable ==
    Settled =>
        /\ site # None
        /\ \A s \in Resolved : stack[s].redirect = site
=============================================================================
