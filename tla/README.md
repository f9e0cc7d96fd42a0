# Llama Pilot: specifications, checks and proofs

TLA+ modules that model this repository's core logic, TLC configurations that
check them on small instances, and theorems that TLAPS proves for every
instance. `PROJECT.json` lists the runs, the lines of source each definition
stands for, the findings and the hazards the properties were written for.

Paths below are relative to the repository (`services/api/app` is abbreviated
`app`).

## 1. The system

A self-hosted chat service: a React SPA, an API process in two replicas on EKS,
and a vLLM server behind them.

| Component | State | Operations | Modelled by |
|---|---|---|---|
| Conversation memory, `app/sessions.py` | per process: an ordered dict of sessions (messages, last use, turns) | sync, append_assistant, context, forget, info, stats | `SessionMemory`, `ConversationStore` |
| Completion route and limiter, `app/main.py`, `app/middleware.py` | per process: the number of slots taken; per request: where its handler is | POST chat/completions, its streaming body, 429 | `ChatApi` |
| Streaming proxy, `app/inference.py` | per request: frames sent, token counts, text so far | stream_chat, complete_chat; the browser-facing SSE contract | `ChatApi`, `SseContract` |
| Request validation, `app/models.py` | none | limits on a request | `Admission`, `ChatView` |
| Composition of route and memory | per process: the store; per request: what it is answered from | a turn from sync to reply, DELETE sessions, restart | `ChatBackend` |
| Chat screen, `spa/src/components/ChatView.tsx` | transcript, streaming flag, error, session id, abort controller | submit, stop, new chat, sign out, the stream callbacks | `ChatView` |
| SSE parser, `spa/src/api/chat.ts` | buffer, where the request is | fetch, read, dispatch, flush, abort | `SseClient` |
| Token session, `spa/src/auth/*` | tokens and login material in sessionStorage, sign-in state of the page | login, callback, refresh, logout | `CognitoSession` |
| Body-size limit, `app/middleware.py` | bytes so far | count, reject | `Admission` |
| Deployment scripts, `scripts/deploy.sh`, `build-api-image.sh`, `deploy-spa.sh` | stacks, images, redirect URLs, the Amplify job; where each shell is | the phases of a deployment, their failures and re-runs | `Deployment`, `Stacks` |
| Teardown script, `scripts/destroy.sh` | stacks, node groups, cluster, what blocks the VPC; where the script is | cdk destroy, the recovery pass | `Teardown`, `Stacks` |
| CI workflows, smoke and integration tests | none | | not modelled |
| Token validation, `app/auth.py` | a cache of key clients | require_auth | `Admission` |
| Workloads at run time, `lib/constructs/vllm-workload.ts`, `fastapi-workload.ts`, the target group of `lib/stacks/workload-stack.ts` | pods with their phase, template, readiness, volumes; the processes in them; the GPU node; registered targets | rollouts, scheduling, probes, restarts, registration; faults and scaling to zero | `Serving` |
| Placement, network and edge, `gpu-node-group.ts`, `eks-addons.ts`, `eks-stack.ts`, `workload-stack.ts` | none: declarations | who fits where, who reaches whom, what passes the gateway | `Cluster` |
| Other infrastructure: alarms, user pool, VPC, validation of settings | none | synthesis | not modelled |
| Settings, metrics, logging | none that is read back | | not modelled |

How they interact.  The screen posts the whole transcript with a session id it
made up; the route syncs the session memory of whichever replica answers, takes
a slot of that replica's limiter, and streams vLLM's answer back as SSE frames;
when the answer is complete the reply is appended to the memory, and then the
client is told. The handlers of one process run on one event loop and yield only
at an await; the store is meant to be safe under threads as well. Replicas share
nothing. The screen's callbacks are async functions of one JavaScript thread
that yield at `getAccessToken` and while a stream is read. The scripts talk to
AWS only: to stacks, the image repository, the Amplify app and the cluster, which
outlive a script and are all that the next one finds of it. The processes live in
pods that Kubernetes starts, probes, replaces and restarts: the API's readiness
asks the model (`check_ready`), its liveness asks nobody, and the load balancer
follows the ready pods with a delay.

What is hard here: an answer that ends in any of a dozen ways (upstream refuses,
fails, hangs, stops; the client leaves before, during or after; the generation
timeout expires at any await) must give back one slot and be remembered only
when complete; the store evicts by recency while its clock readings and its
lock are separate steps; the screen's closures keep what they saw before an
await; transcripts are cut by one component and limited by another; a script may
stop between any two commands, be started again from its first phase, and meet
another run of itself; rollouts overlap, and the one GPU, the readiness of the API
and the download of the weights each wait for something else.

## 2. The modules

### SessionMemory: the data of sessions.py

The store as a value and its operations as functions on it. The `OrderedDict` is
a record of a function (live session ids to entries) and a relation `older`, its
order. `Synced`, `Appended`, `Forgotten` and `Sweep` are the locked sections of
`sync`, `append_assistant`, `forget` and `_sweep`; `Window` is `_window` and
`Cleaned` the list comprehension of `sync`. `_sweep`'s two loops are one set:
the sessions that are fresh and have fewer than `Capacity` fresh ones after them.
The settings are integers that `AtLeast` lifts as `__init__` does.

### ConversationStore: the store under its callers

Variables `memory`, `now` and, for each caller, the `call` it is making. sync,
append_assistant and stats read the clock and then take the lock, so each is two
actions (`BeginSync`, `SyncLocked`, ...) with time and other callers between
them; `forget` reads no clock and is one. `context` and `info` change nothing
and are the operators `Context` and `Known`.

### ChatApi and SseContract: a request from its slot to its last frame

`pc[r]` names the await at which the handler of request `r` is suspended; an
action is the code from one await to the next.

| `pc` | suspended at |
|---|---|
| `accepted` | the server has the StreamingResponse and has not asked for its first chunk |
| `opening` | `client.stream("POST", ...)` in `stream_chat` |
| `reading` | `aiter_lines` |
| `token`, `refused`, `usage`, `done`, `error` | the send of that frame, `stream_chat` being suspended at its yield |
| `calling` | `complete_chat` |
| `rejected`, `closed`, `broken`, `abandoned`, `answered`, `failed`, `lost` | nowhere: the request is over |

`Handle` is the route up to there (with the 429), `StartStream` and `Abandon`
are what the server does with the response, `UpstreamOpens`, `ReadLine`,
`ReadGone`, `ReadBroken`, `ReadEnd`, `UpstreamFails` are `stream_chat` (a line
that is JSON but no chunk raises what none of its handlers names), `GenerationTimeout` is
`asyncio.timeout` (in an await of the generator it becomes an error frame; in the
send of a frame it only closes the generator), `Cancel` is the server's reaction
to a disconnect, `Close` is the `finally` of `event_source`, `Restart` replaces a
pod. Every request is taken to carry a session id; `persisted` is the call of
append_assistant. `SseContract` is the contract of `services/api/README.md` as a
specification of its own, and `ChatApi` is checked and proved to implement it
under the mapping of `frames` and `StageOf(pc)`.

`Abandon` deserves a word. The slot is taken in the route, and given back by the
`finally` of a generator. Starlette cancels a response when its client
disconnects, and Python does not run the `finally` of a generator that was never
started, so a disconnect between the two loses the slot. The model keeps the
two facts apart: `SlotsAccounted` says that abandoned streams are the only ones
that lose a slot, and `SaturationEnds` is the promise they break.

### ChatView: the screen

One variable per React state or ref, and per submission the phase of its async
function, the `messages` its closure captured, the history it posted and whether
its controller was aborted. `Submit` runs to the await of `getAccessToken`;
`Send` and `TokenDenied` continue from there; `Token`, `Done`, `Fail`,
`Unauthorized` and `AbortSeen` are the callbacks of `streamChatCompletion`. A 401
only begins the redirect to the login page: the user may go on until `Redirect`.
A submission that ended in `Fail` stays told apart (`failed`), since
`FailedTurnsCanBeRetried` is about what such a turn leaves behind.
`RequestOK` is `ValidMessages` of `Admission` on the bubbles that are posted; a
request it refuses can only `Fail`. A bubble is its role, its turn, whether it has text and
whether its cursor blinks.

### Admission: what a request goes through before its route

Pure operators: a request is a value (declared length, chunks, whether it parses,
what is wrong with its token, its messages) and `Status` its answer. The checks are
numbered in the order in which `main.py` stacks the middleware and FastAPI calls
the JSON parser, `require_auth` and the request model: 413, 413, 422, 401, and 400
or 422, of which `RoleRefused` says which. `FirstTooLarge` looks at one chunk, as
the limiter does. `MCChatView` states what this amounts to as assumptions that TLC
evaluates over small requests: `MessagesAreJudgedInOrder`,
`OnlyLaterChunksAreUncapped`, `AdmittedIsInOrder`.

### ChatBackend: turns and memories

`ChatApi` extended by a `SessionMemory` for each replica, one clock, and for each
request its session, its transcript and its reply. `HandleTurn` is the route up
to its first await: it syncs the session and only then asks the limiter, as the
code does, so that a turn answered 429 has changed the memory. `EndTurn` is the
end of an answer with `_remember` (or `append_assistant` of a plain call).
`ForgetSession` is the DELETE at the replica that gets it, `RestartReplica`
empties a memory. `Tick` keeps the generation timeout: time does not pass a
deadline of a request that is inside its timeout. `latest` and `replies` are
history variables for `MemoryIsTranscript`.

### SseClient: the parser of the client

`streamChatCompletion` with `parseSseStream`. A frame is three parts (its event
line, its data up to some place, the rest) and a blank line; a chunk is any
number of parts, and the body may end after any part, so every way to cut a
stream that makes a difference to the parser occurs (a cut in the event line does
what a cut before it does). `Pass` is one pass of the inner loop with
`handleFrame`, and `Drain` the loop: a recursive function over its passes, of which
there are no more than parts at hand. `Trimmed` is `buffer.trim()`;
`ReadEnd` flushes the tail, which may be half a frame, and reports the end.
The servers considered send what `SseContract` allows.

### CognitoSession: tokens and navigation

One tab. `tokens` and `material` (PKCE verifier and state) are the contents of
sessionStorage; generations number the tokens issued, logins the redirects begun.
`window.location.assign` only begins a navigation: the page goes on running
(`page = "leaving"`) until `Unload`, and a later assign replaces the target.
`ClickLogin` and `Redirect` are `loginRedirect` before and after the await of its
challenge; `Bootstrap`, `ExchangeSucceeds` and `ExchangeFails` are
`handleRedirectCallback`; `GetToken`, `Refresh`, `RefreshSucceeds` and
`RefreshFails` are `getValidAccessToken` under `getAccessToken` of `useAuth`,
whose failure (`Denied`) clears the session and, for `submit`, asks for a login.

### Stacks: who uses whom

The five stacks and which is made from outputs of which (`Uses`), as
`application-stage.ts` composes them. The scripts name the stacks in an order; cdk
goes by the dependencies, which leave the order of `Network`, `Auth` and
`Container` open. `Deployment` and `Teardown` both extend it.

### Deployment: phases, images and redirects

One checkout, shared by the shells (`Deployer`) that run `deploy.sh` in it, which
is edited and committed meanwhile (`Edit`, `Commit`). `run[d]` is where the script
of `d` is: phase 0 (`DeployContainer`), 1 (`ReadTag`, `BuildImage`, `PushImage` of
`build-api-image.sh`), 2 (all stacks), the URL of the Amplify branch, 3 (`Auth`,
`Eks` and `Amplify` with that URL), 4 (`Publish`, `JobSeen` of `deploy-spa.sh`).
`DeployStack` is one stack of a `cdk deploy`, of those of the phase one that uses
none still to do. Only the stacks that take something from the context (`Resolved`)
are kept track of: `Network` and `Container` are deployed each time as they were.
What a stack takes from the context
is `Synthesised`, by way of `LoadPilotConfig`: without a URL in the context every
stack gets the placeholder of `cdk.json`. That is also what a re-run gives the
user pool in phase 2, so sign-in to the SPA that is served is closed from there
until phase 3. `Fail` is any command under `set -e`, an interruption, or the end
of the 60 polls; CloudFormation takes a stack that fails back to what it was.
Amplify runs one deployment at a time (`job`), and
ends it whether a script still waits or not (`JobEnds`).

The image repository is the sequence of what was `pushed` and how many of these the
lifecycle rule has `expired`: `Expire` removes the oldest while there are more than
`MaxImages` (15), whether it is run or not, and a tag that has expired may be pushed
again. Each push is an image of its own, for which its place in the sequence stands.
A `describe-images` that fails looks like a tag that is not there, so `ReadTag` may
go on to a build of a tag that exists, of which the push is refused. The API's pods run
not what the stack says but what Kubernetes last started: `oldest` is the image of
the oldest pod, and `RollOut` replaces it when the stack names another. (A changed
ConfigMap replaces no pod; the environment of the pods is not modelled.)

### Teardown: destroy.sh and its recovery pass

`script` is where the script is: the stack of `cdk destroy` it is at, or the stack
and the attempt of the recovery pass. `Start` picks any order of the stacks in which
each comes after those that use it (`Orders`), which covers the one of this cdk. `ensure_cluster_deleted`,
`clear_cluster_sg_and_enis` and the `delete-stack` calls are `DeleteGroups`,
`DeleteCluster`, `Clear` and `Delete`. Nearly every command ends in `|| true`, so
`CommandFails` goes on where the command would have; every `aws ... wait` may stop
waiting, so the actions of AWS (`StackDeleted`, `StackFails`, `GroupsDeleted`,
...) interleave with the script's at will. `Skip` is the pass at a stack in any
other state, and at one whose state cannot be read. `cdk destroy` ends at its
first error (`CdkFails`), and the pass begins. `retained` says whether the
deletion of Eks under way leaves the custom resources, and with them the cluster,
out. `Interrupt` and `Start` end a run and begin another.

### Serving: pods, probes and rollouts

`phase[p]` is where a pod is (`pending`, `starting`, `running`, `stopping`), `fresh`
the pods of the last template, `process[p]` how the process in it does: `mute` is a
blocked event loop or a hung server, `sick` a vLLM whose engine is dead while its
server answers `/v1/models`. `Apply` is a `cdk deploy` with a new template; going back
to an old one counts as a new one. `MayCreate` and `MayRemove` are the Deployment
controller under `Recreate` (the model) and under `maxUnavailable: 0`, `maxSurge: 1`
(the API); `HasNode` is the scheduler, for which the one GPU is held until its pod is
gone. `Start` downloads the weights part by part into the `emptyDir` volume, which a
`Restart` of the container keeps and the end of the pod (`Vanish`) loses;
`StartupProbeFails` is the 20 minutes of `startupProbe` passing before that is done.
`HealthOK` is a probe's request: of `/health/ready` it asks `CheckReady`, which asks
the Service `vllm`, and so the ready pods of the model alone. `Register` and
`Deregister` are the `TargetGroupBinding`. Readiness changes after as many probes as
the threshold says, which is one step here, so that a failure may pass unseen. The
load balancer's own health check asks the same path as the readiness probe and is
not kept apart from it.

### Cluster: what is declared once

Pure operators, as the stacks have them: labels, taints, selectors and tolerations
(`Fits`), the level of pod security and what the pods comply with (`Admitted`), the
network policies and security groups (`Reaches`), the routes, the authorizer and CORS
of the gateway with what the screen calls (`PassesTheEdge`). `MayRunOn`, `Allows` and
`Admitted` say how Kubernetes reads the declarations. `Serving` uses `Fits`,
`Admitted` and `Reaches`, so that a pod that fits nowhere, or a policy that cuts the
API off from the model, shows there as well.

## 3. The runs

| Run | Instance | Shows |
|---|---|---|
| `ConversationStore_loop` | 3 sessions, 2 places, ttl 1, clock to 4, 1 caller | the event loop: the cap, who is evicted and why, what a sync leaves |
| `ChatApi_main` | 2 streams and a call, 1 slot, 2 tokens, under fairness | slots, limit, what is remembered, the SSE contract with every failure; every request ends; the limiter empties |
| `ChatApi_leak` (violated) | 1 stream, 1 call, 1 slot, under fairness | the slot of an abandoned stream |
| `ChatApi_silent` (violated) | 1 stream, 1 call | a timeout in a send ends a stream with no last frame |
| `ChatBackend_main` | 2 turns of a session, 1 of another, 1 slot, room for 1 session, window 2, ttl 1, timeout 1, clock to 2 | what a turn is answered from, what is remembered of it, that no reply revives a session |
| `ChatView_main` | 3 submissions, 2 new chats | spinner, stop button and cursors agree with open streams; what is posted alternates; the composer comes back; with it, what `Admission` answers small requests (`MCChatView`) |
| `ChatView_retry` (violated) | 3 submissions, 1 new chat | a failed turn poisons its chat |
| `SseClient_chunks` | answers of up to 2 tokens, chunks of up to 6 parts | chunks do not show; cut and failed streams; every request settles once |
| `CognitoSession_main` | 3 concurrent token requests, 3 logins, 3 generations of tokens | who is signed in has tokens, overlapping logins do not mix, fresh tokens are lost only in the two known ways |
| `Deployment_main` | 2 shells, 1 edit, 2 images kept | pods run one image, sign-in closes only midway, what has ended well is usable |
| `Teardown_main` | one script, the five stacks in any order of theirs, under fairness | stacks after those that use them, the end of every run, that runs repeated after the failures finish |
| `Serving_main` | 3 pods of the API, 2 of the model, weights in 1 part, 2 failures of the startup probe, 2 processes failing at a time, under fairness | a rollout costs no capacity; the service comes up from any state once it is left in peace; an outage of the model takes no API process down |

The bounds. Three sessions for two places are the fewest with a victim, a
survivor and a newcomer; a time to live of one with a clock to four lets a
session expire, be used again and expire again; a window of two messages
(`MaxTurns = 1`) is exceeded by a transcript of three and by one append. One slot
and three requests make every request meet a full limiter and a free one. Two
tokens allow an answer with none, one and several. Three submissions are two that
overlap and one after them; two new chats let one overtake a submission and the
next find what it left. A replica that was restarted is a cold
one, so one replica shows what several do: they share nothing, and the proofs of
`ChatBackend` are for any number. A chunk of six parts is a whole frame and one part
more. Two submissions and a new chat are the callers of `getAccessToken` that can
overlap; three generations of tokens let a refresh overlap two others.
`MAX_MESSAGES` is 4 in place of 20, and the other limits of a request 2 and 9:
small requests are on both sides of each. Two shells are a script and another that
overtakes it, or that it meets again after a failure; one edit gives two contents
for one tag and, committed, three tags in all, of which a repository that keeps two
images has to expire one. `Teardown` has no bounds: five stacks and
three attempts are the code's. Three pods of the API are the two replicas and the
surge; two of the model are the one that is replaced and its successor. Pods are
alike, and `Create` takes any unused one. A part of the weights that is there when the
container is restarted, and lost with its pod, is what the volume makes a difference
to; two failures of the startup probe are one that is forgiven and one that is not;
two processes that fail at a time are one of each app, or all of one. `MaxTime`, `MaxTurnCount`, `MaxTokens`,
`MaxSubmissions`, `MaxChats`, `MaxChunk`, `MaxLogins`, `MaxGenerations`, `MaxEdits` and `MaxFailing`
are bounds of the models and no limits of the code; the proofs hold
for any value of them, and of `MaxImages`.

Fairness. `ChatApi!FairSpec` assumes that the server iterates a response or
drops it (it always does one), that `GENERATION_TIMEOUT_SECONDS` pass for every
stream and every call, and that for the last frame, which is sent outside the
timeout, the client reads or its connection ends. It assumes nothing of vLLM and
nothing of clients in mid-stream. `ChatView!FairSpec` assumes that
`getAccessToken` answers and that a stream ends, which is `EveryRequestEnds`.
`SseClient!SseFairSpec` assumes that a read of the network resolves or rejects, which
is `EveryRequestEnds` again. `Teardown!FairSpec` assumes that the script goes on
unless it is interrupted, that it is run again, and that CloudFormation ends a
deletion it began, well or not; nothing of EKS. `ReRunsFinish` has the premise
that from some time on nothing fails that could have gone well (`Failure`): the
script cannot promise more, and while failures go on `RunEnds` still holds.
`Serving!FairSpec` assumes that the control loops of Kubernetes, the kubelets and the
load balancer controller do not stop for ever, and that the kubelet of an API pod is
not kept from it by what goes on elsewhere; nobody need deploy, repair a process or
bring the node back. `ServiceComesUp` has the premise that deployments, failures and
losses of the node end, `ApiRidesOutTheModel` only that those of the API end: the model
may fail for ever.

`CHECK_DEADLOCK FALSE` stands where the system may stop: all requests are over,
all submissions are made. The store never stops: `forget` is always possible.

## 4. The findings

Three runs end in a counterexample; each is a disagreement between the code and a
comment or document of the repository, quoted in `PROJECT.json`.

- A client that leaves before its stream starts takes a slot with it (`ChatApi_leak`).
- A generation timeout in the send of a frame is not reported (`ChatApi_silent`).
- A failed turn poisons its chat (`ChatView_retry`): the trace submits a turn, which
  fails before its first token, and then another, which posts the empty bubble of the
  first.

The hazards name what else came up and has no run of its own: the lifecycle rule of the repository may take the image that the pods run, when 15
others are pushed and none of them is deployed, which `PodsRunOneImage` states as it is;
a data line of vLLM that is JSON but no chunk ends a stream without an error frame
(`ReadBroken`, of which `FailureIsReported` does not speak); phase 3 of a
deployment changes the ConfigMap that the pods of phase 2 read when they started, and
nothing that replaces them, so that they go on with the placeholder for the SPA's
origin; while the model is out every pod of the API is unready and the routes that do
not need the model are gone too; a rollout of the API does not wait until its new pods
are registered with the load balancer, so that for a while there may be no target that
serves; the recovery of Eks may
retain a cluster that could not be deleted (`Orphaned`, the one other end that
`ReRunsFinish` allows); a chunked body of undeclared length is capped in its first
chunk only; an outage of Cognito's key set is answered as if every token were bad,
and the fetch of the keys blocks the event loop; the window of `max_turns`
pairs begins in the middle of a pair; a chat of more than twenty messages is
refused for ever; a submission that waits for its token survives the screen; a
refresh under way at a logout signs the user in again; `clearTokens` takes the
material of a login under way; the environment given to `deploy.sh` is passed as
a context key that the configuration does not read; `cdk destroy` leaves the
stacks after an error to the next run, and the recovery pass never looks at
Amplify. Two builds of one dirty checkout share a tag, and the second is skipped
although its content is another: `PodsRunOneImage` says that a tag means one
image, not which.
`SettledAtTheEnd` states another trait as it is: an `error` or `done` frame whose
blank line is missing is reported, and `onDone` is called after it.

## 5. The proofs

`SessionMemoryProofs` has the facts about the operators: what `NthKept` chooses,
that a retained, swept or appended store is well-formed (`StoreOK`: types, order,
finiteness, cap, window), that a sweep which evicts a fresh session leaves a full
store (`EvictionFillsTheStore`), and that a synced session survives its own sweep
(`SyncedIsHeld`). `ConversationStoreProofs` has the theorems: the inductive
invariant `IInv` is `StoreOK(memory)` with the types of the calls, that a pending
call names a session (`CallsNameSessions`) and that a clock reading is not in the
future (`ReadingsArePast`), which is what makes an eviction by an older reading
justified at the present time. The type invariant alone is not inductive: the cap
needs the order to be total, and the order needs its domain.

These theorems are for any number of callers: the store under threads is theirs,
and the run has the one caller of the event loop.

`ChatBackendProofs` has the route and the route with its memories. Of the route
(`Spec` of `ChatApi`) it proves the type invariant, that each limiter counts exactly
the holders and the abandoned (by finite-set cardinalities: each action adds or
removes one request of one replica), from it the limit, and the refinement of
`SseContract`: one lemma per kind of step, `Restart` being `CutAll`. That memory is
given complete replies only (`OnlyCompleteRepliesAreRemembered`) is not inductive as
it stands: at the usage frame the reply is in memory and `done` is still to be sent.
`StreamInv` says in addition what a stream has sent at each of its awaits: tokens
only, and nothing remembered, while upstream still speaks; a usage frame, and the
reply remembered if there is one, at `usage`.

Of the backend it proves that it implements the route (`BackendImplementsRoute`), so
that all of the above holds of it too, and the three properties of its run. The
inductive invariant `BInv` has two parts that concern each other. `Remembering` is
`MemoryIsTranscript`; its one hard step is a reply appended to a window that was
already cut, which `WindowTakesReply` answers from `WindowAppend`: windowing early
loses nothing that windowing late would keep. `Timely` and `SeenSince` are what
`RepliesReviveNothing` rests on: a turn under its timeout began at most
`GenerationSeconds` ago, and its session, if it is there, was seen no earlier; as the
timeout is within the time to live, a reply finds no expired session
(`SessionIsAlive`). `SeenSince` survives the other turns of the session because
`sync` leaves the other sessions as they are (`SyncedLeavesOthers`) and a session
that was lost comes back only by a sync, which sees it now.

Three results join its modules to each other. First, each replica's memory is used
as a store and in no other way: every step of the backend is to it one operation of
`SessionMemory` under the guards of the route, the loss of the store in a restart,
or nothing (`ReplicasUseTheStore`). So the properties of `ConversationStore` hold of
every replica: order and caps (`ReplicasStayBounded`), no session lost but by
expiry, a full store, DELETE or a restart (`ReplicasLoseWithReason`), and none there
but by a turn of its own (`TurnsAloneCreateSessions`: a late reply makes none). They
are proved of the backend's steps and not by a refinement of `ConversationStore`, whose
callers read the clock in one step and use the store in the next: the backend,
on one event loop, does both at once, and reads no clock twice. Second, a
reply is appended on the replica that answered, to the session its request named,
once among all memories (`RepliesGoHomeOnce`). The invariant `RepliesGoHome` has to say
too that a request not yet answered is not marked as remembered: else its reply
might come a second time. With `OnlyCompleteRepliesAreRemembered`, brought over by
`BackendImplementsRoute`, what a memory took of a stream had its end sent and no error
(`OnlyWholeAnswersAreTaken`). Third, the contract means what a client relies on: every body,
at every moment, has the documented shape (`BodiesAreWellFormed`), which is proved of
`SseContract` by its stages and holds of the route because it implements the contract.

`ChatClientProofs` proves the invariants of the screen from one, in which they support
each other: each step that ends a stream must clear the spinner, the controller and
the cursors that would otherwise outlive it. It adds that only answers have a cursor
(`CursorsAreAnswers`: the end of a stream clears the cursors of answers alone), that the transcript and what every closure has captured of it are
whole turns, user and assistant (`Paired`: what is posted is what was captured and one
message more), and that the new chats that wait are within their bound (`ChatsBounded`).
`PostsHaveAcceptableRoles` joins the screen to `Admission`: a post is
never refused for its roles or its order. The theorems about `Admission` are there too:
for all limits and requests, what an admitted request is, and that large bodies are
refused first; they rest on the first failing check being well defined
(`FirstIsLeast`).

Its last part is about the stream of `SseClient`, for answers of any length in chunks
of any size. `Drain` is a recursive function, so two things come first. The library's
induction theorems take an operator, which no prover here can give them, but that the
order of the natural numbers is well founded is a fact about a set
(`LessIsWellFounded`): it gives least members, then induction over sets of numbers
(`Induction`), then that any step can be iterated (`Iteration`) and that `Drain` is
what its passes come to (`DrainIsIteration`). `WireType` says where each part of each
frame is on the wire, so that the first blank line of a buffer that begins with a frame
is that frame's (`PassOnWire`); by induction over the passes, the loop stops with
the frames at hand handled and the rest in the buffer, or after the first frame that
finishes the stream (`DrainOnWire`). The invariant `SseInv` is that: until the end, the
buffer is what has been read after the last whole frame, the callbacks are those of the
whole frames, and none of them finishes the stream (`InStep`); at the end, there is
one callback more, or one for a frame that was cut and one that settles
(`AtTheEnd`). `ChunksDoNotShow` alone is not inductive: it does not say what the buffer
holds, and without that the next chunk may complete anything. The three theorems
follow from `SseInv` alone. `WholeAnswersAreDelivered` is about the one race of the end: an
answer of which the last byte was read is told to its end, with exactly its callbacks,
and an abort or a failure of the connection after that changes nothing. It needs the
step itself (`LastChunkDelivers`): the chunk that completes the last frame also
finishes the stream.

`CognitoSessionProofs` proves the invariants of the token session and its action
property. `SignedInHasTokens` and `LastLoginIsStored` are conjuncts of an inductive
invariant with the types; for `FreshTokensAreKept` it adds that what a refresh holds,
while it is under way, are tokens that were about to expire (`HeldIsExpiring`).

`DeploymentProofs` proves that the pods run one image, that sign-in closes only
midway, and that what has ended well is usable, for any number of shells, edits and
images kept. `OneImage` rests on two invariants: the repository has expired nothing of
which fewer than `MaxImages` pushes are younger, and a tag is pushed twice only that far
apart (`RegistryInv`); a script past phase 1 has a tag that was pushed, and so have
the stack and the oldest pod (`ImageInv`). The other two rest on what is owed: a script
that has begun owes each stack with the SPA's address its rewiring, from its start
until its phase 3 has come to that stack (`Owes`), and each stack names the address or
is owed it (`WiredInv`); when all scripts have ended well, nobody owes anything. `TodoInv`
says what is left of a phase (cdk comes to `Auth` first and to `Amplify` last), and
`ServedInv` that a script ends well only when its SPA is served.

`TeardownProofs` proves that no stack is touched before those that use it are gone,
for every order that cdk may take, from
what the scripts have left behind: where `cdk destroy` is, all before it is gone
(`DestroyedSoFar`), and a stack under recovery is in the state in which a deletion
failed, or is being deleted (`FailedUntilDeleted`).

`ServingProofs` proves the types (which say that a ready pod runs, and a failing
process too) and that no rollout costs capacity, for any number of pods: the only step
that takes a ready pod of the API from two to fewer without a fault is `Remove`, which
leaves as many as `MayRemove` counts. It also evaluates the declarations of `Cluster`,
for everyone who may ask and every port: only the API reaches the model, what the apps
need is open, each app fits exactly its own nodes and is admitted, and the gateway's
routes, the API's and the screen's agree.

Assumptions: the named ASSUMEs of the modules (settings are integers, `NoContent`
is a content, transcripts are sequences of messages, `Streaming` is a set of
requests, `NoReplica` is no replica, `None` no tag,
version, redirect or length; of a turn, that its session, its transcript and a reply
with a text are there, and that `GENERATION_TIMEOUT_SECONDS` is positive and within the
time to live, as deployed; that the repository keeps at least one image). The sets of requests, replicas, sessions, submissions and
shells need not be finite except where a theorem says so.

TLC has checked `StreamInv`, `BInv`, `RegistryInv`, `ImageInv`, `WiredInv`, `ServedInv` and `SseInv` on the bounds of the runs
too, and the statements of the theorems that no run has: `RepliesGoHome`,
`NoReplyTwice` and the step properties of the memories on those of `ChatBackend_main`,
`DeliveredWhole` on those of `SseClient_chunks`.

Only model-checked: the properties under fairness (`EveryRequestEnds`,
`SaturationEndsUnlessAbandoned`, `SpinnerEnds`, `StreamSettles`, `RunEnds` and
`ReRunsFinish` of `Teardown`, `ServiceComesUp` and `ApiRidesOutTheModel` of `Serving`),
which need ENABLED. Every other property of a passing run is a theorem.

## 6. What is left out

Settings, metrics and logging keep no state that is read back. Of token validation,
signatures and claims are the business of a library.
Of the CDK code, the alarms and dashboards, the user pool, the VPC, IAM, the add-ons
that neither app needs and the ranges of the settings are declarations nobody here
reacts to; throttling and the 29 seconds the gateway waits for an answer are, to
`ChatApi`, clients that leave. CPU and memory of the pods, the anti-affinity of the API
and the order in which CloudFormation makes resources are left out of `Serving`, whose
first state has the nodes and no pod. Texts are model values: `json`, SSE and UTF-8 encoding are not
modelled. A refresh token is taken to be
stored with every token: without one, getting a token fails at once, which is the
refresh that fails. sessionStorage is taken to work. Of the teardown, the sweeps of
log groups, load balancers and target groups act on names alone and read no
state of the script; `deletionProtection` is off, as in `cdk.json`. The workflows
are started by hand beside the scripts. The environment is `dev`.

## 7. The plan

1. (done) A. `SessionMemory`, `ConversationStore` and their proofs.
2. (done) B. `SseContract`, `ChatApi` and their proofs; `ChatView`.
3. (done) C. `ChatBackend`. D. `SseClient`. E. `CognitoSession`.
4. (done) F. `Deployment` and `Teardown`, with their proofs.
5. (done) G. `Admission` and its proofs.
6. (done) H. `Cluster` and `Serving`, with their proofs.
7. (done) Proofs of `RememberedIffComplete`, `ChatBackend`, `ChatView`,
   `CognitoSession` and `SettledMeansUsable`.
8. (done) Proofs of `SseClient` by induction; that each memory of `ChatBackend` is
   used as a store and keeps what one promises; that replies go home once.
9. What may be done further: a refinement of `ConversationStore` by each replica's
   memory, with its two-step calls made one; the settings' ranges in `Cluster`.
