------------------------ MODULE ContainerInvocation ------------------------
(***************************************************************************)
(* One `invoke` call: the host process that prepares the inputs and runs   *)
(* the container client (runner/cli.py, runner/model_catalog.py), the      *)
(* entry point inside the container (container/invoke.py) with the         *)
(* preflight server and the product it runs, and the two timeouts.  The    *)
(* host, the client, the container and the product run concurrently: the   *)
(* client may die or be killed while the container goes on, the container  *)
(* may be killed at any point, and any of its waits may last forever.      *)
(***************************************************************************)
EXTENDS InvocationOutcome

CONSTANT Requests      \* the calls considered, a subset of AllRequests

(* skill: --skill was given; plugin: --expected-plugin was given and agent: *)
(* --agent was; pinned: require_local_opencode_image; database: an OpenCode *)
(* database was found; auth: a Copilot token is in the environment;         *)
(* ambiguous: --reasoning was given for a model that carries a #variant.    *)
AllRequests ==
    [transport: {"opencode", "copilot"}, skill: BOOLEAN, plugin: BOOLEAN, agent: BOOLEAN,
     pinned: BOOLEAN, database: BOOLEAN, auth: BOOLEAN, ambiguous: BOOLEAN]

ASSUME RequestsAssumption == Requests \subseteq AllRequests

VARIABLES
    request,     \* the call, never changed
    host,        \* where invoke is
    temps,       \* the temporary inputs on disk: "inputs", "database", "catalog"
    client,      \* the container engine's client process
    clientExit,  \* its exit status, once it returned
    container,   \* where the entry point is
    server,      \* the preflight server; "killed" is signalled and not yet gone
    verified,    \* the server reported the expected plugin as active
    product,     \* the opencode or copilot process
    ended,       \* how the product ended, history
    acted,       \* whether the model ran a tool, history
    result,      \* the result object of main, <<>> before there is one
    stdout,      \* what the container wrote: nothing, a torn or a whole object
    outcome,     \* how invoke_once ended, and the reply it returned
    reply

hostVars == <<host, temps, client, clientExit, outcome, reply>>
runVars == <<server, verified, product, ended, acted>>
vars == <<request, hostVars, container, runVars, result, stdout>>

HostStages == {"inputs", "database", "catalog", "command", "launch", "waiting", "read", "done"}
ContainerStages ==
    {"none", "main", "preflight", "requests", "stopping", "abandoning", "reasoning",
     "run", "emit", "report", "exited", "dead"}
Inside == ContainerStages \ {"none", "exited", "dead"}

Opencode == request.transport = "opencode"

---------------------------------------------------------------------------
(* The host: invoke_once and invoke.                                        *)

(* Mutation: the catalog snapshot is removed by a normal return only.       *)
LeaveSnapshot(how, answer) ==
    /\ host' = "done"
    /\ outcome' = how /\ reply' = answer
    /\ temps' = temps \ {"inputs", "database"}

(* Leaving invoke and invoke_once, by return or by exception: the catalog   *)
(* snapshot and both temporary directories are removed on every path.       *)
Leave(how, answer) ==
    /\ host' = "done"
    /\ outcome' = how /\ reply' = answer
    /\ temps' = {}

Raise(how) == Leave(how, <<>>)

(* What may leave invoke_once: the exceptions the attempt loop catches, and *)
(* any other.                                                               *)
Exceptions == DOMAIN RaisedCode \cup {"escaped"}

(* The exceptions of the preparation: a refusal, or a filesystem error.     *)
Trouble == {"RunnerError", "OSError"}

HostGoesOn(next) == host' = next /\ UNCHANGED <<client, clientExit, outcome, reply>>
ContainerUntouched == UNCHANGED <<request, container, runVars, result, stdout>>

(* Prompt and system file are copied into the input directory, or missing.  *)
PrepareInputs ==
    /\ host = "inputs"
    /\ \/ HostGoesOn("database") /\ temps' = temps \cup {"inputs"}
       \/ (\E exc \in Trouble : Raise(exc)) /\ UNCHANGED <<client, clientExit>>
    /\ ContainerUntouched

(* sanitize_database_seed: a copy that keeps the schema and the credentials.*)
SanitizeDatabaseSeed ==
    /\ host = "database"
    /\ \/ HostGoesOn("catalog") /\ temps' = temps \cup (IF request.database THEN {"database"} ELSE {})
       \/ /\ request.database
          /\ \E exc \in Trouble : Raise(exc)
          /\ UNCHANGED <<client, clientExit>>
    /\ ContainerUntouched

(* pinned_model_catalog, entered for the opencode transport.  An incomplete *)
(* read of the fetched catalog is none of the exceptions the host knows.    *)
PinCatalog ==
    /\ host = "catalog"
    /\ \/ HostGoesOn("command") /\ temps' = temps \cup (IF Opencode THEN {"catalog"} ELSE {})
       \/ /\ Opencode
          /\ \E exc \in {"RunnerError", "escaped"} : Raise(exc)
          /\ UNCHANGED <<client, clientExit>>
    /\ ContainerUntouched

(* What build_container_command refuses by the request alone.               *)
Refused == ~Opencode /\ (request.skill \/ request.plugin \/ request.pinned)

(* Whether the engine, the workspace, the seeds and the mounts are there and *)
(* the local image is the pinned one is up to the machine.                  *)
BuildContainerCommand ==
    /\ host = "command"
    /\ \/ ~Refused /\ HostGoesOn("launch") /\ UNCHANGED temps
       \/ (\E exc \in Trouble : Raise(exc)) /\ UNCHANGED <<client, clientExit>>
    /\ ContainerUntouched

StartClient ==
    /\ host = "launch"
    /\ \/ host' = "waiting" /\ client' = "running" /\ UNCHANGED <<temps, outcome, reply>>
       \/ Raise("OSError") /\ UNCHANGED client
    /\ UNCHANGED clientExit
    /\ ContainerUntouched

(* Mutation: the timeout counts from the start of the container.            *)
OuterTimeoutOfContainer ==
    /\ host = "waiting" /\ client = "running" /\ container # "none"
    /\ client' = "killed"
    /\ Raise("TimeoutExpired")
    /\ UNCHANGED clientExit
    /\ ContainerUntouched

(* subprocess.run kills the client it started and raises TimeoutExpired;    *)
(* the container is the engine's and runs on.                               *)
OuterTimeout ==
    /\ host = "waiting" /\ client = "running"
    /\ client' = "killed"
    /\ Raise("TimeoutExpired")
    /\ UNCHANGED clientExit
    /\ ContainerUntouched

(* The client returned, and its output was collected.                       *)
CollectOutput ==
    /\ host = "waiting" /\ client = "returned"
    /\ host' = "read"
    /\ temps' = temps \ {"catalog"}
    /\ UNCHANGED <<client, clientExit, outcome, reply>>
    /\ ContainerUntouched

HostOk == clientExit = "zero"

(* One whole object on stdout that passes the contract becomes the reply;   *)
(* anything else is an error of the result, and writing or reading back the *)
(* result file may fail.                                                    *)
ReadResult ==
    /\ host = "read"
    /\ \/ /\ stdout = "whole"
          /\ Leave("returned", <<[result |-> result[1], hostOk |-> HostOk, acted |-> acted]>>)
       \/ stdout # "whole" /\ Raise("RunnerErrorOnResult")
       \/ stdout = "whole" /\ Raise("OSError")
    /\ UNCHANGED <<client, clientExit>>
    /\ ContainerUntouched

---------------------------------------------------------------------------
(* The engine.                                                              *)

ContainerGone == container \in {"none", "exited", "dead"}

ContainerStarts ==
    /\ client = "running" /\ container = "none"
    /\ container' = "main"
    /\ UNCHANGED <<request, hostVars, runVars, result, stdout>>

(* The client returns the status of a container that ended, and one of its  *)
(* own when it could not start it or failed after it.                       *)
ClientReturns ==
    /\ client = "running" /\ ContainerGone
    /\ client' = "returned"
    /\ clientExit' \in
           (IF container # "exited" THEN {}
            ELSE IF stdout # "whole" THEN {"one"}
            ELSE IF result[1].infrastructure_error THEN {"two"} ELSE {"zero"}) \cup {"other"}
    /\ UNCHANGED <<request, host, temps, outcome, reply, container, runVars, result, stdout>>

(* The client dies on its own; the container goes on without it.            *)
ClientDies ==
    /\ client = "running" /\ container \in Inside
    /\ client' = "returned" /\ clientExit' = "other"
    /\ UNCHANGED <<request, host, temps, outcome, reply, container, runVars, result, stdout>>

(* What ends with the container's first process.                            *)
EndsWithContainer(process) == IF process \in {"alive", "killed"} THEN "gone" ELSE process

(* The container is killed, by the kernel or by an operator, possibly while *)
(* it writes its result.                                                    *)
ContainerDies ==
    /\ container \in Inside
    /\ container' = "dead"
    /\ server' = EndsWithContainer(server) /\ product' = EndsWithContainer(product)
    /\ stdout' \in IF container \in {"emit", "report"} THEN {stdout, "torn"} ELSE {stdout}
    /\ UNCHANGED <<request, hostVars, verified, ended, acted, result>>

---------------------------------------------------------------------------
(* The entry point, main of container/invoke.py: one step after another,    *)
(* and any exception leads to the report of an infrastructure error.        *)

UnsupportedEvidence ==
    [status |-> "unsupported", boundary |-> [b \in Boundaries |-> "unsupported"],
     empty |-> TRUE, field |-> "ready", process |-> "unsupported"]

(* Mutation: what is left to report says that nothing was invoked.          *)
ReportsOfSilence ==
    {[infrastructure_error |-> FALSE, exit |-> "error", no_route |-> no_route,
      evidence |-> [status |-> "complete", boundary |-> [b \in Boundaries |->
                       IF b \in ObservedBoundaries THEN "complete" ELSE "unsupported"],
                    empty |-> TRUE, field |-> "ready", process |-> "completed"]] : no_route \in BOOLEAN}

(* The message of the exception may quote anything a server logged.         *)
InfrastructureReports ==
    {[infrastructure_error |-> TRUE, exit |-> "error", no_route |-> no_route,
      evidence |-> UnsupportedEvidence] : no_route \in BOOLEAN}

(* invoke_copilot without a token: a result as of a product that failed.    *)
Unauthenticated ==
    [infrastructure_error |-> FALSE, exit |-> "error", no_route |-> FALSE,
     evidence |-> UnsupportedEvidence]

ProductReports == {r \in Results : ~r.infrastructure_error}

(* What a product run that ended this way reports: the runtime evidence of  *)
(* the observer for OpenCode, none for Copilot.  Evidence without an        *)
(* observation is taken at its word, as in Replies.                         *)
RunReports(how, processStates) ==
    {r \in ProductReports :
        /\ r.exit = how
        /\ IF Opencode THEN r.evidence.process \in processStates
           ELSE r.evidence = UnsupportedEvidence
        /\ EvidenceProvesNoInvocation(r.evidence) => ~acted}

ContainerGoesOn(next) == container' = next /\ UNCHANGED <<request, hostVars, stdout>>
NothingRuns == UNCHANGED runVars
Fails(step) == container = step /\ ContainerGoesOn("report") /\ result' \in {<<r>> : r \in InfrastructureReports}

(* Arguments, prompt and, for OpenCode, prepare_opencode_env; Copilot asks  *)
(* for a token first.                                                       *)
PrepareEnvironment ==
    /\ container = "main"
    /\ \/ Opencode /\ ContainerGoesOn("preflight") /\ UNCHANGED result
       \/ ~Opencode /\ request.auth /\ ContainerGoesOn("reasoning") /\ UNCHANGED result
       \/ ~Opencode /\ ~request.auth /\ ContainerGoesOn("emit") /\ result' = <<Unauthenticated>>
    /\ NothingRuns

(* verify_expected_plugin: skipped without an expected plugin; with one it   *)
(* needs an agent and starts a private server.                              *)
SkipPreflight ==
    /\ container = "preflight" /\ ~request.plugin
    /\ ContainerGoesOn("reasoning") /\ NothingRuns /\ UNCHANGED result

StartPreflightServer ==
    /\ container = "preflight" /\ request.plugin /\ request.agent
    /\ server = "none"
    /\ server' = "alive"
    /\ UNCHANGED <<request, hostVars, container, verified, product, ended, acted, result, stdout>>

ServerIsReady ==
    /\ container = "preflight" /\ server = "alive"
    /\ ContainerGoesOn("requests") /\ NothingRuns /\ UNCHANGED result

(* No or no valid readiness line: killed and not waited for.                *)
ServerIsNotReady ==
    /\ server = "alive"
    /\ Fails("preflight")
    /\ server' = "killed"
    /\ UNCHANGED <<verified, product, ended, acted>>

(* Session, prompt and plugin inventory requests, in this order.            *)
PluginIsActive ==
    /\ container = "requests"
    /\ ContainerGoesOn("stopping")
    /\ verified' = TRUE
    /\ UNCHANGED <<server, product, ended, acted, result>>

(* Mutation: a failed request leaves like a successful one.                 *)
RequestFailureIsIgnored ==
    /\ container = "requests"
    /\ ContainerGoesOn("stopping") /\ NothingRuns /\ UNCHANGED result

RequestFails ==
    /\ container = "requests"
    /\ ContainerGoesOn("abandoning") /\ NothingRuns /\ UNCHANGED result

(* Mutation: the server is told to stop and not waited for.                 *)
LeavePreflightServer ==
    /\ container = "stopping"
    /\ ContainerGoesOn("reasoning")
    /\ server' = "killed"
    /\ UNCHANGED <<verified, product, ended, acted, result>>

(* _stop_preflight_server waits, terminates, kills; a server that outlives  *)
(* the kill raises, and so does the failed request behind it.               *)
StopPreflightServer ==
    /\ container = "stopping"
    /\ ContainerGoesOn("reasoning")
    /\ server' = "gone"
    /\ UNCHANGED <<verified, product, ended, acted, result>>

ServerCannotBeStopped ==
    /\ Fails("stopping")
    /\ server' = "killed"
    /\ UNCHANGED <<verified, product, ended, acted>>

AbandonPreflight ==
    /\ Fails("abandoning")
    /\ server' \in {"gone", "killed"}
    /\ UNCHANGED <<verified, product, ended, acted>>

(* resolve_opencode_reasoning, the observer transport and the command.      *)
StartProduct ==
    /\ container = "reasoning" /\ ~(Opencode /\ request.ambiguous)
    /\ ContainerGoesOn("run")
    /\ product' = "alive"
    /\ UNCHANGED <<server, verified, ended, acted, result>>

Act ==
    /\ product = "alive"
    /\ acted' = TRUE
    /\ UNCHANGED <<request, hostVars, container, server, verified, product, ended, result, stdout>>

(* A product may end with the status a timeout has, 124.                    *)
ProductEnds ==
    /\ container = "run" /\ product = "alive"
    /\ product' = "gone"
    /\ ended' \in {"zero", "error", "timeout"}
    /\ UNCHANGED <<request, hostVars, container, server, verified, acted, result, stdout>>

(* The product's pipes are closed, its events are read and its evidence is  *)
(* built.                                                                   *)
RunReturns ==
    /\ container = "run" /\ product = "gone"
    /\ ContainerGoesOn("emit") /\ NothingRuns
    /\ result' \in {<<r>> : r \in RunReports(ended, {"completed", "interrupted"})}

(* run kills the product after --timeout-seconds.  A product that ended but *)
(* left its pipes to a child of its own times out just the same.  Copilot's *)
(* timeout is an exception like any other.                                  *)
InnerTimeout ==
    /\ container = "run"
    /\ product' = "gone"
    /\ ended' = IF product = "alive" THEN "timeout" ELSE ended
    /\ IF Opencode
       THEN ContainerGoesOn("emit") /\ result' \in {<<r>> : r \in RunReports("timeout", {"timeout"})}
       ELSE Fails("run")
    /\ UNCHANGED <<server, verified, acted>>

(* An exception of any step that leaves no process behind: what is missing  *)
(* or malformed, and, after the run, output that cannot be read or safely   *)
(* reported: the paid result is lost.                                       *)
StepRaises ==
    /\ \/ Fails("main")
       \/ request.plugin /\ server = "none" /\ Fails("preflight")
       \/ Fails("reasoning")
       \/ product = "gone" /\ Fails("run")
       \/ Fails("emit")
    /\ NothingRuns

Emit ==
    /\ container \in {"emit", "report"}
    /\ container' = "exited"
    /\ stdout' = "whole"
    /\ server' = EndsWithContainer(server)
    /\ UNCHANGED <<request, hostVars, verified, product, ended, acted, result>>

ReportRaises ==
    /\ container = "report"
    /\ container' = "exited"
    /\ server' = EndsWithContainer(server)
    /\ UNCHANGED <<request, hostVars, verified, product, ended, acted, result, stdout>>

---------------------------------------------------------------------------
Init ==
    /\ request \in Requests
    /\ host = "inputs" /\ temps = {} /\ client = "none" /\ clientExit = "none"
    /\ outcome = "pending" /\ reply = <<>>
    /\ container = "none" /\ server = "none" /\ verified = FALSE
    /\ product = "none" /\ ended = "none" /\ acted = FALSE
    /\ result = <<>> /\ stdout = "empty"

HostStep ==
    \/ PrepareInputs \/ SanitizeDatabaseSeed \/ PinCatalog \/ BuildContainerCommand
    \/ StartClient \/ CollectOutput \/ ReadResult

EngineStep == ContainerStarts \/ ClientReturns \/ ClientDies \/ ContainerDies

PreflightStep ==
    \/ SkipPreflight \/ StartPreflightServer \/ ServerIsReady \/ ServerIsNotReady
    \/ PluginIsActive \/ RequestFails \/ StopPreflightServer \/ ServerCannotBeStopped
    \/ AbandonPreflight

EntryPointStep ==
    \/ PrepareEnvironment \/ PreflightStep
    \/ StartProduct \/ Act \/ ProductEnds \/ RunReturns \/ InnerTimeout
    \/ StepRaises \/ Emit \/ ReportRaises

Finished == host = "done" /\ UNCHANGED vars

Next == HostStep \/ OuterTimeout \/ EngineStep \/ EntryPointStep \/ Finished

Spec == Init /\ [][Next]_vars

(* The host's own steps are bounded, and so is its wait for the client.     *)
(* Nothing is assumed of the engine, the container and the product.         *)
FairSpec == Spec /\ WF_vars(HostStep) /\ WF_vars(OuterTimeout)

---------------------------------------------------------------------------
(* Properties.                                                              *)

TypeOK ==
    /\ request \in AllRequests
    /\ host \in HostStages
    /\ temps \subseteq {"inputs", "database", "catalog"}
    /\ client \in {"none", "running", "killed", "returned"}
    /\ clientExit \in {"none", "zero", "one", "two", "other"}
    /\ container \in ContainerStages
    /\ server \in {"none", "alive", "killed", "gone"}
    /\ verified \in BOOLEAN
    /\ product \in {"none", "alive", "gone"}
    /\ ended \in {"none", "zero", "error", "timeout"}
    /\ acted \in BOOLEAN
    /\ result \in Seq(Results) /\ Len(result) <= 1
    /\ stdout \in {"empty", "torn", "whole"}
    /\ outcome \in {"pending", "returned"} \cup Exceptions
    /\ reply \in Seq(Replies) /\ Len(reply) <= 1

(* The call is one invocation, as the attempt loop assumes: it ends once,   *)
(* its reply is true of what the model did, evidence that nothing was       *)
(* invoked included, and nothing of it acts after its reply; only a call    *)
(* that raised may leave a container behind that still does.                *)
Call == INSTANCE OneInvocation
ImplementsOneInvocation == Call!Spec

(* How the product ended, as a result that is no infrastructure error has   *)
(* it; a run without a product is Copilot's without a token.                *)
TellsTheRun(r) ==
    /\ request.plugin => verified
    /\ \/ r.exit = "zero" /\ ended = "zero"
       \/ r.exit = "error" /\ ended = "error"
       \/ r.exit = "timeout" /\ ended # "none"
       \/ r = Unauthenticated /\ ~Opencode /\ ~request.auth /\ ended = "none"

(* A reply that is no infrastructure error tells how the requested product  *)
(* ended, whichever of the processes died or was killed on the way: a clean *)
(* one that it ended cleanly, a product error that it failed or that        *)
(* Copilot had no token; and it exists only if an expected plugin was seen  *)
(* active by the preflight before.                                          *)
ReplyTellsTheRun ==
    outcome = "returned" /\ ~reply[1].result.infrastructure_error => TellsTheRun(reply[1].result)

(* The product is never started while the preflight server may still run:   *)
(* two OpenCode processes never share the one database and state directory. *)
OneOpenCodeAtATime == product # "none" => server \in {"none", "gone"}

(* Nothing the call put on disk outlives it, credentials of the database    *)
(* copy included, and nothing is removed under a container whose client     *)
(* still runs.                                                              *)
Inputs == {"inputs"} \cup (IF request.database THEN {"database"} ELSE {})
                     \cup (IF Opencode THEN {"catalog"} ELSE {})
TemporaryInputsLiveWithTheCall ==
    /\ outcome # "pending" => temps = {}
    /\ client = "running" => temps = Inputs

(* The call ends, by a reply or an exception, whatever hangs inside the     *)
(* container: a server that never reports, a pipe that is never closed.     *)
CallEnds == <>(outcome # "pending")
=============================================================================
