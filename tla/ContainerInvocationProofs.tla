--------------------- MODULE ContainerInvocationProofs ---------------------
(***************************************************************************)
(* Proofs about ContainerInvocation, for every set of calls.               *)
(***************************************************************************)
EXTENDS ContainerInvocation, TLAPS

(* Evidence of a run without observer passes the contract.                  *)
LEMMA UnsupportedEvidenceFacts ==
    /\ UnsupportedEvidence \in Evidence
    /\ ~EvidenceProvesNoInvocation(UnsupportedEvidence)
<1>1. UnsupportedEvidence \in EvidenceShape
    BY DEF UnsupportedEvidence, EvidenceShape, Statuses
<1>2. {UnsupportedEvidence.boundary[b] : b \in ObservedBoundaries} = {"unsupported"}
    BY DEF UnsupportedEvidence, ObservedBoundaries, Boundaries
<1>3. ValidateRuntimeEvidence(UnsupportedEvidence)
    BY <1>2 DEF ValidateRuntimeEvidence, UnsupportedEvidence, Boundaries
<1> QED
    BY <1>1, <1>3 DEF Evidence, EvidenceProvesNoInvocation, UnsupportedEvidence

(* The objects main may hold are results of the contract, and true of what  *)
(* the model did.                                                           *)
LEMMA ReportFacts ==
    /\ Unauthenticated \in Results
    /\ ~Unauthenticated.infrastructure_error
    /\ ~EvidenceProvesNoInvocation(Unauthenticated.evidence)
    /\ \A r \in InfrastructureReports :
           /\ r \in Results /\ r.infrastructure_error
           /\ ~EvidenceProvesNoInvocation(r.evidence)
    /\ \A how, processStates : \A r \in RunReports(how, processStates) :
           /\ r \in Results /\ ~r.infrastructure_error /\ r.exit = how
           /\ EvidenceProvesNoInvocation(r.evidence) => ~acted
<1>1. /\ Unauthenticated \in Results
      /\ ~Unauthenticated.infrastructure_error
      /\ ~EvidenceProvesNoInvocation(Unauthenticated.evidence)
    BY UnsupportedEvidenceFacts DEF Unauthenticated, Results
<1>2. ASSUME NEW r \in InfrastructureReports
      PROVE  /\ r \in Results /\ r.infrastructure_error
             /\ ~EvidenceProvesNoInvocation(r.evidence)
    <2>1. PICK no_route \in BOOLEAN :
              r = [infrastructure_error |-> TRUE, exit |-> "error", no_route |-> no_route,
                   evidence |-> UnsupportedEvidence]
        BY <1>2 DEF InfrastructureReports
    <2> QED
        BY <2>1, UnsupportedEvidenceFacts DEF Results
<1>3. \A how, processStates : \A r \in RunReports(how, processStates) :
           /\ r \in Results /\ ~r.infrastructure_error /\ r.exit = how
           /\ EvidenceProvesNoInvocation(r.evidence) => ~acted
    BY DEF RunReports, ProductReports
<1> QED
    BY <1>1, <1>2, <1>3

---------------------------------------------------------------------------
(* Control: where each process can be while another one is somewhere.       *)

TempsAt ==
    IF host \in {"inputs", "done"} THEN {}
    ELSE IF host = "database" THEN {"inputs"}
    ELSE IF host \in {"catalog", "read"} THEN Inputs \ {"catalog"}
    ELSE Inputs

ControlInv ==
    /\ temps = TempsAt
    /\ outcome = "pending" <=> host # "done"
    /\ outcome # "returned" => reply = <<>>
    /\ client = "running" => host = "waiting"
    /\ host \in {"inputs", "database", "catalog", "command", "launch"} =>
           client = "none" /\ container = "none"
    /\ host \in {"launch", "waiting", "read"} \/ container # "none" => ~Refused
    /\ result # <<>> => container \in {"emit", "report", "exited", "dead"}
    /\ container \in {"emit", "report"} => result # <<>>
    /\ stdout = "whole" => container = "exited" /\ result # <<>>
    /\ outcome = "returned" => stdout = "whole" /\ reply # <<>> /\ reply[1].result = result[1]
    /\ product = "alive" => container = "run"
    /\ product # "none" => container \in {"run", "emit", "report", "exited", "dead"}
    /\ container \in {"none", "main", "reasoning", "run"} => server \in {"none", "gone"}
    /\ container = "preflight" /\ ~request.plugin => server \in {"none", "gone"}
    /\ container = "run" => product # "none" /\ (product = "gone" => ended # "none")
    /\ product = "none" => ended = "none"
    /\ OneOpenCodeAtATime

(* Truth: what the result in hand says of the run.                          *)
TruthInv ==
    /\ container \in {"stopping", "reasoning", "run"} /\ request.plugin => verified
    /\ result # <<>> /\ EvidenceProvesNoInvocation(result[1].evidence) => ~acted
    /\ result # <<>> /\ ~result[1].infrastructure_error => TellsTheRun(result[1])

Inv == TypeOK /\ ControlInv /\ TruthInv

---------------------------------------------------------------------------
(* Type correctness.                                                        *)

(* The types in three parts: the host's, the processes' and the objects'.   *)
HostType ==
    /\ host \in HostStages
    /\ temps \subseteq {"inputs", "database", "catalog"}
    /\ client \in {"none", "running", "killed", "returned"}
    /\ clientExit \in {"none", "zero", "one", "two", "other"}
    /\ outcome \in {"pending", "returned"} \cup Exceptions
    /\ reply \in Seq(Replies) /\ Len(reply) <= 1

RunType ==
    /\ server \in {"none", "alive", "killed", "gone"}
    /\ verified \in BOOLEAN
    /\ product \in {"none", "alive", "gone"}
    /\ ended \in {"none", "zero", "error", "timeout"}
    /\ acted \in BOOLEAN

ObjectType ==
    /\ request \in AllRequests
    /\ container \in ContainerStages
    /\ result \in Seq(Results) /\ Len(result) <= 1
    /\ stdout \in {"empty", "torn", "whole"}

LEMMA TypeParts ==
    /\ TypeOK <=> HostType /\ RunType /\ ObjectType
    /\ TypeOK' <=> HostType' /\ RunType' /\ ObjectType'
BY DEF TypeOK, HostType, RunType, ObjectType

(* Steps that leave a part alone leave its type.                            *)
LEMMA SameParts ==
    /\ HostType /\ UNCHANGED hostVars => HostType'
    /\ RunType /\ UNCHANGED runVars => RunType'
    /\ ObjectType /\ UNCHANGED <<request, container, result, stdout>> => ObjectType'
BY DEF HostType, RunType, ObjectType, hostVars, runVars

LEMMA TypeInit == Init => TypeOK
<1> SUFFICES ASSUME Init PROVE TypeOK
    OBVIOUS
<1>1. <<>> \in Seq(Results) /\ <<>> \in Seq(Replies) /\ Len(<<>>) = 0
    OBVIOUS
<1>2. HostType
    BY <1>1 DEF Init, HostType, HostStages
<1>3. RunType
    BY DEF Init, RunType
<1>4. ObjectType
    BY <1>1, RequestsAssumption DEF Init, ObjectType, ContainerStages
<1> QED
    BY <1>2, <1>3, <1>4, TypeParts

(* One object is a sequence of objects.                                     *)
LEMMA One ==
    ASSUME NEW S, NEW r \in S
    PROVE  <<r>> \in Seq(S) /\ Len(<<r>>) = 1 /\ <<r>>[1] = r /\ <<r>> # <<>>
OBVIOUS

(* An exception of the entry point leaves a report of the contract.         *)
LEMMA FailsFacts ==
    ASSUME NEW step, Fails(step)
    PROVE  /\ container = step /\ container' = "report"
           /\ result' \in Seq(Results) /\ Len(result') = 1 /\ result' # <<>>
           /\ result'[1].infrastructure_error
           /\ ~EvidenceProvesNoInvocation(result'[1].evidence)
           /\ UNCHANGED <<request, hostVars, stdout>>
<1>1. PICK r \in InfrastructureReports : result' = <<r>>
    BY DEF Fails
<1>2. /\ r \in Results /\ r.infrastructure_error /\ ~EvidenceProvesNoInvocation(r.evidence)
    BY ReportFacts
<1> QED
    BY <1>1, <1>2, One DEF Fails, ContainerGoesOn

(* Whatever the reply of the host is, it is one Replies allows.             *)
LEMMA ReadResultReplies ==
    ASSUME Inv, stdout = "whole"
    PROVE  [result |-> result[1], hostOk |-> HostOk, acted |-> acted] \in Replies
<1>1. result # <<>> /\ result \in Seq(Results)
    BY DEF Inv, ControlInv, TypeOK
<1>2. result[1] \in Results
    BY <1>1
<1>3. EvidenceProvesNoInvocation(result[1].evidence) => ~acted
    BY <1>1 DEF Inv, TruthInv
<1>4. HostOk \in BOOLEAN /\ acted \in BOOLEAN
    BY DEF Inv, TypeOK, HostOk
<1> QED
    BY <1>2, <1>3, <1>4 DEF Replies

(* An exception of the host.                                                *)
LEMMA RaiseType ==
    ASSUME NEW how \in {"escaped", "RunnerError", "OSError", "TimeoutExpired", "RunnerErrorOnResult"},
           Raise(how)
    PROVE  /\ host' \in HostStages
           /\ temps' \subseteq {"inputs", "database", "catalog"}
           /\ outcome' \in {"pending", "returned"} \cup Exceptions
           /\ reply' \in Seq(Replies) /\ Len(reply') <= 1
BY DEF Raise, Leave, HostStages, RaisedCode, Exceptions

LEMMA HostTypeStep ==
    ASSUME Inv, HostStep \/ OuterTimeout
    PROVE  HostType'
<1>1. HostType
    BY TypeParts DEF Inv
<1>2. ASSUME NEW how \in {"escaped", "RunnerError", "OSError", "TimeoutExpired", "RunnerErrorOnResult"},
             Raise(how),
             client' \in {"none", "running", "killed", "returned"},
             clientExit' = clientExit
      PROVE  HostType'
    BY <1>1, <1>2, RaiseType DEF HostType
<1>3. ASSUME NEW next \in HostStages, HostGoesOn(next),
             temps' \subseteq {"inputs", "database", "catalog"}
      PROVE  HostType'
    BY <1>1, <1>3 DEF HostType, HostGoesOn
<1>4. CASE PrepareInputs
    <2>1. CASE HostGoesOn("database") /\ temps' = temps \cup {"inputs"}
        BY <1>1, <1>3, <2>1 DEF HostType, HostStages
    <2>2. CASE (\E exc \in Trouble : Raise(exc)) /\ UNCHANGED <<client, clientExit>>
        BY <1>1, <1>2, <2>2 DEF HostType, Trouble
    <2> QED
        BY <1>4, <2>1, <2>2 DEF PrepareInputs
<1>5. CASE SanitizeDatabaseSeed
    <2>1. CASE HostGoesOn("catalog") /\ temps' = temps \cup (IF request.database THEN {"database"} ELSE {})
        BY <1>1, <1>3, <2>1 DEF HostType, HostStages
    <2>2. CASE (\E exc \in Trouble : Raise(exc)) /\ UNCHANGED <<client, clientExit>>
        BY <1>1, <1>2, <2>2 DEF HostType, Trouble
    <2> QED
        BY <1>5, <2>1, <2>2 DEF SanitizeDatabaseSeed
<1>6. CASE PinCatalog
    <2>1. CASE HostGoesOn("command") /\ temps' = temps \cup (IF Opencode THEN {"catalog"} ELSE {})
        BY <1>1, <1>3, <2>1 DEF HostType, HostStages
    <2>2. CASE (\E exc \in {"RunnerError", "escaped"} : Raise(exc)) /\ UNCHANGED <<client, clientExit>>
        BY <1>1, <1>2, <2>2 DEF HostType
    <2> QED
        BY <1>6, <2>1, <2>2 DEF PinCatalog
<1>7. CASE BuildContainerCommand
    <2>1. CASE HostGoesOn("launch") /\ UNCHANGED temps
        BY <1>1, <1>3, <2>1 DEF HostType, HostStages
    <2>2. CASE (\E exc \in Trouble : Raise(exc)) /\ UNCHANGED <<client, clientExit>>
        BY <1>1, <1>2, <2>2 DEF HostType, Trouble
    <2> QED
        BY <1>7, <2>1, <2>2 DEF BuildContainerCommand
<1>8. CASE StartClient
    <2>1. CASE host' = "waiting" /\ client' = "running" /\ UNCHANGED <<temps, outcome, reply, clientExit>>
        BY <1>1, <2>1 DEF HostType, HostStages
    <2>2. CASE Raise("OSError") /\ UNCHANGED <<client, clientExit>>
        BY <1>1, <1>2, <2>2 DEF HostType
    <2> QED
        BY <1>8, <2>1, <2>2 DEF StartClient
<1>9. CASE CollectOutput
    BY <1>1, <1>9 DEF CollectOutput, HostType, HostStages
<1>10. CASE ReadResult
    <2>1. UNCHANGED <<client, clientExit>>
        BY <1>10 DEF ReadResult
    <2>2. CASE /\ stdout = "whole"
               /\ Leave("returned", <<[result |-> result[1], hostOk |-> HostOk, acted |-> acted]>>)
        <3>1. reply' \in Seq(Replies) /\ Len(reply') = 1
            BY <2>2, ReadResultReplies, One DEF Leave
        <3> QED
            BY <1>1, <2>1, <2>2, <3>1 DEF Leave, HostType, HostStages
    <2>3. CASE Raise("RunnerErrorOnResult") \/ Raise("OSError")
        BY <1>1, <1>2, <2>1, <2>3 DEF HostType
    <2> QED
        BY <1>10, <2>2, <2>3 DEF ReadResult
<1>11. CASE OuterTimeout
    BY <1>1, <1>2, <1>11 DEF OuterTimeout, HostType
<1> QED
    BY <1>4, <1>5, <1>6, <1>7, <1>8, <1>9, <1>10, <1>11 DEF HostStep

(* The host leaves the container alone, and the container the host.         *)
LEMMA Apart ==
    /\ HostStep \/ OuterTimeout => UNCHANGED <<request, container, runVars, result, stdout>>
    /\ EntryPointStep => UNCHANGED <<request, hostVars>>
<1>1. ASSUME HostStep \/ OuterTimeout PROVE ContainerUntouched
    BY <1>1 DEF HostStep, PrepareInputs, SanitizeDatabaseSeed, PinCatalog, BuildContainerCommand, StartClient,
                CollectOutput, ReadResult, OuterTimeout
<1>2. \A step : ContainerGoesOn(step) \/ Fails(step) => UNCHANGED <<request, hostVars>>
    BY DEF ContainerGoesOn, Fails
<1>3. PreflightStep => UNCHANGED <<request, hostVars>>
    BY <1>2 DEF PreflightStep, SkipPreflight, StartPreflightServer, ServerIsReady, ServerIsNotReady,
                PluginIsActive, RequestFails, StopPreflightServer, ServerCannotBeStopped, AbandonPreflight
<1>4. EntryPointStep => UNCHANGED <<request, hostVars>>
    BY <1>2, <1>3 DEF EntryPointStep, PrepareEnvironment, StartProduct, Act, ProductEnds, RunReturns,
                      InnerTimeout, StepRaises, Emit, ReportRaises
<1> QED
    BY <1>1, <1>4 DEF ContainerUntouched

LEMMA EngineType ==
    ASSUME Inv, EngineStep
    PROVE  HostType' /\ RunType' /\ ObjectType'
<1>1. HostType /\ RunType /\ ObjectType
    BY TypeParts DEF Inv
<1>2. CASE ContainerStarts
    <2>1. ObjectType'
        BY <1>1, <1>2 DEF ContainerStarts, ObjectType, ContainerStages
    <2> QED
        BY <1>1, <1>2, <2>1, SameParts DEF ContainerStarts
<1>3. CASE ClientReturns \/ ClientDies
    <2>1. HostType'
        BY <1>1, <1>3 DEF ClientReturns, ClientDies, HostType
    <2> QED
        BY <1>1, <1>3, <2>1, SameParts DEF ClientReturns, ClientDies
<1>4. CASE ContainerDies
    <2>1. RunType'
        BY <1>1, <1>4 DEF ContainerDies, RunType, EndsWithContainer
    <2>2. ObjectType'
        BY <1>1, <1>4 DEF ContainerDies, ObjectType, ContainerStages
    <2> QED
        BY <1>1, <1>4, <2>1, <2>2, SameParts DEF ContainerDies
<1> QED
    BY <1>2, <1>3, <1>4 DEF EngineStep

LEMMA EntryPointType ==
    ASSUME Inv, EntryPointStep
    PROVE  RunType' /\ ObjectType'
<1>1. RunType /\ ObjectType
    BY TypeParts DEF Inv
<1>2. ASSUME NEW step, Fails(step) PROVE ObjectType'
    <2>1. /\ container' = "report" /\ UNCHANGED <<request, stdout>>
          /\ result' \in Seq(Results) /\ Len(result') = 1
        BY <1>2, FailsFacts
    <2> QED
        BY <1>1, <2>1 DEF ObjectType, ContainerStages
<1>3. ASSUME NEW next \in ContainerStages, ContainerGoesOn(next), result' = result PROVE ObjectType'
    BY <1>1, <1>3 DEF ContainerGoesOn, ObjectType
<1>4. ASSUME NEW r \in Results, ContainerGoesOn("emit"), result' = <<r>> PROVE ObjectType'
    <2>1. result' \in Seq(Results) /\ Len(result') = 1
        BY <1>4, One
    <2> QED
        BY <1>1, <1>4, <2>1 DEF ContainerGoesOn, ObjectType, ContainerStages
<1>5. CASE PrepareEnvironment
    <2>1. ObjectType'
        BY <1>3, <1>4, <1>5, ReportFacts DEF PrepareEnvironment, ContainerStages
    <2> QED
        BY <1>1, <1>5, <2>1, SameParts DEF PrepareEnvironment, NothingRuns
<1>6. CASE SkipPreflight \/ ServerIsReady \/ RequestFails
    <2>1. ObjectType'
        BY <1>3, <1>6 DEF SkipPreflight, ServerIsReady, RequestFails, ContainerStages
    <2> QED
        BY <1>1, <1>6, <2>1, SameParts DEF SkipPreflight, ServerIsReady, RequestFails, NothingRuns
<1>7. CASE StartPreflightServer
    <2>1. RunType'
        BY <1>1, <1>7 DEF StartPreflightServer, RunType
    <2> QED
        BY <1>1, <1>7, <2>1, SameParts DEF StartPreflightServer
<1>8. CASE ServerIsNotReady \/ ServerCannotBeStopped \/ AbandonPreflight
    <2>1. RunType'
        BY <1>1, <1>8 DEF ServerIsNotReady, ServerCannotBeStopped, AbandonPreflight, RunType
    <2> QED
        BY <1>2, <1>8, <2>1 DEF ServerIsNotReady, ServerCannotBeStopped, AbandonPreflight
<1>9. CASE PluginIsActive \/ StopPreflightServer \/ StartProduct
    <2>1. RunType'
        BY <1>1, <1>9 DEF PluginIsActive, StopPreflightServer, StartProduct, RunType
    <2>2. ObjectType'
        BY <1>3, <1>9 DEF PluginIsActive, StopPreflightServer, StartProduct, ContainerStages
    <2> QED
        BY <2>1, <2>2
<1>10. CASE Act \/ ProductEnds
    <2>1. RunType'
        BY <1>1, <1>10 DEF Act, ProductEnds, RunType
    <2> QED
        BY <1>1, <1>10, <2>1, SameParts DEF Act, ProductEnds
<1>11. CASE RunReturns
    <2>1. ObjectType'
        BY <1>4, <1>11, ReportFacts DEF RunReturns
    <2> QED
        BY <1>1, <1>11, <2>1, SameParts DEF RunReturns, NothingRuns
<1>12. CASE InnerTimeout
    <2>1. RunType'
        BY <1>1, <1>12 DEF InnerTimeout, RunType
    <2>2. ObjectType'
        BY <1>2, <1>4, <1>12, ReportFacts DEF InnerTimeout
    <2> QED
        BY <2>1, <2>2
<1>13. CASE StepRaises
    <2>1. \E step \in ContainerStages : Fails(step)
        BY <1>13 DEF StepRaises, ContainerStages
    <2> QED
        BY <1>1, <1>2, <1>13, <2>1, SameParts DEF StepRaises, NothingRuns
<1>14. CASE Emit \/ ReportRaises
    <2>1. RunType'
        BY <1>1, <1>14 DEF Emit, ReportRaises, RunType, EndsWithContainer
    <2>2. ObjectType'
        BY <1>1, <1>14 DEF Emit, ReportRaises, ObjectType, ContainerStages
    <2> QED
        BY <2>1, <2>2
<1> QED
    BY <1>5, <1>6, <1>7, <1>8, <1>9, <1>10, <1>11, <1>12, <1>13, <1>14 DEF EntryPointStep, PreflightStep

LEMMA TypeStep == Inv /\ [Next]_vars => TypeOK'
<1> SUFFICES ASSUME Inv, [Next]_vars PROVE TypeOK'
    OBVIOUS
<1>1. HostType /\ RunType /\ ObjectType
    BY TypeParts DEF Inv
<1>2. CASE HostStep \/ OuterTimeout
    BY <1>1, <1>2, HostTypeStep, Apart, SameParts, TypeParts
<1>3. CASE EngineStep
    BY <1>3, EngineType, TypeParts
<1>4. CASE EntryPointStep
    BY <1>1, <1>4, EntryPointType, Apart, SameParts, TypeParts
<1>5. CASE UNCHANGED vars
    BY <1>1, <1>5, SameParts, TypeParts DEF vars
<1> QED
    BY <1>2, <1>3, <1>4, <1>5 DEF Next, Finished

---------------------------------------------------------------------------
(* The control invariant, preserved step by step.                           *)

LEMMA ControlInit == Init => ControlInv
BY DEF Init, ControlInv, TempsAt, OneOpenCodeAtATime

LEMMA HostControl ==
    ASSUME Inv, HostStep \/ OuterTimeout
    PROVE  ControlInv'
<1>1. ControlInv /\ UNCHANGED <<request, container, server, verified, product, ended, acted, result, stdout>>
    BY Apart DEF Inv, runVars
<1>2. HostStages = {"inputs", "database", "catalog", "command", "launch", "waiting", "read", "done"} /\ host \in HostStages
    BY DEF HostStages, Inv, TypeOK
<1>3. ASSUME NEW how \in {"escaped", "RunnerError", "OSError", "TimeoutExpired", "RunnerErrorOnResult"},
             Raise(how), host # "done", client' # "running"
      PROVE  ControlInv'
    BY <1>1, <1>3 DEF ControlInv, Raise, Leave, TempsAt, OneOpenCodeAtATime, Refused, Opencode
<1>4. CASE PrepareInputs
    BY <1>1, <1>3, <1>4 DEF PrepareInputs, HostGoesOn, ControlInv, TempsAt, Trouble,
                            OneOpenCodeAtATime, Refused, Opencode, Inputs
<1>5. CASE SanitizeDatabaseSeed
    BY <1>1, <1>3, <1>5 DEF SanitizeDatabaseSeed, HostGoesOn, ControlInv, TempsAt, Trouble,
                            OneOpenCodeAtATime, Refused, Opencode, Inputs
<1>6. CASE PinCatalog
    BY <1>1, <1>3, <1>6 DEF PinCatalog, HostGoesOn, ControlInv, TempsAt,
                            OneOpenCodeAtATime, Refused, Opencode, Inputs
<1>7. CASE BuildContainerCommand
    BY <1>1, <1>3, <1>7 DEF BuildContainerCommand, HostGoesOn, ControlInv, TempsAt, Trouble,
                            OneOpenCodeAtATime, Refused, Opencode, Inputs
<1>8. CASE StartClient
    BY <1>1, <1>3, <1>8 DEF StartClient, ControlInv, TempsAt, OneOpenCodeAtATime, Refused, Opencode, Inputs
<1>9. CASE CollectOutput
    BY <1>1, <1>9 DEF CollectOutput, ControlInv, TempsAt, OneOpenCodeAtATime, Refused, Opencode, Inputs
<1>10. CASE ReadResult
    <2>1. host = "read" /\ client' = client /\ client # "running"
        BY <1>1, <1>10 DEF ReadResult, ControlInv
    <2>2. CASE /\ stdout = "whole"
               /\ Leave("returned", <<[result |-> result[1], hostOk |-> HostOk, acted |-> acted]>>)
        <3>1. reply' # <<>> /\ reply'[1].result = result[1]
            BY <2>2 DEF Leave
        <3> QED
            BY <1>1, <2>1, <2>2, <3>1 DEF Leave, ControlInv, TempsAt, OneOpenCodeAtATime, Refused, Opencode
    <2>3. CASE Raise("RunnerErrorOnResult") \/ Raise("OSError")
        BY <1>3, <2>1, <2>3
    <2> QED
        BY <1>10, <2>2, <2>3 DEF ReadResult
<1>11. CASE OuterTimeout
    BY <1>1, <1>3, <1>11 DEF OuterTimeout
<1> QED
    BY <1>4, <1>5, <1>6, <1>7, <1>8, <1>9, <1>10, <1>11 DEF HostStep

LEMMA EngineControl ==
    ASSUME Inv, EngineStep
    PROVE  ControlInv'
<1>1. ControlInv /\ TypeOK
    BY DEF Inv
<1>2. CASE ContainerStarts
    BY <1>1, <1>2 DEF ContainerStarts, ControlInv, TempsAt, OneOpenCodeAtATime, Refused, Opencode, Inputs,
                      hostVars, runVars
<1>3. CASE ClientReturns \/ ClientDies
    BY <1>1, <1>3 DEF ClientReturns, ClientDies, ControlInv, TempsAt, OneOpenCodeAtATime, Refused, Opencode,
                      Inputs, runVars
<1>4. CASE ContainerDies
    <2>1. container \in Inside /\ container' = "dead" /\ container # "exited"
        BY <1>4 DEF ContainerDies, Inside
    <2>2. /\ product' # "alive" /\ (product' = "none" <=> product = "none")
          /\ server \in {"none", "gone"} => server' = server
        BY <1>1, <1>4 DEF ContainerDies, EndsWithContainer, TypeOK
    <2>3. stdout # "whole" /\ stdout' # "whole"
        BY <1>1, <1>4, <2>1 DEF ContainerDies, ControlInv
    <2>4. container # "none"
        BY <2>1 DEF Inside
    <2> QED
        BY <1>1, <1>4, <2>1, <2>2, <2>3, <2>4 DEF ContainerDies, ControlInv, TempsAt, OneOpenCodeAtATime,
           Refused, Opencode, Inputs, hostVars
<1> QED
    BY <1>2, <1>3, <1>4 DEF EngineStep

LEMMA EntryPointControl ==
    ASSUME Inv, EntryPointStep
    PROVE  ControlInv'
<1>1. ControlInv /\ TypeOK /\ UNCHANGED <<request, host, temps, client, clientExit, outcome, reply>>
    BY Apart DEF Inv, hostVars
<1>2. container \in Inside => stdout # "whole" /\ outcome # "returned" /\ container # "none"
    BY <1>1 DEF ControlInv, Inside
<1>3. TempsAt' = TempsAt /\ (Refused' <=> Refused)
    BY <1>1 DEF TempsAt, Inputs, Refused, Opencode
<1>4. ASSUME NEW step, Fails(step), step \in Inside, UNCHANGED product, UNCHANGED ended,
             product # "alive", step = "run" => product = "gone",
             product # "none" => server' = server
      PROVE  ControlInv'
    <2>1. /\ container = step /\ container' = "report" /\ result' # <<>> /\ stdout' = stdout
        BY <1>4, FailsFacts
    <2> QED
        BY <1>1, <1>2, <1>3, <1>4, <2>1 DEF ControlInv, OneOpenCodeAtATime
<1>5. ASSUME NEW step \in Inside, container \in Inside, container' = step, UNCHANGED <<result, stdout, product, ended>>,
             container \in {"main", "preflight", "requests", "stopping"},
             step \in {"preflight", "requests", "stopping", "abandoning", "reasoning"},
             step = "reasoning" => server' \in {"none", "gone"},
             step = "preflight" => server' = server /\ container = "main"
      PROVE  ControlInv'
    <2>1. product = "none" /\ result = <<>>
        BY <1>1, <1>5 DEF ControlInv, TypeOK
    <2> QED
        BY <1>1, <1>2, <1>3, <1>5, <2>1 DEF ControlInv, OneOpenCodeAtATime
<1>6. ASSUME NEW r, container \in {"main", "run"}, container' = "emit", result' = <<r>>, UNCHANGED stdout,
             product' = product \/ product' = "gone",
             product' # "alive", product' = "none" => product = "none" /\ ended' = ended,
             container = "run" \/ product' = product,
             UNCHANGED server
      PROVE  ControlInv'
    <2>1. result' # <<>>
        BY <1>6
    <2>2. container \in Inside
        BY <1>6 DEF Inside, ContainerStages
    <2> QED
        BY <1>1, <1>2, <1>3, <1>6, <2>1, <2>2 DEF ControlInv, OneOpenCodeAtATime
<1>7. CASE PrepareEnvironment
    BY <1>1, <1>5, <1>6, <1>7 DEF PrepareEnvironment, ContainerGoesOn, NothingRuns, runVars, Inside,
       ContainerStages, ControlInv
<1>8. CASE SkipPreflight
    <2>1. server \in {"none", "gone"}
        BY <1>1, <1>8 DEF SkipPreflight, ControlInv
    <2> QED
        BY <1>1, <1>5, <1>8, <2>1 DEF SkipPreflight, ContainerGoesOn, NothingRuns, runVars, Inside, ContainerStages
<1>9. CASE ServerIsReady \/ PluginIsActive \/ RequestFails \/ StopPreflightServer
    BY <1>1, <1>5, <1>9 DEF ServerIsReady, PluginIsActive, RequestFails, StopPreflightServer, ContainerGoesOn,
       NothingRuns, runVars, Inside, ContainerStages
<1>10. CASE StartPreflightServer
    BY <1>1, <1>3, <1>10 DEF StartPreflightServer, ControlInv, OneOpenCodeAtATime
<1>11. CASE ServerIsNotReady \/ ServerCannotBeStopped \/ AbandonPreflight
    BY <1>1, <1>4, <1>11 DEF ServerIsNotReady, ServerCannotBeStopped, AbandonPreflight, Fails, Inside,
       ContainerStages, ControlInv
<1>12. CASE StartProduct
    BY <1>1, <1>2, <1>3, <1>12 DEF StartProduct, ContainerGoesOn, ControlInv, OneOpenCodeAtATime, TypeOK
<1>13. CASE Act \/ ProductEnds
    BY <1>1, <1>3, <1>13 DEF Act, ProductEnds, ControlInv, OneOpenCodeAtATime
<1>14. CASE RunReturns
    BY <1>1, <1>6, <1>14 DEF RunReturns, ContainerGoesOn, NothingRuns, runVars
<1>15. CASE InnerTimeout
    <2>1. container = "run" /\ product' = "gone" /\ server' = server /\ ended' # "none"
        BY <1>1, <1>15 DEF InnerTimeout, ControlInv, TypeOK
    <2>2. CASE Opencode
        BY <1>6, <1>15, <2>1, <2>2 DEF InnerTimeout, ContainerGoesOn
    <2>3. CASE ~Opencode
        <3>1. Fails("run")
            BY <1>15, <2>3 DEF InnerTimeout
        <3>2. container' = "report" /\ result' # <<>> /\ stdout' = stdout
            BY <3>1, FailsFacts
        <3>3. container \in Inside /\ server \in {"none", "gone"}
            BY <1>1, <2>1 DEF Inside, ContainerStages, ControlInv
        <3> QED
            BY <1>1, <1>2, <1>3, <2>1, <3>2, <3>3 DEF ControlInv, OneOpenCodeAtATime
    <2> QED
        BY <2>2, <2>3
<1>16. CASE StepRaises
    <2>1. UNCHANGED <<server, product, ended>>
        BY <1>16 DEF StepRaises, NothingRuns, runVars
    <2>2. PICK step \in {"main", "preflight", "reasoning", "run", "emit"} :
              Fails(step) /\ (step = "run" => product = "gone")
        BY <1>16 DEF StepRaises
    <2>3. container = step
        BY <2>2 DEF Fails
    <2>4. product # "alive" /\ step \in Inside
        BY <1>1, <2>2, <2>3 DEF ControlInv, Inside, ContainerStages
    <2> QED
        BY <1>4, <2>1, <2>2, <2>4
<1>17. CASE Emit \/ ReportRaises
    <2>1. container \in Inside /\ container \in {"emit", "report"} /\ container' = "exited" /\ result # <<>>
        BY <1>1, <1>17 DEF Emit, ReportRaises, ControlInv, Inside, ContainerStages
    <2>2. /\ UNCHANGED <<product, ended, result>>
          /\ server \in {"none", "gone"} => server' = server
        BY <1>17 DEF Emit, ReportRaises, EndsWithContainer
    <2> QED
        BY <1>1, <1>2, <1>3, <2>1, <2>2 DEF ControlInv, OneOpenCodeAtATime
<1> QED
    BY <1>7, <1>8, <1>9, <1>10, <1>11, <1>12, <1>13, <1>14, <1>15, <1>16, <1>17 DEF EntryPointStep, PreflightStep

---------------------------------------------------------------------------
(* The truth of the result in hand.  It is written from how the product     *)
(* ended and from what the preflight saw, and neither changes afterwards.   *)

LEMMA TruthKept ==
    ASSUME TruthInv, UNCHANGED <<request, result, verified, ended, acted>>,
           container' = container \/ container' \notin {"stopping", "reasoning", "run"}
    PROVE  TruthInv'
BY DEF TruthInv, TellsTheRun, Opencode

LEMMA TruthStep == Inv /\ [Next]_vars => TruthInv'
<1> SUFFICES ASSUME Inv, [Next]_vars PROVE TruthInv'
    OBVIOUS
<1>1. TruthInv /\ ControlInv /\ TypeOK
    BY DEF Inv
<1>2. CASE HostStep \/ OuterTimeout
    BY <1>1, <1>2, Apart, TruthKept DEF runVars
<1>3. CASE EngineStep
    BY <1>1, <1>3, TruthKept DEF EngineStep, ContainerStarts, ClientReturns, ClientDies, ContainerDies, runVars
<1>4. ASSUME NEW step, Fails(step), UNCHANGED acted PROVE TruthInv'
    BY <1>4, FailsFacts DEF TruthInv
<1>5. CASE PrepareEnvironment
    <2>1. UNCHANGED <<request, verified, ended, acted>>
        BY <1>5, Apart DEF PrepareEnvironment, NothingRuns, runVars, EntryPointStep
    <2>2. CASE Opencode /\ ContainerGoesOn("preflight") /\ UNCHANGED result
        BY <1>1, <2>1, <2>2, TruthKept DEF ContainerGoesOn
    <2>3. ~Refused /\ product = "none" /\ ended = "none"
        BY <1>1, <1>5 DEF PrepareEnvironment, ControlInv, TypeOK
    <2>4. CASE ~Opencode /\ request.auth /\ ContainerGoesOn("reasoning") /\ UNCHANGED result
        BY <1>1, <2>1, <2>3, <2>4 DEF ContainerGoesOn, TruthInv, TellsTheRun, Refused, Opencode
    <2>5. CASE ~Opencode /\ ~request.auth /\ ContainerGoesOn("emit") /\ result' = <<Unauthenticated>>
        <3>1. result'[1] = Unauthenticated /\ ~EvidenceProvesNoInvocation(Unauthenticated.evidence)
            BY <2>5, ReportFacts
        <3>2. TellsTheRun(Unauthenticated)'
            BY <2>1, <2>3, <2>5 DEF TellsTheRun, Refused, Opencode
        <3> QED
            BY <2>5, <3>1, <3>2 DEF ContainerGoesOn, TruthInv
    <2> QED
        BY <1>5, <2>2, <2>4, <2>5 DEF PrepareEnvironment
<1>6. CASE PreflightStep
    <2>1. UNCHANGED request
        BY <1>6, Apart DEF EntryPointStep
    <2>2. CASE SkipPreflight
        BY <1>1, <2>1, <2>2 DEF SkipPreflight, ContainerGoesOn, NothingRuns, runVars, TruthInv, TellsTheRun, Opencode
    <2>3. CASE StartPreflightServer \/ ServerIsReady \/ RequestFails
        BY <1>1, <2>1, <2>3, TruthKept DEF StartPreflightServer, ServerIsReady, RequestFails, ContainerGoesOn,
           NothingRuns, runVars
    <2>4. CASE PluginIsActive
        <3>1. result = <<>>
            BY <1>1, <2>4 DEF PluginIsActive, ControlInv
        <3> QED
            BY <1>1, <2>4, <3>1 DEF PluginIsActive, ContainerGoesOn, TruthInv
    <2>5. CASE StopPreflightServer
        BY <1>1, <2>1, <2>5 DEF StopPreflightServer, ContainerGoesOn, TruthInv, TellsTheRun, Opencode
    <2>6. CASE ServerIsNotReady \/ ServerCannotBeStopped \/ AbandonPreflight
        BY <1>4, <2>6 DEF ServerIsNotReady, ServerCannotBeStopped, AbandonPreflight
    <2> QED
        BY <1>6, <2>2, <2>3, <2>4, <2>5, <2>6 DEF PreflightStep
<1>7. CASE StartProduct
    <2>1. result = <<>> /\ UNCHANGED <<request, result, verified, ended, acted>>
        BY <1>1, <1>7 DEF StartProduct, ContainerGoesOn, ControlInv
    <2> QED
        BY <1>1, <1>7, <2>1 DEF StartProduct, ContainerGoesOn, TruthInv
<1>8. CASE Act \/ ProductEnds
    <2>1. result = <<>> /\ UNCHANGED <<request, container, result, verified>>
        BY <1>1, <1>8 DEF Act, ProductEnds, ControlInv
    <2> QED
        BY <1>1, <2>1 DEF TruthInv
<1>9. ASSUME NEW how \in {"zero", "error", "timeout"}, NEW processStates, NEW r \in RunReports(how, processStates),
             container = "run", container' = "emit", result' = <<r>>,
             UNCHANGED <<request, verified, acted>>,
             (how = "timeout" /\ ended' # "none") \/ ended' = how
      PROVE  TruthInv'
    <2>1. /\ ~r.infrastructure_error /\ r.exit = how
          /\ EvidenceProvesNoInvocation(r.evidence) => ~acted
        BY <1>9, ReportFacts
    <2>2. request.plugin => verified
        BY <1>1, <1>9 DEF TruthInv
    <2>3. TellsTheRun(r)'
        BY <1>9, <2>1, <2>2 DEF TellsTheRun
    <2>4. result'[1] = r
        BY <1>9
    <2> QED
        BY <1>9, <2>1, <2>3, <2>4 DEF TruthInv
<1>10. CASE RunReturns
    <2>1. /\ container = "run" /\ product = "gone" /\ container' = "emit"
          /\ UNCHANGED <<request, verified, acted, ended>>
        BY <1>10 DEF RunReturns, ContainerGoesOn, NothingRuns, runVars
    <2>2. ended \in {"zero", "error", "timeout"}
        BY <1>1, <2>1 DEF ControlInv, TypeOK
    <2> QED
        BY <1>9, <1>10, <2>1, <2>2 DEF RunReturns
<1>11. CASE InnerTimeout
    <2>1. container = "run" /\ UNCHANGED <<verified, acted>> /\ ended' # "none"
        BY <1>1, <1>11 DEF InnerTimeout, ControlInv, TypeOK
    <2>2. CASE Opencode
        BY <1>9, <1>11, <2>1, <2>2 DEF InnerTimeout, ContainerGoesOn
    <2> QED
        BY <1>4, <1>11, <2>1, <2>2 DEF InnerTimeout
<1>12. CASE StepRaises
    BY <1>4, <1>12 DEF StepRaises, NothingRuns, runVars
<1>13. CASE Emit \/ ReportRaises
    BY <1>1, <1>13, TruthKept DEF Emit, ReportRaises
<1>14. CASE UNCHANGED vars
    BY <1>1, <1>14, TruthKept DEF vars, runVars
<1> QED
    BY <1>2, <1>3, <1>5, <1>6, <1>7, <1>8, <1>10, <1>11, <1>12, <1>13, <1>14 DEF Next, EntryPointStep, Finished

LEMMA ControlStep == Inv /\ [Next]_vars => ControlInv'
<1> SUFFICES ASSUME Inv, [Next]_vars PROVE ControlInv'
    OBVIOUS
<1>1. CASE UNCHANGED vars
    BY <1>1 DEF vars, hostVars, runVars, Inv, ControlInv, TempsAt, OneOpenCodeAtATime, Refused, Opencode, Inputs
<1> QED
    BY <1>1, HostControl, EngineControl, EntryPointControl DEF Next, Finished

LEMMA Invariant == Spec => []Inv
<1>1. Init => Inv
    BY TypeInit, ControlInit DEF Init, Inv, TruthInv
<1>2. Inv /\ [Next]_vars => Inv'
    BY TypeStep, ControlStep, TruthStep DEF Inv
<1> QED
    BY <1>1, <1>2, PTL DEF Spec

(* The types of the call's state hold in every state of every behaviour.    *)
THEOREM TypeCorrect == Spec => []TypeOK
<1>1. Inv => TypeOK
    BY DEF Inv
<1> QED
    BY <1>1, Invariant, PTL

(* A reply that is no infrastructure error tells how the product ended,     *)
(* with its preflight done, whatever died or was killed.                    *)
THEOREM RepliesTellTheRun == Spec => []ReplyTellsTheRun
<1>1. Inv => ReplyTellsTheRun
    BY DEF Inv, ControlInv, TruthInv, ReplyTellsTheRun
<1> QED
    BY <1>1, Invariant, PTL

(* The product never runs next to the preflight server.                     *)
THEOREM PreflightIsOver == Spec => []OneOpenCodeAtATime
<1>1. Inv => OneOpenCodeAtATime
    BY DEF Inv, ControlInv
<1> QED
    BY <1>1, Invariant, PTL

(* The temporary inputs are there as long as the client runs, and not a     *)
(* step after the call.                                                     *)
THEOREM TemporaryInputsAreTheCalls == Spec => []TemporaryInputsLiveWithTheCall
<1>1. Inv => TemporaryInputsLiveWithTheCall
    BY DEF Inv, ControlInv, TempsAt, TemporaryInputsLiveWithTheCall
<1> QED
    BY <1>1, Invariant, PTL

---------------------------------------------------------------------------
(* Refinement.                                                              *)

(* A step of the host ends the call once, in one of the ways allowed.       *)
LEMMA HostImplements ==
    ASSUME Inv, HostStep \/ OuterTimeout
    PROVE  Call!Return \/ Call!Raise \/ UNCHANGED <<acted, outcome, reply>>
<1>1. acted' = acted
    BY Apart DEF runVars
<1>2. ASSUME NEW how \in {"escaped", "RunnerError", "OSError", "TimeoutExpired", "RunnerErrorOnResult"},
             Raise(how), host # "done"
      PROVE  Call!Raise
    <2>1. outcome = "pending" /\ reply = <<>>
        BY <1>2 DEF Inv, ControlInv
    <2> QED
        BY <1>1, <1>2, <2>1 DEF Raise, Leave, Call!Raise, RaisedCode, Exceptions
<1>3. CASE PrepareInputs \/ SanitizeDatabaseSeed \/ PinCatalog \/ BuildContainerCommand \/ StartClient
    BY <1>1, <1>2, <1>3 DEF PrepareInputs, SanitizeDatabaseSeed, PinCatalog, BuildContainerCommand, StartClient,
                            HostGoesOn, Trouble
<1>4. CASE CollectOutput
    BY <1>1, <1>4 DEF CollectOutput
<1>5. CASE ReadResult
    <2>1. CASE /\ stdout = "whole"
               /\ Leave("returned", <<[result |-> result[1], hostOk |-> HostOk, acted |-> acted]>>)
        <3> DEFINE x == [result |-> result[1], hostOk |-> HostOk, acted |-> acted]
        <3>1. x \in Replies /\ x.acted = acted
            BY <2>1, ReadResultReplies
        <3>2. reply' = <<x>> /\ outcome' = "returned"
            BY <2>1 DEF Leave
        <3>3. outcome = "pending"
            BY <1>5 DEF ReadResult, Inv, ControlInv
        <3> HIDE DEF x
        <3>4. reply'[1] = x
            BY <3>2
        <3> QED
            BY <1>1, <3>1, <3>2, <3>3, <3>4 DEF Call!Return
    <2>2. CASE Raise("RunnerErrorOnResult") \/ Raise("OSError")
        BY <1>2, <1>5, <2>2 DEF ReadResult
    <2> QED
        BY <1>5, <2>1, <2>2 DEF ReadResult
<1>6. CASE OuterTimeout
    BY <1>2, <1>6 DEF OuterTimeout
<1> QED
    BY <1>3, <1>4, <1>5, <1>6 DEF HostStep

(* A step of anything else is the model acting, or nothing the loop sees.   *)
LEMMA RestImplements ==
    ASSUME Inv, EngineStep \/ EntryPointStep
    PROVE  Call!Act \/ UNCHANGED <<acted, outcome, reply>>
<1>1. UNCHANGED <<outcome, reply>>
    BY Apart DEF hostVars, EngineStep, ContainerStarts, ClientReturns, ClientDies, ContainerDies
<1>2. CASE Act
    <2>1. outcome # "returned"
        BY <1>2 DEF Act, Inv, ControlInv
    <2> QED
        BY <1>1, <1>2, <2>1 DEF Act, Call!Act
<1>3. ASSUME ~Act PROVE acted' = acted
    BY <1>3 DEF EngineStep, ContainerStarts, ClientReturns, ClientDies, ContainerDies, EntryPointStep,
                PrepareEnvironment, PreflightStep, SkipPreflight, StartPreflightServer, ServerIsReady,
                ServerIsNotReady, PluginIsActive, RequestFails, StopPreflightServer, ServerCannotBeStopped,
                AbandonPreflight, StartProduct, ProductEnds, RunReturns, InnerTimeout, StepRaises, Emit,
                ReportRaises, NothingRuns, runVars
<1> QED
    BY <1>1, <1>2, <1>3

(* Every call is one invocation as the attempt loop assumes it.             *)
THEOREM ContainerImplementsOneInvocation == Spec => ImplementsOneInvocation
<1>1. Init => Call!Init
    BY DEF Init, Call!Init
<1>2. Inv /\ [Next]_vars => [Call!Act \/ Call!Return \/ Call!Raise]_<<acted, outcome, reply>>
    BY HostImplements, RestImplements DEF Next, Finished, vars, hostVars, runVars
<1> QED
    BY <1>1, <1>2, Invariant, PTL DEF Spec, ImplementsOneInvocation, Call!Spec
=============================================================================
