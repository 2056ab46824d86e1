------------------------- MODULE ArtifactDirectory -------------------------
(***************************************************************************)
(* One artifact directory and the processes that want it                   *)
(* (runner/eval_artifacts.py): the claim by an exclusively created owner   *)
(* file, its release when the claim fails, the ownership check and the     *)
(* atomic replacement of every write.                                      *)
(*                                                                         *)
(* Each system call is a step of its own.  Every call may fail, a process  *)
(* may be killed anywhere and start again under the same run, and somebody *)
(* may wipe the directory of a run at work.  What is kept of an artifact   *)
(* and of a temporary file is whose it is and whether all of it is there.  *)
(***************************************************************************)
EXTENDS Naturals

CONSTANTS
    Process,      \* processes that may use the directory
    Runs,         \* run ids
    RunOf,        \* the run of each process; a uuid per command, shared to resume
    Failing,      \* the processes whose claim may fail once its content is written
    MaxFaults,    \* bound on failed calls and kills
    MaxWipes      \* bound on wipes

ASSUME ProcessAssumption ==
    /\ RunOf \in [Process -> Runs]
    /\ "absent" \notin Runs /\ "empty" \notin Runs
ASSUME FaultAssumption ==
    Failing \subseteq Process /\ MaxFaults \in Nat /\ MaxWipes \in Nat

VARIABLES
    pc,       \* where each process is
    owner,    \* .eval-run-owner.json: absent, empty, or the run it names
    files,    \* the runs with a file in the directory
    halves,   \* the runs that have half an artifact among their files
    temp,     \* the temporary file of each process's write, if it is there
    left,     \* the runs with a temporary file that nobody will remove
    foreign,  \* whether it has entries of nobody's
    inflight, \* history: the processes that were past their check at a wipe
    faults, wipes

disk == <<files, halves, temp, left>>
env == <<foreign, inflight, wipes>>
vars == <<pc, owner, disk, env, faults>>

Places == {"opening", "reading", "listing", "filling", "syncing", "releasing", "holding",
           "checked", "writing", "replacing", "cleaning", "refused", "failed", "closed", "dead"}
Claiming == {"listing", "filling", "syncing", "releasing"}
Writing == {"checked", "writing", "replacing"}
Holding == {"holding", "cleaning"} \cup Writing
Ended == {"refused", "failed", "closed", "dead"}

Step(p, from, to) == pc[p] = from /\ pc' = [pc EXCEPT ![p] = to]
Fault == faults < MaxFaults /\ faults' = faults + 1

(* The runs that have anything in the directory, beside the owner file.     *)
Entries ==
    {r \in Runs : r \in files \cup left \/ \E p \in Process : temp[p] # "none" /\ RunOf[p] = r}

---------------------------------------------------------------------------
(* claim_run_artifact_directory.                                            *)

(* Mutation: the file is created whether or not it exists.                  *)
OpenShared(p) ==
    /\ Step(p, "opening", "listing")
    /\ owner' = "empty"
    /\ UNCHANGED <<disk, env, faults>>

OpenOwner(p) ==
    \/ /\ owner = "absent" /\ Step(p, "opening", "listing")
       /\ owner' = "empty"
       /\ UNCHANGED <<disk, env, faults>>
    \/ /\ owner # "absent" /\ Step(p, "opening", "reading")
       /\ UNCHANGED <<owner, disk, env, faults>>

(* Mutation: a claim that names nobody yet is taken over.                   *)
ReadOwnerLeniently(p) ==
    /\ Step(p, "reading", IF owner \in {RunOf[p], "empty"} THEN "holding" ELSE "refused")
    /\ UNCHANGED <<owner, disk, env, faults>>

(* A claim that is gone, still empty or another run's is refused.           *)
ReadOwner(p) ==
    /\ Step(p, "reading", IF owner = RunOf[p] THEN "holding" ELSE "refused")
    /\ UNCHANGED <<owner, disk, env, faults>>

(* Mutation: the owner file itself counts as an entry.                      *)
ListEverything(p) ==
    /\ Step(p, "listing", IF foreign \/ owner # "absent" \/ Entries # {} THEN "releasing" ELSE "filling")
    /\ UNCHANGED <<owner, disk, env, faults>>

ListEntries(p) ==
    /\ UNCHANGED <<owner, disk, env>>
    /\ \/ /\ Step(p, "listing", IF foreign \/ Entries # {} THEN "releasing" ELSE "filling")
          /\ UNCHANGED faults
       \/ Fault /\ Step(p, "listing", "releasing")

(* Half a claim is read like an empty one.                                  *)
FillOwner(p) ==
    /\ UNCHANGED <<disk, env>>
    /\ \/ Step(p, "filling", "syncing") /\ owner' = RunOf[p] /\ UNCHANGED faults
       \/ Fault /\ Step(p, "filling", "releasing") /\ UNCHANGED owner

SyncOwner(p) ==
    /\ UNCHANGED <<owner, disk, env>>
    /\ \/ Step(p, "syncing", "holding") /\ UNCHANGED faults
       \/ p \in Failing /\ Fault /\ Step(p, "syncing", "releasing")

(* The owner path is unlinked, and a failure of that is ignored.            *)
ReleaseOwner(p) ==
    /\ Step(p, "releasing", "refused") /\ UNCHANGED <<disk, env>>
    /\ \/ owner' = "absent" /\ UNCHANGED faults
       \/ Fault /\ UNCHANGED owner

---------------------------------------------------------------------------
(* _atomic_write_json.                                                      *)

(* Mutation: a store trusts its claim.                                      *)
AssumeOwned(p) ==
    /\ Step(p, "holding", "checked")
    /\ UNCHANGED <<owner, disk, env, faults>>

AssertOwned(p) ==
    /\ Step(p, "holding", IF owner = RunOf[p] THEN "checked" ELSE "failed")
    /\ UNCHANGED <<owner, disk, env, faults>>

(* A temporary file of its own for each write, still empty.                 *)
CreateTemp(p) ==
    /\ Step(p, "checked", "writing")
    /\ temp' = [temp EXCEPT ![p] = "torn"]
    /\ UNCHANGED <<owner, files, halves, left, env, faults>>

(* Written, flushed and synced; if the name is gone, through the open file. *)
WriteTemp(p) ==
    /\ Step(p, "writing", "replacing")
    /\ temp' = [temp EXCEPT ![p] = IF @ = "torn" THEN "whole" ELSE @]
    /\ UNCHANGED <<owner, files, halves, left, env, faults>>

Halved(p, content) == halves \cup (IF content = "torn" THEN {RunOf[p]} ELSE {})

(* Mutation: the temporary file is named after the artifact, so what is     *)
(* renamed may be the other writer's.                                       *)
ReplaceSharedName(p) ==
    /\ Step(p, "replacing", "holding")
    /\ \E q \in Process :
          /\ RunOf[q] = RunOf[p] /\ temp[q] # "none"
          /\ temp' = [temp EXCEPT ![q] = "none"]
          /\ halves' = Halved(p, temp[q])
    /\ files' = files \cup {RunOf[p]}
    /\ UNCHANGED <<owner, left, env, faults>>

(* The temporary file takes the artifact's name; without it os.replace      *)
(* fails, and the sync of the directory may fail when the file is there.    *)
Replace(p) ==
    /\ UNCHANGED <<owner, left, env>>
    /\ \/ /\ temp[p] # "none" /\ temp' = [temp EXCEPT ![p] = "none"]
          /\ files' = files \cup {RunOf[p]} /\ halves' = Halved(p, temp[p])
          /\ \/ Step(p, "replacing", "holding") /\ UNCHANGED faults
             \/ Fault /\ Step(p, "replacing", "failed")
       \/ /\ temp[p] = "none" /\ Step(p, "replacing", "failed")
          /\ UNCHANGED <<files, halves, temp, faults>>

(* A failed write removes what it had created.                              *)
WriteFails(p) ==
    /\ Fault
    /\ \/ Step(p, "checked", "failed")
       \/ \E from \in {"writing", "replacing"} : Step(p, from, "cleaning")
    /\ UNCHANGED <<owner, disk, env>>

Abandoned(p) == left \cup (IF temp[p] = "none" THEN {} ELSE {RunOf[p]})

(* The finally clause; a failure of the unlink is ignored.                  *)
RemoveTemp(p) ==
    /\ Step(p, "cleaning", "failed")
    /\ temp' = [temp EXCEPT ![p] = "none"]
    /\ \/ UNCHANGED <<left, faults>>
       \/ Fault /\ left' = Abandoned(p)
    /\ UNCHANGED <<owner, files, halves, env>>

(* The run has written all it had to.                                       *)
Close(p) ==
    /\ Step(p, "holding", "closed")
    /\ UNCHANGED <<owner, disk, env, faults>>

---------------------------------------------------------------------------
(* The environment.                                                         *)

Kill(p) ==
    /\ pc[p] \notin Ended /\ Fault
    /\ pc' = [pc EXCEPT ![p] = "dead"]
    /\ temp' = [temp EXCEPT ![p] = "none"] /\ left' = Abandoned(p)
    /\ UNCHANGED <<owner, files, halves, env>>

Resume(p) ==
    /\ Step(p, "dead", "opening")
    /\ UNCHANGED <<owner, disk, env, faults>>

(* Of a directory that nobody is claiming at that moment.                   *)
Wipe ==
    /\ \A p \in Process : pc[p] \notin Claiming
    /\ wipes < MaxWipes /\ wipes' = wipes + 1
    /\ owner' = "absent" /\ foreign' = FALSE
    /\ files' = {} /\ halves' = {} /\ left' = {} /\ temp' = [p \in Process |-> "none"]
    /\ inflight' = inflight \cup {p \in Process : pc[p] \in Writing}
    /\ UNCHANGED <<pc, faults>>

---------------------------------------------------------------------------
Init ==
    /\ pc = [p \in Process |-> "opening"]
    /\ owner = "absent"
    /\ files = {} /\ halves = {} /\ left = {} /\ temp = [p \in Process |-> "none"]
    /\ foreign \in BOOLEAN /\ inflight = {} /\ faults = 0 /\ wipes = 0

Claims(p) == OpenOwner(p) \/ ReadOwner(p) \/ ListEntries(p) \/ FillOwner(p) \/ SyncOwner(p) \/ ReleaseOwner(p)
Writes(p) ==
    \/ AssertOwned(p) \/ CreateTemp(p) \/ WriteTemp(p) \/ Replace(p) \/ Close(p)
    \/ WriteFails(p) \/ RemoveTemp(p)

Over == (\A p \in Process : pc[p] \in Ended) /\ UNCHANGED vars

Next ==
    \/ \E p \in Process : Claims(p) \/ Writes(p) \/ Kill(p) \/ Resume(p)
    \/ Wipe \/ Over

Spec == Init /\ [][Next]_vars

(* No system call of the claim blocks.                                      *)
FairSpec == Spec /\ \A p \in Process : WF_vars(Claims(p))

---------------------------------------------------------------------------
(* Properties.                                                              *)

TypeOK ==
    /\ pc \in [Process -> Places]
    /\ owner \in {"absent", "empty"} \cup Runs
    /\ files \subseteq Runs /\ halves \subseteq Runs /\ left \subseteq Runs
    /\ temp \in [Process -> {"none", "torn", "whole"}]
    /\ foreign \in BOOLEAN
    /\ inflight \subseteq Process
    /\ faults \in 0..MaxFaults /\ wipes \in 0..MaxWipes

(* Who relies on the directory: a process past its check, and until the     *)
(* first wipe every process that claimed it.  (After a wipe a process finds *)
(* out at its next check.)                                                  *)
Relies(p) == pc[p] \in Writing \/ (pc[p] = "holding" /\ wipes = 0)

(* However the claims interleave and fail, the processes that got the       *)
(* directory belong to one run and its owner file names that run.  It was   *)
(* empty when they got it: nobody's entries are in it and no file, finished *)
(* or temporary, of another run.  A wipe changes nothing about that unless  *)
(* it came between a check and its write.                                   *)
HeldDirectoryIsOneRuns ==
    inflight = {} => \A p \in Process : Relies(p) =>
        /\ owner = RunOf[p] /\ ~foreign
        /\ Entries \subseteq {RunOf[p]}

(* Whatever fails, is killed or is written at the same time by another      *)
(* process of the run, an artifact in place is a whole one.                 *)
ArtifactsAreWhole == halves = {}

(* The abstract directory, as long as no wipe met a write in flight.        *)
Holder == IF owner \in Runs THEN owner ELSE "none"
Abstract == INSTANCE OneOwner WITH NoRun <- "none", holder <- Holder, contents <- files
ImplementsOneOwner ==
    Abstract!Init /\ [][inflight = {} => Abstract!Next]_<<Holder, files>>

(* Without faults an empty directory is not refused to everybody.           *)
EmptyDirectoryIsClaimed ==
    <>(foreign \/ faults > 0 \/ \E p \in Process : pc[p] \in Holding \cup {"closed"})

(* Claims do not refuse one another: in a directory that was empty at the   *)
(* start a process is refused only because another one is about to have it, *)
(* or has had it, whatever is written and wiped in the meantime.            *)
Got == Holding \cup {"closed", "failed"}
OnTheWay == {"listing", "filling", "syncing"}
RefusedForAnother ==
    faults = 0 /\ (\E p \in Process : pc[p] = "refused") =>
        \E q \in Process : pc[q] \in OnTheWay \cup Got
RefusalsAreForAnother == ~foreign => []RefusedForAnother

(* When a directory is wiped and claimed by another run, the old run's      *)
(* stale ownership costs at most the write it was in the middle of.         *)
StrayWritesWereInFlight ==
    owner \in Runs => files \subseteq {owner} \cup {RunOf[p] : p \in inflight}
=============================================================================
