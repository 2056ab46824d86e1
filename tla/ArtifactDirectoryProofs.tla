---------------------- MODULE ArtifactDirectoryProofs ----------------------
(***************************************************************************)
(* Proofs about ArtifactDirectory, for any processes, runs, faults and     *)
(* wipes.                                                                  *)
(***************************************************************************)
EXTENDS ArtifactDirectory, TLAPS

(* A process whose write of the claim may fail has a run of its own.        *)
Undisturbed ==
    \A p \in Failing, q \in Process : RunOf[p] = RunOf[q] => p = q

---------------------------------------------------------------------------
(* The inductive invariant.                                                 *)

(* At most one process is between the exclusive creation of the owner file  *)
(* and the end of its claim.                                                *)
OneClaimant ==
    /\ \A p \in Process : pc[p] \in Claiming => owner # "absent"
    /\ \A p, q \in Process : pc[p] \in Claiming /\ pc[q] \in Claiming => p = q

(* What the owner file says at each place of the claim and of a write.      *)
OwnerFollowsClaim ==
    /\ \A p \in Process : pc[p] \in {"listing", "filling"} => owner = "empty"
    /\ \A p \in Process : pc[p] = "syncing" => owner = RunOf[p]
    /\ inflight = {} => \A p \in Process : Relies(p) => owner = RunOf[p]
    /\ \A p \in Process : pc[p] = "releasing" => owner = "empty" \/ (p \in Failing /\ owner = RunOf[p])

(* Entries belong to the owner, and there are none while a claim that may   *)
(* still fail is under way.  A wipe empties the directory, and what a write *)
(* in flight brings back afterwards is nobody's.                            *)
EntriesAreTheOwners == inflight = {} =>
    /\ Entries \subseteq {owner}
    /\ foreign => owner \notin Runs
    /\ \A p \in Process : pc[p] = "filling" => ~foreign
    /\ \A p \in Failing : pc[p] \in {"syncing", "releasing"} => Entries = {}

ClaimInv == TypeOK /\ OneClaimant /\ OwnerFollowsClaim /\ EntriesAreTheOwners

---------------------------------------------------------------------------
(* Every variable keeps its type, whatever is wiped.                        *)
THEOREM TypeCorrect == Spec => []TypeOK
<1> USE ProcessAssumption, FaultAssumption DEF TypeOK, Places
<1>1. Init => TypeOK
  BY DEF Init
<1>2. TypeOK /\ [Next]_vars => TypeOK'
  <2> SUFFICES ASSUME TypeOK, [Next]_vars PROVE TypeOK'
    OBVIOUS
  <2> USE DEF Step, Fault, env
  <2>1. ASSUME NEW p \in Process, Claims(p) PROVE TypeOK'
    BY <2>1 DEF Claims, OpenOwner, ReadOwner, ListEntries, FillOwner, SyncOwner, ReleaseOwner, disk
  <2>2. ASSUME NEW p \in Process, AssertOwned(p) \/ Close(p) \/ Resume(p) \/ WriteFails(p)
        PROVE  TypeOK'
    BY <2>2 DEF AssertOwned, Close, Resume, WriteFails, disk
  <2>3. ASSUME NEW p \in Process, CreateTemp(p) \/ WriteTemp(p) PROVE TypeOK'
    BY <2>3 DEF CreateTemp, WriteTemp
  <2>4. ASSUME NEW p \in Process, Replace(p) PROVE TypeOK'
    BY <2>4 DEF Replace, Halved
  <2>5. ASSUME NEW p \in Process, RemoveTemp(p) \/ Kill(p) PROVE TypeOK'
    BY <2>5 DEF RemoveTemp, Kill, Abandoned
  <2>6. CASE Wipe
    <3>1. inflight' \subseteq Process
      BY <2>6 DEF Wipe
    <3>2. wipes' \in 0..MaxWipes
      BY <2>6 DEF Wipe
    <3> QED
      BY <2>6, <3>1, <3>2 DEF Wipe
  <2>7. CASE UNCHANGED vars
    BY <2>7 DEF vars, disk
  <2> QED
    BY <2>1, <2>2, <2>3, <2>4, <2>5, <2>6, <2>7 DEF Next, Over, Writes
<1> QED
  BY <1>1, <1>2, PTL DEF Spec

---------------------------------------------------------------------------
(* What is in the directory: only a new temporary file adds a run to it,    *)
(* whatever else becomes of files and temporary files.                      *)
Steps(p) == Claims(p) \/ Writes(p) \/ Kill(p) \/ Resume(p)

LEMMA StepsAndEntries ==
  ASSUME TypeOK, NEW p \in Process, Steps(p)
  PROVE  /\ Entries' \subseteq Entries \cup {RunOf[p]}
         /\ ~CreateTemp(p) => Entries' \subseteq Entries
<1> USE ProcessAssumption DEF TypeOK, Entries
<1>1. CASE \/ Claims(p) \/ AssertOwned(p) \/ Close(p) \/ WriteFails(p) \/ Resume(p)
  <2>1. UNCHANGED disk
    BY <1>1 DEF Claims, OpenOwner, ReadOwner, ListEntries, FillOwner, SyncOwner, ReleaseOwner,
                AssertOwned, Close, WriteFails, Resume
  <2> QED
    BY <2>1 DEF disk
<1>2. CASE CreateTemp(p) \/ WriteTemp(p)
  <2>1. /\ UNCHANGED <<files, left>>
        /\ \A q \in Process : q # p => temp'[q] = temp[q]
    BY <1>2 DEF CreateTemp, WriteTemp
  <2>2. WriteTemp(p) => (temp'[p] # "none" => temp[p] # "none")
    BY DEF WriteTemp
  <2> QED
    BY <1>2, <2>1, <2>2
<1>3. CASE Replace(p)
  <2>1. /\ left' = left
        /\ \A q \in Process : temp'[q] # "none" => temp[q] # "none"
        /\ files' \subseteq files \cup (IF temp[p] = "none" THEN {} ELSE {RunOf[p]})
    BY <1>3 DEF Replace
  <2> QED
    BY <2>1
<1>4. CASE RemoveTemp(p) \/ Kill(p)
  <2>1. /\ files' = files
        /\ \A q \in Process : temp'[q] # "none" => temp[q] # "none"
        /\ left' \subseteq left \cup (IF temp[p] = "none" THEN {} ELSE {RunOf[p]})
    BY <1>4 DEF RemoveTemp, Kill, Abandoned
  <2> QED
    BY <2>1
<1> QED
  BY <1>1, <1>2, <1>3, <1>4 DEF Steps, Writes

LEMMA WipesAndEntries ==
  ASSUME Wipe
  PROVE  Entries' = {}
BY DEF Wipe, Entries

LEMMA EntriesAtRest == UNCHANGED vars => Entries' = Entries
BY DEF vars, disk, Entries

LEMMA FilesAreEntries == TypeOK => files \subseteq Entries
BY DEF TypeOK, Entries

---------------------------------------------------------------------------
(* The inductive invariant holds initially and through every step.          *)
LEMMA ClaimInvInit == Init => ClaimInv
<1>1. Init => TypeOK
  BY ProcessAssumption, FaultAssumption DEF Init, TypeOK, Places
<1>2. Init => Entries = {}
  BY DEF Init, Entries
<1> QED
  BY <1>1, <1>2, ProcessAssumption
  DEF Init, ClaimInv, OneClaimant, OwnerFollowsClaim, EntriesAreTheOwners, Claiming, Relies, Writing

(* The steps of a claim.                                                    *)
LEMMA ClaimsKeep ==
  ASSUME Undisturbed, TypeOK, OneClaimant, OwnerFollowsClaim, EntriesAreTheOwners,
         NEW p \in Process, Claims(p)
  PROVE  OneClaimant' /\ OwnerFollowsClaim' /\ EntriesAreTheOwners'
<1>0. Entries' = Entries
  BY DEF Claims, OpenOwner, ReadOwner, ListEntries, FillOwner, SyncOwner, ReleaseOwner, disk, Entries
<1> USE ProcessAssumption, FaultAssumption
    DEF TypeOK, OneClaimant, OwnerFollowsClaim, EntriesAreTheOwners, Claiming, Relies, Writing, Step, env
<1>1. CASE OpenOwner(p)
  <2>1. CASE owner = "absent"
    <3>1. /\ pc[p] = "opening" /\ pc' = [pc EXCEPT ![p] = "listing"] /\ owner' = "empty"
          /\ UNCHANGED <<foreign, inflight, wipes>>
      BY <1>1, <2>1 DEF OpenOwner
    <3>2. \A q \in Process : pc[q] \notin Claiming /\ (inflight = {} => ~Relies(q))
      BY <2>1
    <3>3. inflight = {} => Entries = {}
      <4>1. Entries \subseteq Runs
        BY DEF Entries
      <4> QED
        BY <2>1, <4>1
    <3>4. OneClaimant'
      BY <3>1, <3>2
    <3>5. OwnerFollowsClaim'
      BY <3>1, <3>2
    <3>6. EntriesAreTheOwners'
      BY <1>0, <3>1, <3>2, <3>3
    <3> QED
      BY <3>4, <3>5, <3>6
  <2>2. CASE owner # "absent"
    <3>1. /\ pc[p] = "opening" /\ pc' = [pc EXCEPT ![p] = "reading"]
          /\ UNCHANGED <<owner, foreign, inflight, wipes>>
      BY <1>1, <2>2 DEF OpenOwner
    <3> QED
      BY <1>0, <3>1
  <2> QED
    BY <2>1, <2>2
<1>2. CASE ReadOwner(p)
  BY <1>0, <1>2 DEF ReadOwner
<1>3. CASE ListEntries(p)
  <2>1. Entries \subseteq Runs
    BY DEF Entries
  <2> QED
    BY <1>0, <1>3, <2>1 DEF ListEntries
<1>4. CASE FillOwner(p)
  <2>1. Entries \subseteq Runs
    BY DEF Entries
  <2> QED
    BY <1>0, <1>4, <2>1 DEF FillOwner
<1>5. CASE SyncOwner(p)
  BY <1>0, <1>5 DEF SyncOwner
<1>6. CASE ReleaseOwner(p)
  <2>1. Entries \subseteq Runs
    BY DEF Entries
  <2> QED
    BY <1>0, <1>6, <2>1 DEF ReleaseOwner, Undisturbed
<1> QED
  BY <1>1, <1>2, <1>3, <1>4, <1>5, <1>6 DEF Claims

(* The steps of a write, and its failures.                                  *)
LEMMA WritesKeep ==
  ASSUME Undisturbed, TypeOK, OneClaimant, OwnerFollowsClaim, EntriesAreTheOwners,
         NEW p \in Process, Writes(p) \/ Kill(p) \/ Resume(p)
  PROVE  OneClaimant' /\ OwnerFollowsClaim' /\ EntriesAreTheOwners'
<1> USE ProcessAssumption, FaultAssumption
    DEF TypeOK, OneClaimant, OwnerFollowsClaim, EntriesAreTheOwners, Claiming, Relies, Writing, Step
<1>1. /\ UNCHANGED <<owner, foreign, inflight, wipes>>
  BY DEF Writes, AssertOwned, CreateTemp, WriteTemp, Replace, Close, WriteFails, RemoveTemp,
         Kill, Resume, env
<1>2. CASE CreateTemp(p)
  <2>1. pc[p] = "checked" /\ pc' = [pc EXCEPT ![p] = "writing"]
    BY <1>2 DEF CreateTemp
  <2>2. Entries' \subseteq Entries \cup {RunOf[p]}
    BY <1>2, StepsAndEntries DEF Steps, Writes
  <2>3. inflight = {} => owner = RunOf[p] /\ \A q \in Failing : pc[q] \notin {"syncing", "releasing"}
    BY <2>1 DEF Undisturbed
  <2> QED
    BY <1>1, <2>1, <2>2, <2>3
<1>3. CASE ~CreateTemp(p)
  <2>1. Entries' \subseteq Entries
    BY <1>3, StepsAndEntries DEF Steps
  <2>2. \/ AssertOwned(p) \/ Close(p) \/ Resume(p) \/ Kill(p)
        \/ \E from \in Writing \cup {"cleaning"}, to \in (Holding \ {"checked"}) \cup {"failed"} :
              /\ pc[p] = from /\ pc' = [pc EXCEPT ![p] = to]
              /\ to \in Writing \cup {"holding"} => from \in Writing
    BY <1>3 DEF Writes, WriteTemp, Replace, WriteFails, RemoveTemp, Holding
  <2>3. CASE AssertOwned(p)
    BY <1>1, <2>1, <2>3 DEF AssertOwned
  <2>4. CASE Close(p) \/ Resume(p)
    BY <1>1, <2>1, <2>4 DEF Close, Resume
  <2>5. CASE Kill(p)
    BY <1>1, <2>1, <2>5 DEF Kill
  <2>6. CASE \E from \in Writing \cup {"cleaning"}, to \in (Holding \ {"checked"}) \cup {"failed"} :
                /\ pc[p] = from /\ pc' = [pc EXCEPT ![p] = to]
                /\ to \in Writing \cup {"holding"} => from \in Writing
    BY <1>1, <2>1, <2>6 DEF Holding
  <2> QED
    BY <2>2, <2>3, <2>4, <2>5, <2>6
<1> QED
  BY <1>2, <1>3

(* A wipe that meets no write leaves an empty directory, and nobody is      *)
(* claiming it.                                                             *)
LEMMA WipesKeep ==
  ASSUME TypeOK, OneClaimant, OwnerFollowsClaim, EntriesAreTheOwners, Wipe
  PROVE  OneClaimant' /\ OwnerFollowsClaim' /\ EntriesAreTheOwners'
<1>1. /\ \A p \in Process : pc[p] \notin Claiming
      /\ wipes' = wipes + 1 /\ pc' = pc
      /\ owner' = "absent" /\ foreign' = FALSE
  BY DEF Wipe
<1>a. wipes' # 0
  BY <1>1, FaultAssumption DEF TypeOK
<1>b. Entries' = {}
  BY WipesAndEntries
<1>2. inflight' = {} => \A p \in Process : pc[p] \notin Writing
  BY DEF Wipe
<1>3. OneClaimant'
  BY <1>1 DEF OneClaimant
<1>4. OwnerFollowsClaim'
  BY <1>1, <1>a, <1>2 DEF OwnerFollowsClaim, Claiming, Relies
<1>5. EntriesAreTheOwners'
  BY <1>1, <1>b, FaultAssumption DEF EntriesAreTheOwners, Claiming
<1> QED
  BY <1>3, <1>4, <1>5

LEMMA ClaimInvAlways ==
  ASSUME Undisturbed
  PROVE  Spec => []ClaimInv
<1>1. Init => ClaimInv
  BY ClaimInvInit
<1>2. TypeOK' /\ ClaimInv /\ [Next]_vars => ClaimInv'
  <2> SUFFICES ASSUME TypeOK', ClaimInv, [Next]_vars PROVE ClaimInv'
    OBVIOUS
  <2>1. TypeOK /\ OneClaimant /\ OwnerFollowsClaim /\ EntriesAreTheOwners
    BY DEF ClaimInv
  <2>2. ASSUME NEW p \in Process, Claims(p) PROVE ClaimInv'
    BY <2>1, <2>2, ClaimsKeep DEF ClaimInv
  <2>3. ASSUME NEW p \in Process, Writes(p) \/ Kill(p) \/ Resume(p) PROVE ClaimInv'
    BY <2>1, <2>3, WritesKeep DEF ClaimInv
  <2>4. CASE Wipe
    <3>1. OneClaimant' /\ OwnerFollowsClaim' /\ EntriesAreTheOwners'
      BY <2>1, <2>4, WipesKeep
    <3> QED
      BY <3>1 DEF ClaimInv
  <2>5. CASE UNCHANGED vars
    BY <2>1, <2>5, EntriesAtRest DEF vars, env, ClaimInv, OneClaimant, OwnerFollowsClaim, EntriesAreTheOwners, Relies
  <2> QED
    BY <2>2, <2>3, <2>4, <2>5 DEF Next, Over
<1> QED
  BY <1>1, <1>2, TypeCorrect, PTL DEF Spec

---------------------------------------------------------------------------
(* Processes that rely on the directory belong to the run its owner file    *)
(* names, and it holds nothing but what that run put there.                 *)
THEOREM HeldDirectoriesAreOneRuns ==
  ASSUME Undisturbed
  PROVE  Spec => []HeldDirectoryIsOneRuns
<1>1. ClaimInv => HeldDirectoryIsOneRuns
  BY ProcessAssumption
  DEF ClaimInv, TypeOK, OwnerFollowsClaim, EntriesAreTheOwners, HeldDirectoryIsOneRuns
<1> QED
  BY <1>1, ClaimInvAlways, PTL

---------------------------------------------------------------------------
(* The runs whose writes a wipe caught on their way.                        *)
Strays == {RunOf[p] : p \in inflight}

(* Whoever is past its check owns the directory or was caught by a wipe, so *)
(* a file that is not the owner's is a stray; and a claim that may still be *)
(* taken back has no files to leave behind.                                 *)
StrayInv ==
    /\ files \subseteq {owner} \cup Strays
    /\ \A p \in Process : pc[p] \in Writing => owner = RunOf[p] \/ p \in inflight
    /\ \A p \in Failing : pc[p] \in {"syncing", "releasing"} => files \subseteq Strays

(* Every step of a claim or a write keeps it.                               *)
LEMMA StepsKeepStrays ==
  ASSUME Undisturbed, TypeOK, OneClaimant, OwnerFollowsClaim, StrayInv, NEW p \in Process,
         Claims(p) \/ Writes(p) \/ Kill(p) \/ Resume(p)
  PROVE  StrayInv'
<1> USE ProcessAssumption, FaultAssumption
    DEF TypeOK, OneClaimant, OwnerFollowsClaim, StrayInv, Claiming, Writing, Step, env, disk
<1>1. Strays' = Strays /\ inflight' = inflight
  BY DEF Strays, Claims, OpenOwner, ReadOwner, ListEntries, FillOwner, SyncOwner, ReleaseOwner,
         Writes, AssertOwned, CreateTemp, WriteTemp, Replace, Close, WriteFails, RemoveTemp,
         Kill, Resume
<1>2. owner \notin Runs => files \subseteq Strays
  OBVIOUS
<1>3. CASE OpenOwner(p)
  <2>1. CASE owner = "absent"
    <3>1. /\ pc[p] = "opening" /\ pc' = [pc EXCEPT ![p] = "listing"]
          /\ owner' = "empty" /\ files' = files
      BY <1>3, <2>1 DEF OpenOwner
    <3>2. \A q \in Process : pc[q] \in Writing => q \in inflight
      BY <2>1
    <3> QED
      BY <1>1, <1>2, <2>1, <3>1, <3>2
  <2>2. CASE owner # "absent"
    BY <1>1, <1>3, <2>2 DEF OpenOwner
  <2> QED
    BY <2>1, <2>2
<1>4. CASE ReadOwner(p) \/ ListEntries(p)
  BY <1>1, <1>2, <1>4 DEF ReadOwner, ListEntries
<1>5. CASE FillOwner(p)
  BY <1>1, <1>2, <1>5 DEF FillOwner
<1>6. CASE SyncOwner(p)
  BY <1>1, <1>6 DEF SyncOwner
<1>7. CASE ReleaseOwner(p)
  <2>1. files \subseteq Strays
    BY <1>2, <1>7 DEF ReleaseOwner
  <2>2. \A q \in Process : pc[q] \in Writing => owner # RunOf[q] \/ UNCHANGED owner
    BY <1>7 DEF ReleaseOwner, Undisturbed
  <2> QED
    BY <1>1, <1>7, <2>1, <2>2 DEF ReleaseOwner
<1>8. CASE Replace(p)
  <2>1. /\ pc[p] = "replacing" /\ UNCHANGED owner
        /\ \E to \in {"holding", "failed"} : pc' = [pc EXCEPT ![p] = to]
        /\ files' \subseteq files \cup {RunOf[p]}
    BY <1>8 DEF Replace
  <2>2. owner = RunOf[p] \/ RunOf[p] \in Strays
    BY <2>1 DEF Strays
  <2>3. (\E q \in Failing : pc[q] \in {"syncing", "releasing"}) => RunOf[p] \in Strays
    BY <2>1, <2>2 DEF Undisturbed
  <2> QED
    BY <1>1, <2>1, <2>2, <2>3
<1>9. CASE AssertOwned(p)
  BY <1>1, <1>9 DEF AssertOwned
<1>10. CASE \/ CreateTemp(p) \/ WriteTemp(p) \/ WriteFails(p) \/ RemoveTemp(p)
            \/ Close(p) \/ Kill(p) \/ Resume(p)
  BY <1>1, <1>10 DEF CreateTemp, WriteTemp, WriteFails, RemoveTemp, Close, Kill, Resume
<1> QED
  BY <1>3, <1>4, <1>5, <1>6, <1>7, <1>8, <1>9, <1>10 DEF Claims, Writes

LEMMA WipesKeepStrays ==
  ASSUME TypeOK, StrayInv, Wipe
  PROVE  StrayInv'
<1>1. /\ \A p \in Process : pc[p] \notin Claiming
      /\ pc' = pc /\ files' = {}
      /\ \A p \in Process : pc[p] \in Writing => p \in inflight'
  BY DEF Wipe
<1> QED
  BY <1>1, FaultAssumption DEF StrayInv, Claiming

(* After any number of wipes, a file of a run that is not the owner comes    *)
(* from a write that was past its ownership check when the directory was    *)
(* wiped (_assert_owned).                                                   *)
THEOREM StrayWritesWereCaught ==
  ASSUME Undisturbed
  PROVE  Spec => []StrayWritesWereInFlight
<1>1. Init => StrayInv
  BY FaultAssumption DEF Init, StrayInv, Writing
<1>2. ClaimInv /\ StrayInv /\ [Next]_vars => StrayInv'
  <2> SUFFICES ASSUME ClaimInv, StrayInv, [Next]_vars PROVE StrayInv'
    OBVIOUS
  <2>1. TypeOK /\ OneClaimant /\ OwnerFollowsClaim
    BY DEF ClaimInv
  <2>2. ASSUME NEW p \in Process,
               Claims(p) \/ Writes(p) \/ Kill(p) \/ Resume(p)
        PROVE  StrayInv'
    BY <2>1, <2>2, StepsKeepStrays
  <2>3. CASE Wipe
    BY <2>1, <2>3, WipesKeepStrays
  <2>4. CASE UNCHANGED vars
    BY <2>4 DEF vars, disk, env, StrayInv, Strays
  <2> QED
    BY <2>2, <2>3, <2>4 DEF Next, Over
<1>3. StrayInv => StrayWritesWereInFlight
  BY DEF StrayInv, Strays, StrayWritesWereInFlight
<1> QED
  BY <1>1, <1>2, <1>3, ClaimInvAlways, PTL DEF Spec

---------------------------------------------------------------------------
(* What is about to be renamed is whole, since each write has a temporary   *)
(* file of its own, which nobody else completes or renames.                 *)
WholeInv ==
    /\ halves = {}
    /\ \A p \in Process : pc[p] = "replacing" => temp[p] \in {"none", "whole"}

(* No artifact is half there, in whatever order processes write, fail, are  *)
(* killed and start again, and however many of them share a run             *)
(* (_atomic_write_json).                                                    *)
THEOREM WholeArtifacts == Spec => []ArtifactsAreWhole
<1>1. Init => WholeInv
  BY DEF Init, WholeInv
<1>2. TypeOK /\ WholeInv /\ [Next]_vars => WholeInv'
  <2> SUFFICES ASSUME TypeOK, WholeInv, [Next]_vars PROVE WholeInv'
    OBVIOUS
  <2> USE DEF TypeOK, WholeInv, Step
  <2>1. ASSUME NEW p \in Process, Claims(p) PROVE WholeInv'
    BY <2>1
    DEF Claims, OpenOwner, ReadOwner, ListEntries, FillOwner, SyncOwner, ReleaseOwner, disk
  <2>2. ASSUME NEW p \in Process, CreateTemp(p) \/ WriteTemp(p) PROVE WholeInv'
    BY <2>2 DEF CreateTemp, WriteTemp
  <2>3. ASSUME NEW p \in Process, Replace(p) PROVE WholeInv'
    BY <2>3 DEF Replace, Halved
  <2>4. ASSUME NEW p \in Process, RemoveTemp(p) \/ Kill(p) PROVE WholeInv'
    BY <2>4 DEF RemoveTemp, Kill
  <2>5. ASSUME NEW p \in Process, AssertOwned(p) \/ Close(p) \/ WriteFails(p) \/ Resume(p)
        PROVE  WholeInv'
    BY <2>5 DEF AssertOwned, Close, WriteFails, Resume, disk
  <2>6. CASE Wipe
    BY <2>6 DEF Wipe
  <2>7. CASE UNCHANGED vars
    BY <2>7 DEF vars, disk
  <2> QED
    BY <2>1, <2>2, <2>3, <2>4, <2>5, <2>6, <2>7 DEF Next, Over, Writes
<1>3. WholeInv => ArtifactsAreWhole
  BY DEF WholeInv, ArtifactsAreWhole
<1> QED
  BY <1>1, <1>2, <1>3, TypeCorrect, PTL DEF Spec

---------------------------------------------------------------------------
(* Refusals.                                                                *)

(* Somebody is about to have the directory or has had it, and cannot lose   *)
(* that again without a fault.                                              *)
Taken == \E q \in Process : pc[q] \in OnTheWay \cup Got
WasGot == \E q \in Process : pc[q] \in Got

(* Whatever a claim can be refused for is somebody's: the owner file, the   *)
(* entries, and the claims that are on their way to a refusal already.      *)
RaceInv ==
    /\ ~foreign
    /\ faults = 0 =>
           /\ owner # "absent" => Taken
           /\ Entries # {} => WasGot
           /\ (\E p \in Process : pc[p] \in {"reading", "releasing", "refused"}) => Taken

(* A claim gives way only to one that has got the directory.                *)
LEMMA ClaimsKeepRace ==
  ASSUME TypeOK, RaceInv, NEW p \in Process, Claims(p)
  PROVE  RaceInv'
<1>0. Entries' = Entries
  BY DEF Claims, OpenOwner, ReadOwner, ListEntries, FillOwner, SyncOwner, ReleaseOwner, disk, Entries
<1> USE <1>0 DEF TypeOK, RaceInv, Taken, WasGot, OnTheWay, Got, Holding, Writing, Step, env
<1>1. CASE OpenOwner(p)
  BY <1>1 DEF OpenOwner
<1>2. CASE ReadOwner(p)
  BY <1>2 DEF ReadOwner
<1>3. CASE ListEntries(p)
  <2>1. CASE UNCHANGED faults /\ Entries # {}
    <3>1. /\ pc[p] = "listing" /\ pc' = [pc EXCEPT ![p] = "releasing"]
          /\ UNCHANGED <<owner, foreign>>
      BY <1>3, <2>1, FaultAssumption DEF ListEntries, Fault
    <3>2. faults = 0 => WasGot' /\ Taken'
      BY <2>1, <3>1
    <3> QED
      BY <2>1, <3>1, <3>2
  <2>2. CASE UNCHANGED faults /\ Entries = {}
    <3>1. /\ pc[p] = "listing" /\ pc' = [pc EXCEPT ![p] = "filling"]
          /\ UNCHANGED <<owner, foreign>>
      BY <1>3, <2>2, FaultAssumption DEF ListEntries, Fault
    <3> QED
      BY <2>2, <3>1
  <2>3. CASE Fault
    BY <1>3, <2>3, FaultAssumption DEF ListEntries, Fault
  <2> QED
    BY <1>3, <2>1, <2>2, <2>3 DEF ListEntries
<1>4. CASE FillOwner(p)
  BY <1>4, FaultAssumption DEF FillOwner, Fault
<1>5. CASE SyncOwner(p)
  BY <1>5, FaultAssumption DEF SyncOwner, Fault
<1>6. CASE ReleaseOwner(p)
  BY <1>6, FaultAssumption DEF ReleaseOwner, Fault
<1> QED
  BY <1>1, <1>2, <1>3, <1>4, <1>5, <1>6 DEF Claims

(* Who has got the directory has had it whatever becomes of its writes.     *)
LEMMA WritesKeepRace ==
  ASSUME TypeOK, RaceInv, NEW p \in Process, Writes(p) \/ Kill(p) \/ Resume(p)
  PROVE  RaceInv'
<1> USE FaultAssumption
    DEF TypeOK, RaceInv, Taken, WasGot, OnTheWay, Got, Holding, Writing, Step, Fault, env
<1>1. /\ Entries' \subseteq Entries \cup {RunOf[p]}
      /\ ~CreateTemp(p) => Entries' \subseteq Entries
  BY StepsAndEntries DEF Steps
<1>2. CASE CreateTemp(p)
  BY <1>1, <1>2 DEF CreateTemp
<1>3. CASE ~CreateTemp(p)
  <2>0. Entries' \subseteq Entries
    BY <1>1, <1>3
  <2>1. CASE AssertOwned(p) \/ Close(p)
    BY <2>0, <2>1 DEF AssertOwned, Close
  <2>2. CASE WriteTemp(p)
    BY <2>0, <2>2 DEF WriteTemp
  <2>3. CASE Replace(p)
    BY <2>0, <2>3 DEF Replace
  <2>4. CASE WriteFails(p) \/ Kill(p)
    BY <2>0, <2>4 DEF WriteFails, Kill
  <2>5. CASE RemoveTemp(p)
    BY <2>0, <2>5 DEF RemoveTemp
  <2>6. CASE Resume(p)
    BY <2>0, <2>6 DEF Resume
  <2> QED
    BY <1>3, <2>1, <2>2, <2>3, <2>4, <2>5, <2>6 DEF Writes
<1> QED
  BY <1>2, <1>3

(* In a directory that was empty at the start, and as long as nothing was   *)
(* killed and no call failed, a refused process was refused for another     *)
(* one: claims that run at the same time cannot all give up.  It needs no   *)
(* assumption about who shares a run, and allows any number of wipes.       *)
THEOREM RefusalsHaveAReason == Spec => RefusalsAreForAnother
<1>1. Init /\ ~foreign => RaceInv
  BY DEF Init, RaceInv, Entries
<1>2. TypeOK /\ RaceInv /\ [Next]_vars => RaceInv'
  <2> SUFFICES ASSUME TypeOK, RaceInv, [Next]_vars PROVE RaceInv'
    OBVIOUS
  <2>1. ASSUME NEW p \in Process, Claims(p) PROVE RaceInv'
    BY <2>1, ClaimsKeepRace
  <2>2. ASSUME NEW p \in Process, Writes(p) \/ Kill(p) \/ Resume(p) PROVE RaceInv'
    BY <2>2, WritesKeepRace
  <2>3. CASE Wipe
    BY <2>3, WipesAndEntries DEF Wipe, RaceInv, Taken, WasGot
  <2>4. CASE UNCHANGED vars
    BY <2>4, EntriesAtRest DEF vars, env, RaceInv, Taken, WasGot
  <2> QED
    BY <2>1, <2>2, <2>3, <2>4 DEF Next, Over
<1>3. RaceInv => RefusedForAnother
  BY DEF RaceInv, RefusedForAnother, Taken
<1> QED
  BY <1>1, <1>2, <1>3, TypeCorrect, PTL DEF Spec, RefusalsAreForAnother

(* Every step of the directory is a step of OneOwner or invisible to it.    *)
THEOREM DirectoryImplementsOneOwner ==
  ASSUME Undisturbed
  PROVE  Spec => ImplementsOneOwner
<1> USE DEF Abstract!Claim, Abstract!Release, Abstract!Put
<1>1. Init => Abstract!Init
  BY ProcessAssumption DEF Init, Abstract!Init, Holder
<1>2. ClaimInv /\ [Next]_vars => [inflight = {} => Abstract!Next]_<<Holder, files>>
  <2> SUFFICES ASSUME ClaimInv, [Next]_vars, inflight = {} PROVE [Abstract!Next]_<<Holder, files>>
    OBVIOUS
  <2> USE ProcessAssumption DEF ClaimInv, TypeOK, OwnerFollowsClaim, EntriesAreTheOwners, Relies, Writing, Holder, Step, env, disk
  <2> files \subseteq Entries
    BY FilesAreEntries
  <2>1. ASSUME NEW p \in Process, OpenOwner(p) \/ ReadOwner(p) \/ ListEntries(p) \/ SyncOwner(p)
        PROVE  UNCHANGED <<Holder, files>>
    BY <2>1 DEF OpenOwner, ReadOwner, ListEntries, SyncOwner
  <2>2. ASSUME NEW p \in Process, FillOwner(p) PROVE [Abstract!Claim]_<<Holder, files>>
    <3>1. pc[p] = "filling" /\ owner = "empty" /\ files' = files
      BY <2>2 DEF FillOwner
    <3>2. files \subseteq Runs /\ files \subseteq {owner}
      OBVIOUS
    <3>3. Holder = "none" /\ files = {}
      BY <3>1, <3>2
    <3>4. owner' = RunOf[p] \/ owner' = owner
      BY <2>2 DEF FillOwner
    <3>5. CASE owner' = RunOf[p]
      BY <3>1, <3>3, <3>5
    <3>6. CASE owner' = owner
      BY <3>1, <3>6
    <3> QED
      BY <3>4, <3>5, <3>6
  <2>3. ASSUME NEW p \in Process, ReleaseOwner(p) PROVE [Abstract!Release]_<<Holder, files>>
    BY <2>3 DEF ReleaseOwner
  <2>4. ASSUME NEW p \in Process, Replace(p) PROVE [Abstract!Put]_<<Holder, files>>
    BY <2>4 DEF Replace
  <2>5. ASSUME NEW p \in Process,
               \/ AssertOwned(p) \/ CreateTemp(p) \/ WriteTemp(p) \/ Close(p)
               \/ WriteFails(p) \/ RemoveTemp(p) \/ Kill(p) \/ Resume(p)
        PROVE  UNCHANGED <<Holder, files>>
    BY <2>5 DEF AssertOwned, CreateTemp, WriteTemp, Close, WriteFails, RemoveTemp, Kill, Resume
  <2>6. CASE Wipe
    BY <2>6 DEF Wipe, Abstract!Next, Abstract!Empty
  <2>7. CASE UNCHANGED vars
    BY <2>7 DEF vars
  <2> QED
    BY <2>1, <2>2, <2>3, <2>4, <2>5, <2>6, <2>7 DEF Next, Over, Claims, Writes, Abstract!Next
<1> QED
  BY <1>1, <1>2, ClaimInvAlways, PTL DEF Spec, ImplementsOneOwner
=============================================================================
