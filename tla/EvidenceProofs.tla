--------------------------- MODULE EvidenceProofs ---------------------------
(***************************************************************************)
(* Proofs about RuntimeEvidence, for every capture that the loader can      *)
(* return and every limit on its lines.                                    *)
(***************************************************************************)
EXTENDS RuntimeEvidence, FiniteSetTheorems, TLAPS

Starts(capture) == FirstOf(capture.records, StartKinds)
Terminals(capture) == FirstOf(capture.records, TerminalKinds)

(* What the loader returns: its records are in one order, its issues are    *)
(* among those it raises, and a capture that did not start has one.         *)
IsCapture(capture) ==
    /\ {capture.started, capture.ended, capture.failures} \subseteq BOOLEAN
    /\ \A r \in capture.records : r.seq \in Nat \ {0} /\ r.kind \in ToolKinds
    /\ \A r, q \in capture.records : r.seq = q.seq => r = q
    /\ capture.issues \subseteq
           InvalidIssues \cup {"missing_capture_end", "empty_capture", "capture_io_error"}
    /\ ~capture.started => capture.issues # {}

(***************************************************************************)
(* The accounting.                                                         *)
(***************************************************************************)

Unsettled(observations) == {o \in observations : o.omitted \/ o.outcome = "missing"}

Whole(closed, failures, losses, process) ==
    closed /\ ~failures /\ ~losses /\ process = "completed"

(* What an account says of the boundaries.                                  *)
IsAccount(account, observations, malformed, whole) ==
    LET observed == {account.boundary[b] : b \in ObservedBoundaries} IN
    /\ account.boundary \in [ObservedBoundaries -> {"complete", "incomplete", "invalid"}]
    /\ account.status = Worst(observed, "complete")
    /\ malformed => observed = {"invalid"}
    /\ ~malformed /\ ~whole => observed = {"incomplete"}
    /\ ~malformed /\ whole => \A b \in ObservedBoundaries :
           account.boundary[b] = IF \E o \in Unsettled(observations) : BoundaryOf(o) = b
                                 THEN "incomplete" ELSE "complete"

LEMMA AccountBoundaries ==
    ASSUME NEW observations, NEW malformed \in BOOLEAN, NEW closed \in BOOLEAN,
           NEW failures \in BOOLEAN, NEW losses \in BOOLEAN, NEW process \in ProcessStates
    PROVE  IsAccount(Account(observations, malformed, closed, failures, losses, process),
                     observations, malformed, Whole(closed, failures, losses, process))
<1> DEFINE account == Account(observations, malformed, closed, failures, losses, process)
           whole == Whole(closed, failures, losses, process)
           unsettled(o) == o.omitted \/ o.outcome = "missing"
<1>1. account.boundary = [b \in ObservedBoundaries |->
            IF malformed THEN "invalid"
            ELSE IF ~whole \/ \E o \in observations : BoundaryOf(o) = b /\ unsettled(o)
                 THEN "incomplete" ELSE "complete"]
    BY DEF Account, GloballyIncomplete, Whole
<1>2. account.status = Worst({account.boundary[b] : b \in ObservedBoundaries}, "complete")
    BY DEF Account
<1>3. \A b : (\E o \in observations : BoundaryOf(o) = b /\ unsettled(o))
             <=> \E o \in Unsettled(observations) : BoundaryOf(o) = b
    BY DEF Unsettled
<1> HIDE DEF account, unsettled
<1>4. "native" \in ObservedBoundaries
    BY DEF ObservedBoundaries
<1>5. account.boundary = [b \in ObservedBoundaries |->
            IF malformed THEN "invalid"
            ELSE IF ~whole \/ \E o \in Unsettled(observations) : BoundaryOf(o) = b
                 THEN "incomplete" ELSE "complete"]
    BY <1>1, <1>3
<1>6. \A b \in ObservedBoundaries : account.boundary[b] =
            IF malformed THEN "invalid"
            ELSE IF ~whole \/ \E o \in Unsettled(observations) : BoundaryOf(o) = b
                 THEN "incomplete" ELSE "complete"
    BY <1>5
<1>7. account.boundary \in [ObservedBoundaries -> {"complete", "incomplete", "invalid"}]
    BY <1>5
<1> QED
    BY <1>2, <1>4, <1>6, <1>7 DEF account, IsAccount

(* The statuses of an account.                                              *)
LEMMA AccountStatus ==
    ASSUME NEW account, NEW observations, NEW malformed \in BOOLEAN, NEW whole \in BOOLEAN,
           IsAccount(account, observations, malformed, whole),
           \A o \in observations : o.mode \in {"native", "code_mode"}
    PROVE  /\ account.status \in {"complete", "incomplete", "invalid"}
           /\ account.status = "invalid" <=> malformed
           /\ account.status = "complete" <=>
                  ~malformed /\ whole /\ Unsettled(observations) = {}
<1> DEFINE observed == {account.boundary[b] : b \in ObservedBoundaries}
<1>1. \A o \in observations : BoundaryOf(o) \in ObservedBoundaries
    BY DEF BoundaryOf, ObservedBoundaries
<1>2. Unsettled(observations) \subseteq observations
    BY DEF Unsettled
<1>3. /\ account.boundary \in [ObservedBoundaries -> {"complete", "incomplete", "invalid"}]
      /\ account.status = Worst(observed, "complete")
      /\ malformed => observed = {"invalid"}
      /\ ~malformed /\ ~whole => observed = {"incomplete"}
    BY DEF IsAccount
<1>4. ~malformed /\ whole => \A b \in ObservedBoundaries :
          account.boundary[b] = IF \E o \in Unsettled(observations) : BoundaryOf(o) = b
                                THEN "incomplete" ELSE "complete"
    BY DEF IsAccount
<1>5. CASE malformed \/ ~whole
    BY <1>3, <1>5 DEF Worst
<1>6. CASE ~malformed /\ whole /\ Unsettled(observations) = {}
    <2>1. \A b \in ObservedBoundaries : account.boundary[b] = "complete"
        BY <1>4, <1>6
    <2>2. observed \subseteq {"complete"}
        BY <2>1
    <2> QED
        BY <1>3, <1>6, <2>2 DEF Worst
<1>7. CASE ~malformed /\ whole /\ Unsettled(observations) # {}
    <2>1. PICK o \in Unsettled(observations) : TRUE
        BY <1>7
    <2>2. account.boundary[BoundaryOf(o)] = "incomplete" /\ BoundaryOf(o) \in ObservedBoundaries
        BY <1>1, <1>2, <1>4, <1>7, <2>1
    <2>3. "incomplete" \in observed
        BY <2>2
    <2>4. "invalid" \notin observed
        BY <1>4, <1>7
    <2> QED
        BY <1>3, <1>7, <2>3, <2>4 DEF Worst
<1> QED
    BY <1>5, <1>6, <1>7

(***************************************************************************)
(* The builder.                                                            *)
(***************************************************************************)

LEMMA FirstOfFacts ==
    ASSUME NEW capture, IsCapture(capture)
    PROVE  /\ Starts(capture) \subseteq {r \in capture.records : r.kind \in StartKinds}
           /\ Terminals(capture) \subseteq {r \in capture.records : r.kind \in TerminalKinds}
           /\ \A r, q \in Starts(capture) : r.id = q.id => r = q
           /\ \A r, q \in Terminals(capture) : r.id = q.id => r = q
           /\ \A r \in Starts(capture) \cup Terminals(capture) : r.seq \in Nat \ {0}
           /\ \A r, q \in Starts(capture) \cup Terminals(capture) : r.seq = q.seq => r = q
<1>1. \A r, q \in Starts(capture) : r.id = q.id => r.seq = q.seq
    BY DEF Starts, FirstOf, IsCapture
<1>2. \A r, q \in Terminals(capture) : r.id = q.id => r.seq = q.seq
    BY DEF Terminals, FirstOf, IsCapture
<1> QED
    BY <1>1, <1>2 DEF Starts, Terminals, FirstOf, IsCapture

(* The terminal of a start, when there is one.                              *)
Settling(start, terminals) == {t \in terminals : Settles(t, start)}

LEMMA ObservationFacts ==
    ASSUME NEW start, NEW terminals, NEW o, o = Observation(start, terminals)
    PROVE  /\ o.id = start.id /\ o.mode = Mode(start) /\ o.tool = start.tool /\ o.who = start.who
           /\ o.parent = start.parent /\ o.start = start.seq /\ o.input = start.value
           /\ Settling(start, terminals) = {} =>
                  /\ o.outcome = "missing" /\ o.terminal = 0 /\ o.result = "omitted"
                  /\ o.omitted <=> start.value = "omitted"
           /\ Settling(start, terminals) # {} =>
                  \E t \in Settling(start, terminals) :
                      /\ o.outcome = t.outcome /\ o.terminal = t.seq
                      /\ o.result = IF Mode(start) = "code_mode" THEN "unsupported" ELSE t.value
                      /\ o.omitted <=> start.value = "omitted"
                                       \/ (Mode(start) = "native" /\ t.value = "omitted")
<1> DEFINE settling == Settling(start, terminals)
           t == CHOOSE x \in settling : TRUE
<1>1. o = [id |-> start.id, mode |-> Mode(start), tool |-> start.tool, who |-> start.who,
           parent |-> start.parent, start |-> start.seq,
           outcome |-> IF settling = {} THEN "missing" ELSE t.outcome,
           terminal |-> IF settling = {} THEN 0 ELSE t.seq,
           input |-> start.value,
           result |-> IF settling = {} THEN "omitted"
                      ELSE IF Mode(start) = "code_mode" THEN "unsupported" ELSE t.value,
           omitted |-> \/ start.value = "omitted"
                       \/ settling # {} /\ Mode(start) = "native" /\ t.value = "omitted"]
    BY DEF Observation, Settling
<1>2. settling # {} => t \in settling
    OBVIOUS
<1> HIDE DEF settling, t
<1>3. /\ o.id = start.id /\ o.mode = Mode(start) /\ o.tool = start.tool /\ o.who = start.who
      /\ o.parent = start.parent /\ o.start = start.seq /\ o.input = start.value
      /\ o.outcome = (IF settling = {} THEN "missing" ELSE t.outcome)
      /\ o.terminal = (IF settling = {} THEN 0 ELSE t.seq)
      /\ o.result = (IF settling = {} THEN "omitted"
                      ELSE IF Mode(start) = "code_mode" THEN "unsupported" ELSE t.value)
      /\ o.omitted = (\/ start.value = "omitted"
                      \/ settling # {} /\ Mode(start) = "native" /\ t.value = "omitted")
    BY <1>1
<1> QED
    BY <1>2, <1>3 DEF settling

(* What makes evidence invalid, and what makes it complete, in terms of the *)
(* capture alone.                                                           *)
Malformed(capture) ==
    \/ capture.issues \cap InvalidIssues # {}
    \/ capture.records # Starts(capture) \cup Terminals(capture)
    \/ \E s \in Starts(capture) : s.kind = "code_start" /\ ~CodeParentIsObserved(s, Starts(capture))
    \/ \E t \in Terminals(capture) : ~\E s \in Starts(capture) : Settles(t, s)

Perfect(capture) ==
    /\ capture.issues = {} /\ capture.ended /\ ~capture.failures
    /\ ~Malformed(capture)
    /\ \A s \in Starts(capture) :
           /\ s.value # "omitted"
           /\ \E t \in Settling(s, Terminals(capture)) : ~(s.kind = "native_start" /\ t.value = "omitted")

ObservationsOf(capture) == {Observation(s, Terminals(capture)) : s \in Starts(capture)}

AccountOf(capture, process) ==
    Account(ObservationsOf(capture), Malformed(capture), capture.ended, capture.failures,
            capture.issues \ InvalidIssues # {}, process)

LEMMA BuiltFields ==
    ASSUME NEW capture, NEW process
    PROVE  LET e == BuildRuntimeEvidence(capture, process)
               invalidCapture == \/ capture.issues \cap InvalidIssues # {}
                                 \/ capture.records # Starts(capture) \cup Terminals(capture) IN
           /\ e.status = AccountOf(capture, process).status
           /\ e.boundary = AccountOf(capture, process).boundary
           /\ e.observations = ObservationsOf(capture)
           /\ e.closed = capture.ended /\ e.failures = capture.failures
           /\ e.process = process /\ e.counts_known = capture.started
           /\ e.losses = capture.issues \cup AccountOf(capture, process).issues
                         \cup IF invalidCapture THEN {"malformed_observation"} ELSE {}
BY DEF BuildRuntimeEvidence, AccountOf, ObservationsOf, Malformed, Starts, Terminals

LEMMA BuiltAccount ==
    ASSUME NEW capture, IsCapture(capture), NEW process \in ProcessStates
    PROVE  /\ IsAccount(AccountOf(capture, process), ObservationsOf(capture), Malformed(capture),
                        Whole(capture.ended, capture.failures, capture.issues \ InvalidIssues # {}, process))
           /\ \A o \in ObservationsOf(capture) : o.mode \in {"native", "code_mode"}
<1>1. /\ Malformed(capture) \in BOOLEAN
      /\ capture.ended \in BOOLEAN
      /\ capture.failures \in BOOLEAN
    BY DEF Malformed, IsCapture
<1>2. IsAccount(AccountOf(capture, process), ObservationsOf(capture), Malformed(capture),
                Whole(capture.ended, capture.failures, capture.issues \ InvalidIssues # {}, process))
    BY <1>1, AccountBoundaries DEF AccountOf
<1>3. \A o \in ObservationsOf(capture) : o.mode \in {"native", "code_mode"}
    BY ObservationFacts DEF ObservationsOf, Mode
<1> QED
    BY <1>2, <1>3

(* Evidence is invalid exactly for a malformed capture, and complete        *)
(* exactly for a perfect one of a process that completed.                   *)
LEMMA BuiltStatus ==
    ASSUME NEW capture, IsCapture(capture), NEW process \in ProcessStates,
           NEW status, status = BuildRuntimeEvidence(capture, process).status
    PROVE  /\ status \in {"complete", "incomplete", "invalid"}
           /\ status = "invalid" <=> Malformed(capture)
           /\ status = "complete" <=> process = "completed" /\ Perfect(capture)
<1> DEFINE whole == Whole(capture.ended, capture.failures, capture.issues \ InvalidIssues # {}, process)
           losses == capture.issues \ InvalidIssues # {}
           observations == ObservationsOf(capture)
<1>1. /\ status \in {"complete", "incomplete", "invalid"}
      /\ status = "invalid" <=> Malformed(capture)
      /\ status = "complete" <=> ~Malformed(capture) /\ whole /\ Unsettled(observations) = {}
    <2>1. Malformed(capture) \in BOOLEAN /\ whole \in BOOLEAN
        BY DEF Malformed, Whole, IsCapture
    <2>2. status = AccountOf(capture, process).status
        BY BuiltFields
    <2>3. /\ IsAccount(AccountOf(capture, process), observations, Malformed(capture), whole)
          /\ \A o \in observations : o.mode \in {"native", "code_mode"}
        BY BuiltAccount
    <2> HIDE DEF whole, observations
    <2>4. LET account == AccountOf(capture, process) IN
          /\ account.status \in {"complete", "incomplete", "invalid"}
          /\ account.status = "invalid" <=> Malformed(capture)
          /\ account.status = "complete" <=>
                 ~Malformed(capture) /\ whole /\ Unsettled(observations) = {}
        BY <2>1, <2>3, AccountStatus, ZenonT(60)
    <2> QED
        BY <2>2, <2>4
<1>2. \A s \in Starts(capture) :
          Observation(s, Terminals(capture)) \notin Unsettled(observations) <=>
              /\ s.value # "omitted"
              /\ \E t \in Settling(s, Terminals(capture)) : ~(s.kind = "native_start" /\ t.value = "omitted")
    <2> TAKE s \in Starts(capture)
    <2> DEFINE o == Observation(s, Terminals(capture))
               settling == Settling(s, Terminals(capture))
    <2>1. o \in observations
        BY DEF ObservationsOf
    <2>2. \A t, u \in settling : t = u
        BY FirstOfFacts DEF Settling, Settles
    <2>3. Mode(s) = "native" <=> s.kind = "native_start"
        BY DEF Mode
    <2>4. /\ settling = {} => o.outcome = "missing"
          /\ settling # {} => \E t \in settling :
                 /\ o.outcome = t.outcome
                 /\ o.omitted <=> s.value = "omitted" \/ (s.kind = "native_start" /\ t.value = "omitted")
        BY <2>3, ObservationFacts
    <2>5. \A t \in settling : t.outcome # "missing"
        BY DEF Settling, Settles
    <2> HIDE DEF o, settling
    <2>6. o \notin Unsettled(observations) <=> ~o.omitted /\ o.outcome # "missing"
        BY <2>1 DEF Unsettled
    <2> QED
        BY <2>2, <2>4, <2>5, <2>6 DEF o, settling
<1>3. Unsettled(observations) = {} <=>
          \A s \in Starts(capture) : Observation(s, Terminals(capture)) \notin Unsettled(observations)
    BY DEF Unsettled, ObservationsOf
<1>4. ~Malformed(capture) => (capture.issues \ InvalidIssues = {} <=> capture.issues = {})
    BY DEF Malformed
<1> QED
    BY <1>1, <1>2, <1>3, <1>4 DEF Whole, Perfect

(***************************************************************************)
(* Its own validator and the host accept what the builder makes.           *)
(***************************************************************************)

LEMMA BuiltObservationsAreConsistent ==
    ASSUME NEW capture, IsCapture(capture), NEW process \in ProcessStates
    PROVE  ObservationsAreConsistent(BuildRuntimeEvidence(capture, process))
<1> DEFINE e == BuildRuntimeEvidence(capture, process)
           starts == Starts(capture)
           terminals == Terminals(capture)
<1>1. e.observations = {Observation(s, terminals) : s \in starts}
    BY BuiltFields DEF ObservationsOf
<1>2. e.status # "invalid" => ~Malformed(capture)
    BY BuiltStatus
<1>3. /\ \A s \in starts : s.kind \in StartKinds /\ s.seq \in Nat \ {0}
      /\ \A t \in terminals : t.kind \in TerminalKinds /\ t.seq \in Nat \ {0}
      /\ \A s \in starts, t \in terminals : s.seq # t.seq
      /\ \A r, q \in starts : r.id = q.id => r = q
      /\ \A r, q \in starts : r.seq = q.seq => r = q
      /\ \A r, q \in terminals : r.seq = q.seq => r = q
    BY FirstOfFacts DEF StartKinds, TerminalKinds
<1> HIDE DEF e, starts, terminals
<1>4. ASSUME NEW s \in starts, Observation(s, terminals).outcome # "missing"
      PROVE  \E t \in terminals : Settles(t, s) /\ Observation(s, terminals).terminal = t.seq
    BY <1>4, ObservationFacts DEF Settling
<1>5. ASSUME NEW r \in starts, NEW s \in starts, Observation(r, terminals) # Observation(s, terminals)
      PROVE  r.id # s.id /\ r.seq # s.seq
    BY <1>3, <1>5
<1>6. ASSUME NEW o \in e.observations, NEW x \in e.observations \ {o}
      PROVE  x.id # o.id /\ x.start # o.start
    <2>1. PICK s \in starts : o = Observation(s, terminals)
        BY <1>1
    <2>2. PICK r \in starts : x = Observation(r, terminals)
        BY <1>1
    <2>3. r.id # s.id /\ r.seq # s.seq
        BY <1>5, <2>1, <2>2
    <2> QED
        BY <2>1, <2>2, <2>3, ObservationFacts
<1>7. ASSUME NEW o \in e.observations, o.outcome # "missing"
      PROVE  /\ o.terminal > o.start
             /\ \A x \in e.observations : x.start # o.terminal /\ (x # o => x.terminal # o.terminal)
    <2>1. PICK s \in starts : o = Observation(s, terminals)
        BY <1>1
    <2>2. PICK t \in terminals : Settles(t, s) /\ o.terminal = t.seq
        BY <1>4, <1>7, <2>1
    <2>3. o.start = s.seq /\ t.seq > s.seq
        BY <2>1, <2>2, ObservationFacts DEF Settles
    <2>4. ASSUME NEW x \in e.observations
          PROVE  x.start # o.terminal
        <3>1. PICK r \in starts : x = Observation(r, terminals)
            BY <1>1
        <3> QED
            BY <1>3, <2>2, <3>1, ObservationFacts
    <2>5. ASSUME NEW x \in e.observations, x # o
          PROVE  x.terminal # o.terminal
        <3>1. PICK r \in starts : x = Observation(r, terminals)
            BY <1>1
        <3>2. CASE x.outcome = "missing"
            <4>1. x.terminal = 0
                <5>1. ASSUME Settling(r, terminals) # {}
                      PROVE  x.outcome # "missing"
                    <6>1. PICK u \in Settling(r, terminals) : x.outcome = u.outcome
                        BY <3>1, <5>1, ObservationFacts
                    <6> QED
                        BY <6>1 DEF Settling, Settles
                <5> QED
                    BY <3>1, <3>2, <5>1, ObservationFacts
            <4> QED
                BY <1>3, <2>2, <4>1
        <3>3. CASE x.outcome # "missing"
            <4>1. PICK u \in terminals : Settles(u, r) /\ x.terminal = u.seq
                BY <1>4, <3>1, <3>3
            <4>2. r.id # s.id
                BY <1>5, <2>1, <2>5, <3>1
            <4>3. u # t
                BY <2>2, <4>1, <4>2 DEF Settles
            <4> QED
                BY <1>3, <2>2, <4>1, <4>3
        <3> QED
            BY <3>2, <3>3
    <2> QED
        BY <2>2, <2>3, <2>4, <2>5
<1>8. ASSUME NEW o \in e.observations, o.mode = "code_mode", e.status # "invalid"
      PROVE  \E outer \in OuterOf(o, e) :
                 outer.mode = "native" /\ outer.tool \in {"execute", "hidden"} /\ outer.who = o.who
    <2>1. PICK s \in starts : o = Observation(s, terminals)
        BY <1>1
    <2>2. o.parent = s.parent /\ o.start = s.seq /\ o.who = s.who /\ Mode(s) = "code_mode"
        BY <1>8, <2>1, ObservationFacts
    <2>3. s.kind = "code_start"
        BY <1>3, <2>2 DEF Mode, StartKinds
    <2>4. CodeParentIsObserved(s, starts)
        BY <1>2, <1>8, <2>3 DEF Malformed, starts
    <2>5. PICK r \in starts : /\ r.id = s.parent /\ r.kind = "native_start" /\ r.seq < s.seq
                              /\ r.tool \in {"execute", "hidden"} /\ r.who = s.who
        BY <2>4 DEF CodeParentIsObserved
    <2> DEFINE outer == Observation(r, terminals)
    <2>6. outer \in e.observations
        BY <1>1
    <2>7. /\ outer.id = r.id /\ outer.start = r.seq /\ outer.mode = "native"
          /\ outer.tool = r.tool /\ outer.who = r.who
        BY <2>5, ObservationFacts DEF Mode
    <2> HIDE DEF outer
    <2>8. outer \in OuterOf(o, e)
        BY <2>2, <2>5, <2>6, <2>7 DEF OuterOf
    <2> QED
        BY <2>2, <2>5, <2>7, <2>8
<1>9. ObservationsAreConsistent(e)
    BY <1>6, <1>7, <1>8 DEF ObservationsAreConsistent
<1> QED
    BY <1>9 DEF e

(* The builder's own validator accepts what it builds, whatever was         *)
(* captured: it recomputes the same account from the losses that the object *)
(* names (build_runtime_evidence against validate_runtime_evidence).        *)
LEMMA BuiltEvidenceValidates ==
    ASSUME NEW capture, IsCapture(capture), NEW process \in ProcessStates
    PROVE  Validates(BuildRuntimeEvidence(capture, process))
<1> DEFINE e == BuildRuntimeEvidence(capture, process)
           account == AccountOf(capture, process)
           losses == capture.issues \ InvalidIssues # {}
           whole == Whole(capture.ended, capture.failures, losses, process)
           invalidCapture == \/ capture.issues \cap InvalidIssues # {}
                             \/ capture.records # Starts(capture) \cup Terminals(capture)
           recounted == Account(e.observations, e.losses \cap InvalidIssues # {}, e.closed,
                                e.failures, e.losses \cap CountedLosses # {}, e.process)
<1>1. /\ e.status = account.status /\ e.boundary = account.boundary
      /\ e.observations = ObservationsOf(capture)
      /\ e.closed = capture.ended /\ e.failures = capture.failures
      /\ e.process = process /\ e.counts_known = capture.started
      /\ e.losses = capture.issues \cup account.issues
                    \cup IF invalidCapture THEN {"malformed_observation"} ELSE {}
    BY BuiltFields
<1>2. /\ account.issues \subseteq {"malformed_observation", "observation_not_closed", "observer_failure",
             "observation_loss", "runtime_timeout", "process_interrupted", "missing_terminal",
             "required_field_omitted"}
      /\ "malformed_observation" \in account.issues <=> Malformed(capture)
    BY DEF AccountOf, Account
<1> HIDE DEF e, account
<1>3. e.losses \cap InvalidIssues # {} <=> Malformed(capture)
    <2>1. Malformed(capture) => "malformed_observation" \in e.losses
        BY <1>1, <1>2
    <2>2. ASSUME NEW code \in e.losses \cap InvalidIssues
          PROVE  Malformed(capture)
        <3>1. CASE code \in capture.issues
            BY <3>1, <2>2 DEF Malformed
        <3>2. CASE code \in account.issues
            BY <1>2, <2>2, <3>2 DEF InvalidIssues
        <3>3. CASE invalidCapture
            BY <3>3 DEF Malformed
        <3> QED
            BY <1>1, <2>2, <3>1, <3>2, <3>3
    <2> QED
        BY <2>1, <2>2 DEF InvalidIssues
<1>4. ~Malformed(capture) => (e.losses \cap CountedLosses # {} <=> losses)
    <2> SUFFICES ASSUME ~Malformed(capture)
                 PROVE  e.losses \cap CountedLosses = capture.issues \ InvalidIssues
        OBVIOUS
    <2>1. capture.issues \cap InvalidIssues = {} /\ ~invalidCapture
        BY DEF Malformed
    <2>2. capture.issues \subseteq {"missing_capture_end", "empty_capture", "capture_io_error"}
        BY <2>1 DEF IsCapture
    <2>3. e.losses = capture.issues \cup account.issues
        BY <1>1, <2>1
    <2> QED
        BY <1>2, <2>1, <2>2, <2>3 DEF CountedLosses
<1>5. IsAccount(account, ObservationsOf(capture), Malformed(capture), whole)
    BY BuiltAccount DEF account
<1>6. IsAccount(recounted, ObservationsOf(capture), Malformed(capture),
                Whole(capture.ended, capture.failures, e.losses \cap CountedLosses # {}, process))
    <2>1. /\ (e.losses \cap InvalidIssues # {}) = Malformed(capture)
          /\ Malformed(capture) \in BOOLEAN
          /\ capture.ended \in BOOLEAN /\ capture.failures \in BOOLEAN
        BY <1>3 DEF Malformed, IsCapture
    <2>2. recounted = Account(ObservationsOf(capture), Malformed(capture), capture.ended,
                              capture.failures, e.losses \cap CountedLosses # {}, process)
        BY <1>1, <2>1
    <2> HIDE DEF recounted
    <2> QED
        BY <2>1, <2>2, AccountBoundaries
<1> HIDE DEF recounted
<1>7. recounted.boundary = account.boundary /\ recounted.status = account.status
    <2>1. CASE Malformed(capture) \/ ~whole
        <3>1. Malformed(capture)
              \/ (~Malformed(capture) /\ ~Whole(capture.ended, capture.failures,
                                                e.losses \cap CountedLosses # {}, process))
            BY <1>4, <2>1 DEF Whole
        <3> DEFINE status == IF Malformed(capture) THEN "invalid" ELSE "incomplete"
        <3>2. /\ account.boundary \in [ObservedBoundaries -> {"complete", "incomplete", "invalid"}]
              /\ {account.boundary[b] : b \in ObservedBoundaries} = {status}
              /\ account.status = Worst({status}, "complete")
            BY <1>5, <2>1 DEF IsAccount
        <3>3. /\ recounted.boundary \in [ObservedBoundaries -> {"complete", "incomplete", "invalid"}]
              /\ {recounted.boundary[b] : b \in ObservedBoundaries} = {status}
              /\ recounted.status = Worst({status}, "complete")
            BY <1>6, <3>1 DEF IsAccount
        <3> HIDE DEF status
        <3>4. \A b \in ObservedBoundaries : account.boundary[b] = recounted.boundary[b]
            BY <3>2, <3>3
        <3> QED
            BY <3>2, <3>3, <3>4
    <2>2. CASE ~Malformed(capture) /\ whole
        <3>1. Whole(capture.ended, capture.failures, e.losses \cap CountedLosses # {}, process)
            BY <1>4, <2>2 DEF Whole
        <3>2. /\ account.boundary \in [ObservedBoundaries -> {"complete", "incomplete", "invalid"}]
              /\ recounted.boundary \in [ObservedBoundaries -> {"complete", "incomplete", "invalid"}]
              /\ \A b \in ObservedBoundaries : account.boundary[b] = recounted.boundary[b]
            BY <1>5, <1>6, <2>2, <3>1 DEF IsAccount
        <3>3. account.boundary = recounted.boundary
            BY <3>2
        <3> QED
            BY <1>5, <1>6, <3>3 DEF IsAccount
    <2> QED
        BY <2>1, <2>2
<1>8. e.counts_known \/ (e.status \in {"incomplete", "invalid"} /\ e.losses # {})
    <2> SUFFICES ASSUME ~capture.started
                 PROVE  e.status \in {"incomplete", "invalid"} /\ e.losses # {}
        BY <1>1 DEF IsCapture
    <2>1. capture.issues # {}
        BY DEF IsCapture
    <2>2. ~Perfect(capture)
        BY <2>1 DEF Perfect
    <2> QED
        BY <1>1, <2>1, <2>2, BuiltStatus DEF e
<1>9. ObservationsAreConsistent(e)
    BY BuiltObservationsAreConsistent DEF e
<1> QED
    BY <1>1, <1>7, <1>8, <1>9 DEF Validates, e, recounted

(* And the host's model of evidence has its shape.                          *)
LEMMA BuiltEvidenceHasAShape ==
    ASSUME NEW capture, IsCapture(capture), NEW process \in ProcessStates
    PROVE  ShapeOf(BuildRuntimeEvidence(capture, process)) \in Evidence
<1> DEFINE e == BuildRuntimeEvidence(capture, process)
           shape == ShapeOf(e)
           observed == {e.boundary[b] : b \in ObservedBoundaries}
           whole == Whole(capture.ended, capture.failures, capture.issues \ InvalidIssues # {}, process)
           account == AccountOf(capture, process)
<1>1. /\ e.status = account.status /\ e.boundary = account.boundary
      /\ e.observations = ObservationsOf(capture)
      /\ e.process = process /\ e.counts_known = capture.started
    BY BuiltFields
<1>2. IsAccount(account, ObservationsOf(capture), Malformed(capture), whole)
    BY BuiltAccount
<1> HIDE DEF e, account
<1>3. /\ e.boundary \in [ObservedBoundaries -> {"complete", "incomplete", "invalid"}]
      /\ e.status = Worst(observed, "complete")
      /\ Malformed(capture) => observed = {"invalid"}
      /\ ~Malformed(capture) /\ ~whole => observed = {"incomplete"}
    BY <1>1, <1>2 DEF IsAccount
<1>4. ~Malformed(capture) /\ whole => \A b \in ObservedBoundaries :
          e.boundary[b] = IF \E o \in Unsettled(e.observations) : BoundaryOf(o) = b
                          THEN "incomplete" ELSE "complete"
    BY <1>1, <1>2 DEF IsAccount
<1>5. e.status \in {"complete", "incomplete", "invalid"}
    BY BuiltStatus DEF e
<1>6. FieldsReadiness(e.observations, ObservationFields) \in {"ready", "incomplete", "unsupported"}
      /\ (e.observations = {} => FieldsReadiness(e.observations, ObservationFields) = "ready")
    <2> DEFINE states == {FieldReadiness(o)[f] : o \in e.observations, f \in ObservationFields}
    <2>1. ASSUME NEW o \in e.observations
          PROVE  o.start > 0
        <3>1. PICK s \in Starts(capture) : o = Observation(s, Terminals(capture))
            BY <1>1 DEF ObservationsOf
        <3>2. o.start = s.seq
            BY <3>1, ObservationFacts
        <3> QED
            BY <3>2, FirstOfFacts
    <2>2. ASSUME NEW o \in e.observations, NEW f \in ObservationFields
          PROVE  FieldReadiness(o)[f] \in {"ready", "incomplete", "unsupported"}
        BY <2>1 DEF FieldReadiness, CheckFieldReadiness, ObservationFields
    <2>3. states \subseteq {"ready", "incomplete", "unsupported"}
        BY <2>2
    <2>4. e.observations = {} => states = {}
        OBVIOUS
    <2> HIDE DEF states
    <2>5. Worst(states, "ready") \in {"ready", "incomplete", "unsupported"}
          /\ (e.observations = {} => Worst(states, "ready") = "ready")
        BY <2>3, <2>4 DEF Worst
    <2> QED
        BY <2>5 DEF FieldsReadiness, states
<1> DEFINE boundary == [b \in Boundaries |->
               IF b \in ObservedBoundaries THEN e.boundary[b] ELSE "unsupported"]
           empty == e.observations = {} /\ e.counts_known
           field == FieldsReadiness(e.observations, ObservationFields)
<1>7. shape = [status |-> e.status, boundary |-> boundary, empty |-> empty, field |-> field,
               process |-> process]
    BY <1>1 DEF ShapeOf
<1>8. /\ boundary \in [Boundaries -> Statuses]
      /\ boundary["code_mode_finality"] = "unsupported"
      /\ \A b \in ObservedBoundaries : boundary[b] = e.boundary[b]
    BY <1>3 DEF Boundaries, ObservedBoundaries, Statuses
<1>9. empty \in BOOLEAN /\ e.status \in Statuses
    BY <1>1, <1>5 DEF Statuses, IsCapture
<1> HIDE DEF boundary, empty, field, shape
<1>10. shape \in EvidenceShape
    BY <1>6, <1>7, <1>8, <1>9 DEF EvidenceShape, field, ProcessStates
<1>11. /\ shape.status = e.status /\ shape.boundary = boundary /\ shape.empty = empty
       /\ shape.field = field /\ shape.process = process
    BY <1>7
<1>12. {boundary[b] : b \in ObservedBoundaries} = observed
    BY <1>8
<1>13. "unsupported" \notin observed
    BY <1>3
<1>14. "invalid" \in observed \/ empty => \E status : observed = {status}
    <2>1. "native" \in ObservedBoundaries
        BY DEF ObservedBoundaries
    <2>2. CASE Malformed(capture) \/ ~whole
        BY <1>3, <2>2
    <2>3. CASE ~Malformed(capture) /\ whole
        <3>1. "invalid" \notin observed
            BY <1>4, <2>3
        <3>2. empty => \A b \in ObservedBoundaries : e.boundary[b] = "complete"
            BY <1>4, <2>3 DEF empty, Unsettled
        <3>3. empty => observed = {"complete"}
            BY <2>1, <3>2
        <3> QED
            BY <3>1, <3>3
    <2> QED
        BY <2>2, <2>3
<1>15. "invalid" \in observed \/ empty => Cardinality(observed) = 1
    BY <1>14, FS_Singleton
<1>16. process # "completed" => observed \in {{"incomplete"}, {"invalid"}}
    BY <1>3 DEF Whole
<1>17. empty => field = "ready"
    BY <1>6 DEF empty, field
<1>18. ValidateRuntimeEvidence(shape)
    <2>1. process # "unsupported"
        BY DEF ProcessStates
    <2> HIDE DEF observed
    <2> QED
        BY <1>3, <1>8, <1>11, <1>12, <1>13, <1>15, <1>16, <1>17, <2>1 DEF ValidateRuntimeEvidence
<1>19. shape \in Evidence
    BY <1>10, <1>18 DEF Evidence
<1> QED
    BY <1>19 DEF shape, e

(***************************************************************************)
(* The loader.                                                             *)
(***************************************************************************)

(* A line as the loader reads it.                                           *)
IsLine(line) ==
    /\ line.seq \in Nat
    /\ line.kind = "capture_end" => line.failures \in BOOLEAN /\ line.totals \in [ToolKinds -> Nat]

IsStream(stream) ==
    /\ Len(stream) \in Nat /\ DOMAIN stream = 1..Len(stream)
    /\ \A i \in DOMAIN stream : IsLine(stream[i])

(* The least element of a set of positions.                                 *)
LEMMA MinFacts ==
    ASSUME NEW S \in SUBSET Nat, S # {}
    PROVE  Min(S) \in S /\ \A x \in S : Min(S) <= x
<1>1. \E x \in S : \A y \in S : <<y, x>> \notin OpToRel(<, Nat)
    BY NatLessThanWellFounded, WFMin
<1>2. PICK x \in S : \A y \in S : ~(y < x)
    BY <1>1 DEF OpToRel
<1>3. \A y \in S : x <= y
    BY <1>2
<1> QED
    BY <1>3 DEF Min

LEMMA EndAtFacts ==
    ASSUME NEW stream, IsStream(stream)
    PROVE  /\ EndAt(stream) \in Nat
           /\ EndLines(stream) = {} => EndAt(stream) = Len(stream) + 1
           /\ EndLines(stream) # {} => /\ EndAt(stream) \in EndLines(stream)
                                       /\ \A i \in EndLines(stream) : EndAt(stream) <= i
                                       /\ EndAt(stream) \in 2..Len(stream)
                                       /\ stream[EndAt(stream)].kind = "capture_end"
           /\ \A i \in Body(stream) : i \in 2..Len(stream) /\ i < EndAt(stream) /\ stream[i].seq = i - 1
           /\ \A r \in Records(stream) : \E i \in Body(stream) : r = stream[i] /\ r.kind \in ToolKinds
<1>1. EndLines(stream) \in SUBSET Nat
    BY DEF EndLines, IsStream
<1>2. EndLines(stream) # {} => Min(EndLines(stream)) \in EndLines(stream)
                               /\ \A i \in EndLines(stream) : Min(EndLines(stream)) <= i
    BY <1>1, MinFacts
<1>3. \A i \in EndLines(stream) : i \in 2..Len(stream) /\ stream[i].kind = "capture_end"
    BY DEF EndLines
<1>4. EndLines(stream) # {} => EndAt(stream) = Min(EndLines(stream))
    BY DEF EndAt
<1>5. EndLines(stream) = {} => EndAt(stream) = Len(stream) + 1
    BY DEF EndAt
<1>6. Len(stream) \in Nat
    BY DEF IsStream
<1>7. EndAt(stream) \in Nat /\ EndAt(stream) <= Len(stream) + 1
    BY <1>2, <1>3, <1>4, <1>5, <1>6
<1>8. \A i \in Body(stream) : i \in 2..Len(stream) /\ i < EndAt(stream) /\ stream[i].seq = i - 1
    BY <1>6, <1>7 DEF Body, Usable
<1>9. \A r \in Records(stream) : \E i \in Body(stream) : r = stream[i] /\ r.kind \in ToolKinds
    BY DEF Records
<1> QED
    BY <1>2, <1>3, <1>4, <1>5, <1>7, <1>8, <1>9

(* A record is at the place its sequence number says.                       *)
LEMMA RecordsAreOrdered ==
    ASSUME NEW stream, IsStream(stream)
    PROVE  /\ \A r \in Records(stream) :
                  /\ r.seq + 1 \in Body(stream) /\ r = stream[r.seq + 1]
                  /\ r.seq \in Nat \ {0} /\ r.kind \in ToolKinds
           /\ \A r, q \in Records(stream) : r.seq = q.seq => r = q
<1>1. ASSUME NEW r \in Records(stream)
      PROVE  /\ r.seq + 1 \in Body(stream) /\ r = stream[r.seq + 1]
             /\ r.seq \in Nat \ {0} /\ r.kind \in ToolKinds
    <2>1. PICK i \in Body(stream) : r = stream[i] /\ r.kind \in ToolKinds
        BY EndAtFacts
    <2>2. i \in 2..Len(stream) /\ stream[i].seq = i - 1 /\ Len(stream) \in Nat
        BY EndAtFacts DEF IsStream
    <2> QED
        BY <2>1, <2>2
<1> QED
    BY <1>1

LoadIssueCodes ==
    {"unterminated_capture", "malformed_capture", "wrong_schema", "ambiguous_order",
     "invalid_capture_start", "records_after_capture_end", "invalid_record", "missing_capture_end",
     "count_mismatch"}

LEMMA LoadIssuesFacts ==
    ASSUME NEW stream, NEW terminated
    PROVE  /\ LoadIssues(stream, terminated) \subseteq LoadIssueCodes
           /\ "unterminated_capture" \in LoadIssues(stream, terminated) <=> ~terminated
           /\ "malformed_capture" \in LoadIssues(stream, terminated) <=>
                  \E i \in DOMAIN stream :
                      \/ stream[i].form = "malformed"
                      \/ stream[i].form = "ok" /\ stream[i].seq = i - 1 /\ ~stream[i].counted
           /\ "wrong_schema" \in LoadIssues(stream, terminated) <=>
                  \E i \in DOMAIN stream : stream[i].form = "wrong_schema"
           /\ "ambiguous_order" \in LoadIssues(stream, terminated) <=>
                  \E i \in DOMAIN stream : stream[i].form = "ok" /\ stream[i].seq # i - 1
           /\ "invalid_capture_start" \in LoadIssues(stream, terminated) <=> ~Started(stream)
           /\ "records_after_capture_end" \in LoadIssues(stream, terminated) <=>
                  \E i \in DOMAIN stream : i > EndAt(stream) /\ Usable(stream, i)
           /\ "invalid_record" \in LoadIssues(stream, terminated) <=>
                  \E i \in Body(stream) : stream[i].kind \notin ToolKinds
           /\ "missing_capture_end" \in LoadIssues(stream, terminated) <=> EndLines(stream) = {}
           /\ "count_mismatch" \in LoadIssues(stream, terminated) <=> CountsDiffer(stream)
BY DEF LoadIssues, LoadIssueCodes

(* Whatever was received, what is loaded is a capture.                      *)
LEMMA LoadedIsACapture ==
    ASSUME NEW stream, IsStream(stream), NEW terminated
    PROVE  IsCapture(Load(stream, terminated))
<1> DEFINE c == Load(stream, terminated)
<1>1. CASE stream = <<>>
    BY <1>1 DEF Load, EmptyCapture, IsCapture
<1>2. CASE stream # <<>> /\ Len(stream) > MaxRecords
    BY <1>2 DEF Load, EmptyCapture, IsCapture, InvalidIssues
<1>3. CASE stream # <<>> /\ ~(Len(stream) > MaxRecords)
    <2>1. c = [started |-> Started(stream), ended |-> EndLines(stream) # {}, records |-> Records(stream),
               failures |-> EndLines(stream) # {} /\ stream[EndAt(stream)].failures,
               issues |-> LoadIssues(stream, terminated)]
        BY <1>3 DEF Load
    <2>2. EndLines(stream) # {} => stream[EndAt(stream)].failures \in BOOLEAN
        BY EndAtFacts DEF IsStream, IsLine
    <2>3. /\ c.started = Started(stream) /\ c.ended = (EndLines(stream) # {})
          /\ c.records = Records(stream)
          /\ c.failures = (EndLines(stream) # {} /\ stream[EndAt(stream)].failures)
          /\ c.issues = LoadIssues(stream, terminated)
        BY <2>1
    <2>4. Started(stream) \in BOOLEAN
        BY DEF Started, Usable
    <2>5. {c.started, c.ended, c.failures} \subseteq BOOLEAN
        BY <2>2, <2>3, <2>4
    <2>6. ~Started(stream) => LoadIssues(stream, terminated) # {}
        BY LoadIssuesFacts
    <2>7. LoadIssues(stream, terminated) \subseteq LoadIssueCodes
        BY LoadIssuesFacts
    <2>8. LoadIssueCodes \subseteq InvalidIssues \cup {"missing_capture_end"}
        BY DEF LoadIssueCodes, InvalidIssues
    <2> HIDE DEF c
    <2> QED
        BY <2>3, <2>5, <2>6, <2>7, <2>8, RecordsAreOrdered DEF IsCapture, c
<1> QED
    BY <1>1, <1>2, <1>3

(***************************************************************************)
(* A capture that grows.                                                   *)
(***************************************************************************)

Extends(new, old) ==
    /\ Len(old) \in Nat \ {0} /\ Len(new) = Len(old) + 1
    /\ \A i \in 1..Len(old) : new[i] = old[i]

LEMMA GrowingEnd ==
    ASSUME NEW old, NEW new, IsStream(old), IsStream(new), Extends(new, old)
    PROVE  /\ EndLines(old) = {i \in EndLines(new) : i <= Len(old)}
           /\ EndLines(old) # {} => EndAt(new) = EndAt(old)
           /\ EndLines(old) = {} => EndAt(new) > Len(old)
           /\ EndAt(old) <= EndAt(new)
<1>1. Len(old) \in Nat \ {0} /\ Len(new) = Len(old) + 1 /\ \A i \in 1..Len(old) : new[i] = old[i]
    BY DEF Extends
<1>2. \A i \in 2..Len(old) : i \in EndLines(old) <=> i \in EndLines(new)
    BY <1>1 DEF EndLines, Usable
<1>3. /\ \A i \in EndLines(old) : i \in 2..Len(old)
      /\ \A i \in EndLines(new) : i \in 2..Len(new)
    BY DEF EndLines
<1>4. EndLines(old) = {i \in EndLines(new) : i <= Len(old)}
    BY <1>1, <1>2, <1>3
<1>5. /\ EndAt(old) \in Nat /\ EndAt(new) \in Nat
      /\ EndLines(old) = {} => EndAt(old) = Len(old) + 1
      /\ EndLines(new) = {} => EndAt(new) = Len(new) + 1
      /\ EndLines(old) # {} => EndAt(old) \in EndLines(old) /\ \A i \in EndLines(old) : EndAt(old) <= i
      /\ EndLines(new) # {} => EndAt(new) \in EndLines(new) /\ \A i \in EndLines(new) : EndAt(new) <= i
    BY EndAtFacts
<1>6. CASE EndLines(old) # {}
    <2>1. EndAt(old) \in EndLines(new) /\ EndAt(old) <= Len(old)
        BY <1>4, <1>5, <1>6
    <2>2. EndAt(new) \in EndLines(new) /\ EndAt(new) <= EndAt(old)
        BY <1>5, <2>1
    <2>3. EndAt(new) \in EndLines(old)
        BY <1>1, <1>4, <1>5, <2>1, <2>2
    <2> QED
        BY <1>4, <1>5, <1>6, <2>2, <2>3
<1>7. CASE EndLines(old) = {}
    <2>1. EndAt(new) > Len(old)
        BY <1>1, <1>3, <1>4, <1>5, <1>7
    <2> QED
        BY <1>1, <1>4, <1>5, <1>7, <2>1
<1> QED
    BY <1>6, <1>7

(* What was recorded stays recorded, and what comes later has a larger      *)
(* sequence number.                                                        *)
LEMMA GrowingRecords ==
    ASSUME NEW old, NEW new, IsStream(old), IsStream(new), Extends(new, old)
    PROVE  /\ Body(old) = {i \in Body(new) : i <= Len(old)}
           /\ Records(old) \subseteq Records(new)
           /\ \A r \in Records(old), q \in Records(new) : q.seq <= r.seq => q \in Records(old)
<1>1. Len(old) \in Nat \ {0} /\ Len(new) = Len(old) + 1 /\ \A i \in 1..Len(old) : new[i] = old[i]
    BY DEF Extends
<1>2. EndAt(old) \in Nat /\ EndAt(new) \in Nat /\ EndAt(old) <= Len(old) + 1
    BY <1>1, EndAtFacts
<1>3. /\ EndLines(old) # {} => EndAt(new) = EndAt(old)
      /\ EndLines(old) = {} => EndAt(new) > Len(old) /\ EndAt(old) = Len(old) + 1
    BY GrowingEnd, EndAtFacts
<1>4. \A i \in 2..Len(old) : i < EndAt(old) <=> i < EndAt(new)
    BY <1>1, <1>2, <1>3
<1>5. \A i \in 2..Len(old) : Usable(old, i) <=> Usable(new, i)
    BY <1>1 DEF Usable
<1>6. Body(old) = {i \in Body(new) : i <= Len(old)}
    <2>1. \A i \in Body(old) : i \in 2..Len(old) /\ i < EndAt(old) /\ Usable(old, i)
        BY EndAtFacts DEF Body
    <2>2. \A i \in Body(new) : i \in 2..Len(new) /\ i < EndAt(new) /\ Usable(new, i)
        BY EndAtFacts DEF Body
    <2>3. \A i \in 2..Len(old) : i < EndAt(old) /\ Usable(old, i) => i \in Body(old)
        BY <1>1, <1>2 DEF Body
    <2>4. \A i \in 2..Len(new) : i < EndAt(new) /\ Usable(new, i) => i \in Body(new)
        BY <1>1, <1>2 DEF Body
    <2> QED
        BY <1>1, <1>4, <1>5, <2>1, <2>2, <2>3, <2>4
<1>7. \A i \in Body(old) : i \in 1..Len(old) /\ new[i] = old[i]
    BY <1>1, <1>6, EndAtFacts
<1>8. Records(old) \subseteq Records(new)
    BY <1>6, <1>7 DEF Records
<1>9. ASSUME NEW r \in Records(old), NEW q \in Records(new), q.seq <= r.seq
      PROVE  q \in Records(old)
    <2>1. /\ r.seq + 1 \in Body(old) /\ r.seq \in Nat
          /\ q.seq + 1 \in Body(new) /\ q.seq \in Nat /\ q = new[q.seq + 1] /\ q.kind \in ToolKinds
        BY RecordsAreOrdered
    <2>2. q.seq + 1 \in Body(old)
        BY <1>1, <1>6, <1>9, <2>1
    <2> QED
        BY <1>7, <2>1, <2>2 DEF Records
<1> QED
    BY <1>6, <1>8, <1>9

LEMMA GrowingIssues ==
    ASSUME NEW old, NEW new, IsStream(old), IsStream(new), Extends(new, old)
    PROVE  LoadIssues(old, TRUE) \cap InvalidIssues \subseteq LoadIssues(new, TRUE)
<1>1. /\ Len(old) \in Nat \ {0} /\ Len(new) = Len(old) + 1 /\ \A i \in 1..Len(old) : new[i] = old[i]
      /\ DOMAIN old = 1..Len(old) /\ DOMAIN new = 1..Len(new)
    BY DEF Extends, IsStream
<1>2. \A i \in DOMAIN old : i \in DOMAIN new /\ new[i] = old[i] /\ (Usable(old, i) <=> Usable(new, i))
    BY <1>1 DEF Usable
<1>3. Started(old) <=> Started(new)
    BY <1>1, <1>2 DEF Started
<1>4. EndLines(old) # {} => EndAt(new) = EndAt(old) /\ EndLines(new) # {} /\ EndAt(old) \in DOMAIN old
    BY <1>1, GrowingEnd, EndAtFacts
<1>5. ASSUME NEW i \in DOMAIN old, i > EndAt(old)
      PROVE  EndAt(new) = EndAt(old)
    <2>1. EndLines(old) # {}
        BY <1>1, <1>5, EndAtFacts
    <2> QED
        BY <1>4, <2>1
<1>6. CountsDiffer(old) => CountsDiffer(new)
    <2> SUFFICES ASSUME CountsDiffer(old)
                 PROVE  CountsDiffer(new)
        OBVIOUS
    <2>1. EndLines(old) # {} /\ old[EndAt(old)].totals # CountsOf(Records(old))
        BY DEF CountsDiffer
    <2>2. Records(new) = Records(old)
        <3>1. Body(new) = Body(old)
            <4>1. \A i \in Body(new) : i < EndAt(new) /\ i \in 2..Len(new)
                BY EndAtFacts
            <4>2. \A i \in Body(new) : i <= Len(old)
                BY <1>1, <1>4, <2>1, <4>1
            <4> QED
                BY <4>2, GrowingRecords
        <3>2. \A i \in Body(old) : new[i] = old[i]
            BY <1>2, EndAtFacts DEF IsStream
        <3> QED
            BY <3>1, <3>2 DEF Records
    <2> QED
        BY <1>2, <1>4, <2>1, <2>2 DEF CountsDiffer
<1>7. \A i \in Body(old) : i \in Body(new) /\ i \in DOMAIN old
    BY <1>1, GrowingRecords, EndAtFacts
<1> DEFINE before == LoadIssues(old, TRUE)
           after == LoadIssues(new, TRUE)
<1>8. "malformed_capture" \in before => "malformed_capture" \in after
    <2> SUFFICES ASSUME "malformed_capture" \in before
                 PROVE  "malformed_capture" \in after
        OBVIOUS
    <2>1. PICK i \in DOMAIN old :
              \/ old[i].form = "malformed"
              \/ old[i].form = "ok" /\ old[i].seq = i - 1 /\ ~old[i].counted
        BY LoadIssuesFacts
    <2>2. i \in DOMAIN new /\ new[i] = old[i]
        BY <1>2
    <2> QED
        BY <2>1, <2>2, LoadIssuesFacts
<1>9. "wrong_schema" \in before => "wrong_schema" \in after
    <2> SUFFICES ASSUME "wrong_schema" \in before
                 PROVE  "wrong_schema" \in after
        OBVIOUS
    <2>1. PICK i \in DOMAIN old : old[i].form = "wrong_schema"
        BY LoadIssuesFacts
    <2>2. i \in DOMAIN new /\ new[i] = old[i]
        BY <1>2
    <2> QED
        BY <2>1, <2>2, LoadIssuesFacts
<1>10. "ambiguous_order" \in before => "ambiguous_order" \in after
    <2> SUFFICES ASSUME "ambiguous_order" \in before
                 PROVE  "ambiguous_order" \in after
        OBVIOUS
    <2>1. PICK i \in DOMAIN old : old[i].form = "ok" /\ old[i].seq # i - 1
        BY LoadIssuesFacts
    <2>2. i \in DOMAIN new /\ new[i] = old[i]
        BY <1>2
    <2> QED
        BY <2>1, <2>2, LoadIssuesFacts
<1>11. "invalid_capture_start" \in before => "invalid_capture_start" \in after
    BY <1>3, LoadIssuesFacts
<1>12. "records_after_capture_end" \in before => "records_after_capture_end" \in after
    <2> SUFFICES ASSUME "records_after_capture_end" \in before
                 PROVE  "records_after_capture_end" \in after
        OBVIOUS
    <2>1. PICK i \in DOMAIN old : i > EndAt(old) /\ Usable(old, i)
        BY LoadIssuesFacts
    <2>2. i \in DOMAIN new /\ i > EndAt(new) /\ Usable(new, i)
        BY <1>2, <1>5, <2>1
    <2> QED
        BY <2>2, LoadIssuesFacts
<1>13. "invalid_record" \in before => "invalid_record" \in after
    <2> SUFFICES ASSUME "invalid_record" \in before
                 PROVE  "invalid_record" \in after
        OBVIOUS
    <2>1. PICK i \in Body(old) : old[i].kind \notin ToolKinds
        BY LoadIssuesFacts
    <2>2. i \in Body(new) /\ new[i].kind \notin ToolKinds
        BY <1>2, <1>7, <2>1
    <2> QED
        BY <2>2, LoadIssuesFacts
<1>14. "count_mismatch" \in before => "count_mismatch" \in after
    BY <1>6, LoadIssuesFacts
<1>15. "unterminated_capture" \notin before /\ before \subseteq LoadIssueCodes
    BY LoadIssuesFacts
<1>16. LoadIssueCodes \cap InvalidIssues \subseteq
           {"malformed_capture", "wrong_schema", "ambiguous_order", "invalid_capture_start",
            "records_after_capture_end", "invalid_record", "count_mismatch", "unterminated_capture"}
    BY DEF LoadIssueCodes, InvalidIssues
<1> HIDE DEF before, after
<1>17. ASSUME NEW code \in before \cap InvalidIssues
       PROVE  code \in after
    BY <1>8, <1>9, <1>10, <1>11, <1>12, <1>13, <1>14, <1>15, <1>16
<1> QED
    BY <1>17 DEF before, after

LEMMA GrowingFirsts ==
    ASSUME NEW old, NEW new, IsStream(old), IsStream(new), Extends(new, old),
           NEW kinds
    PROVE  LET before == FirstOf(Records(old), kinds)
               after == FirstOf(Records(new), kinds) IN
           /\ before = {r \in after : r \in Records(old)}
           /\ \A r \in Records(old), q \in after : q.seq <= r.seq => q \in before
<1>1. /\ Records(old) \subseteq Records(new)
      /\ \A r \in Records(old), q \in Records(new) : q.seq <= r.seq => q \in Records(old)
      /\ \A r \in Records(new) : r.seq \in Nat
      /\ \A r \in Records(old) : r.seq \in Nat
    BY GrowingRecords, RecordsAreOrdered
<1>2. FirstOf(Records(old), kinds) = {r \in FirstOf(Records(new), kinds) : r \in Records(old)}
    <2>1. ASSUME NEW r \in FirstOf(Records(old), kinds), NEW q \in Records(new), q.kind \in kinds, q.id = r.id
          PROVE  r.seq <= q.seq
        <3>1. CASE q \in Records(old)
            BY <2>1, <3>1 DEF FirstOf
        <3>2. CASE q \notin Records(old)
            <4>1. r \in Records(old)
                BY DEF FirstOf
            <4>2. ~(q.seq <= r.seq) /\ r.seq \in Nat /\ q.seq \in Nat
                BY <1>1, <3>2, <4>1
            <4> QED
                BY <4>2
        <3> QED
            BY <3>1, <3>2
    <2> QED
        BY <1>1, <2>1 DEF FirstOf
<1>3. \A r \in Records(old), q \in FirstOf(Records(new), kinds) : q.seq <= r.seq => q \in Records(old)
    BY <1>1 DEF FirstOf
<1> QED
    BY <1>2, <1>3

(* No later line repairs a malformed capture.                               *)
LEMMA MalformedStaysMalformed ==
    ASSUME NEW old, NEW new, IsStream(old), IsStream(new), Extends(new, old),
           Malformed(Load(old, TRUE))
    PROVE  Malformed(Load(new, TRUE))
<1> DEFINE before == Load(old, TRUE)
           after == Load(new, TRUE)
<1>1. Len(old) \in Nat \ {0} /\ Len(new) = Len(old) + 1 /\ MaxRecords \in Nat
    BY MaxRecordsAssumption DEF Extends
<1>2. old # <<>> /\ new # <<>>
    BY <1>1
<1>3. CASE Len(new) > MaxRecords
    <2>1. after.issues = {"malformed_capture"}
        BY <1>2, <1>3 DEF Load, EmptyCapture
    <2> QED
        BY <2>1 DEF Malformed, InvalidIssues
<1>4. CASE ~(Len(new) > MaxRecords)
    <2>1. ~(Len(old) > MaxRecords)
        BY <1>1, <1>4
    <2>2. /\ before.records = Records(old) /\ before.issues = LoadIssues(old, TRUE)
          /\ after.records = Records(new) /\ after.issues = LoadIssues(new, TRUE)
        BY <1>2, <1>4, <2>1 DEF Load
    <2> HIDE DEF before, after
    <2>3. /\ Starts(before) = {r \in Starts(after) : r \in Records(old)}
          /\ \A r \in Records(old), q \in Starts(after) : q.seq <= r.seq => q \in Starts(before)
          /\ Terminals(before) = {r \in Terminals(after) : r \in Records(old)}
        BY <2>2, GrowingFirsts DEF Starts, Terminals
    <2>4. Records(old) \subseteq Records(new) /\ \A r \in Records(old) : r.seq \in Nat
        BY GrowingRecords, RecordsAreOrdered
    <2>5. \A r \in Records(new) : r.seq \in Nat
        BY RecordsAreOrdered
    <2>6. CASE before.issues \cap InvalidIssues # {}
        <3>1. LoadIssues(old, TRUE) \cap InvalidIssues \subseteq LoadIssues(new, TRUE)
            BY GrowingIssues
        <3>2. after.issues \cap InvalidIssues # {}
            BY <2>2, <2>6, <3>1
        <3> QED
            BY <3>2 DEF Malformed, after
    <2>7. CASE before.records # Starts(before) \cup Terminals(before)
        <3>1. Starts(before) \cup Terminals(before) \subseteq before.records
            BY DEF Starts, Terminals, FirstOf
        <3>2. PICK r \in Records(old) : r \notin Starts(before) \cup Terminals(before)
            BY <2>2, <2>7, <3>1
        <3>3. r \in Records(new) /\ r \notin Starts(after) \cup Terminals(after)
            BY <2>3, <2>4, <3>2
        <3> QED
            BY <2>2, <3>3 DEF Malformed, after
    <2>8. CASE \E s \in Starts(before) : s.kind = "code_start" /\ ~CodeParentIsObserved(s, Starts(before))
        <3>1. PICK s \in Starts(before) :
                  s.kind = "code_start" /\ ~CodeParentIsObserved(s, Starts(before))
            BY <2>8
        <3>2. s \in Starts(after) /\ s \in Records(old)
            BY <2>3
        <3>3. ASSUME CodeParentIsObserved(s, Starts(after))
              PROVE  FALSE
            <4>1. PICK outer \in Starts(after) :
                      /\ outer.id = s.parent /\ outer.kind = "native_start"
                      /\ outer.boundary = "tool-execute-before"
                      /\ outer.seq < s.seq
                      /\ outer.tool \in {"execute", "hidden"}
                      /\ outer.who = s.who
                BY <3>3 DEF CodeParentIsObserved
            <4>2. outer.seq \in Nat /\ s.seq \in Nat
                BY <2>2, <2>4, <2>5, <3>2 DEF Starts, FirstOf
            <4>3. outer \in Starts(before)
                BY <2>3, <3>2, <4>1, <4>2
            <4> QED
                BY <3>1, <4>1, <4>3 DEF CodeParentIsObserved
        <3> QED
            BY <3>1, <3>2, <3>3 DEF Malformed, after
    <2>9. CASE \E t \in Terminals(before) : ~\E s \in Starts(before) : Settles(t, s)
        <3>1. PICK t \in Terminals(before) : ~\E s \in Starts(before) : Settles(t, s)
            BY <2>9
        <3>2. t \in Terminals(after) /\ t \in Records(old)
            BY <2>3
        <3>3. ASSUME NEW s \in Starts(after), Settles(t, s)
              PROVE  FALSE
            <4>1. t.seq > s.seq
                BY <3>3 DEF Settles
            <4>2. s.seq \in Nat /\ t.seq \in Nat
                BY <2>2, <2>4, <2>5, <3>2 DEF Starts, FirstOf
            <4>3. s \in Starts(before)
                BY <2>3, <3>2, <4>1, <4>2
            <4> QED
                BY <3>1, <3>3, <4>3
        <3> QED
            BY <3>2, <3>3 DEF Malformed, after
    <2> QED
        BY <2>6, <2>7, <2>8, <2>9 DEF Malformed, before
<1> QED
    BY <1>1, <1>3, <1>4
=============================================================================
