---------------------------- MODULE EvalRunProofs ----------------------------
(***************************************************************************)
(* Proofs about EvalRun, for all requests and any number of faults.        *)
(***************************************************************************)
EXTENDS EvalRun, FiniteSetTheorems, TLAPS

Statuses == {"planned", "not-run", "error"} \cup Classifications

---------------------------------------------------------------------------
(* The inductive invariant: what is known of each job at each stage.        *)

Untold(j) == statuses[j] = "planned" /\ disk[j] = "absent"
Fresh(j) == work[j] = "queued" /\ Untold(j)

(* A job whose artifact was written and read again.                         *)
Kept(j) ==
    /\ work[j] \in Classifications /\ statuses[j] \in Classifications
    /\ j \notin disturbed => disk[j] = work[j] /\ statuses[j] = work[j]

(* A job of the lane that is being persisted.                               *)
Passed(j) == Kept(j) \/ (work[j] = "raised" /\ Untold(j))
Ahead(j) ==
    /\ work[j] \in Classifications \cup {"raised"} /\ statuses[j] = "planned"
    /\ IF j = cursor /\ written
       THEN work[j] \in Classifications /\ (j \notin disturbed => disk[j] = work[j])
       ELSE disk[j] = "absent"
InPersistence(j) == IF j < cursor THEN Passed(j) ELSE Ahead(j)

(* A job of a run that has its final statuses.                              *)
Settled(j) ==
    \/ Kept(j)
    \/ work[j] = "raised" /\ disk[j] = "absent" /\ statuses[j] = "error"
    \/ work[j] = "queued" /\ disk[j] = "absent" /\ statuses[j] = "not-run"

Early == {"discover", "claim", "announce"}
Closing == {"summary", "final", "render", "exit"}

JobsFollowTheStage ==
    \A j \in Jobs :
        /\ stage \in Early => Fresh(j)
        /\ stage = "standard" => IF Lane(j) = "standard" THEN Untold(j) ELSE Fresh(j)
        /\ stage = "persist_standard" => IF Lane(j) = "standard" THEN InPersistence(j) ELSE Fresh(j)
        /\ stage = "runtime" => IF Lane(j) = "standard" THEN Kept(j) ELSE Untold(j)
        /\ stage = "persist_runtime" => IF Lane(j) = "standard" THEN Kept(j) ELSE InPersistence(j)
        /\ stage \in Closing => Settled(j)

NothingIsDisturbedEarly == stage \in Early => cursor = 1 /\ disturbed = {}

(* An artifact that is written and not yet read again is the cursor's.      *)
WrittenIsPersistable ==
    written /\ stage # "over" => \E lane \in Lanes : Persistable(lane)

(* What the last pass over the artifacts has read, it has found unchanged.  *)
HasBeenRead(j) ==
    \/ stage = LastPass /\ j < cursor
    \/ stage = "final" /\ ~Rendered
    \/ stage = "exit"
ReadIsUnchanged ==
    \A j \in Jobs \ late : HasBeenRead(j) /\ statuses[j] \in Verdicts => disk[j] = statuses[j]

(* The final manifest is the last word on the statuses, and a report is     *)
(* written only of a run without errors.                                    *)
ManifestIsFinal ==
    /\ Ended => stage \in {"render", "exit", "over"}
    /\ stage \in {"render", "exit"} => manifest = [status |-> Outcome, jobs |-> statuses]
    /\ stage = "render" => Rendered /\ (cursor > 1 => manifest.status # "error")
    /\ stage = "exit" /\ Rendered => report = manifest.status
    /\ stage # "over" => exit = "none"

DisturbanceIsCounted == faults = 0 => disturbed = {}

ProgressInv ==
    /\ JobsFollowTheStage /\ NothingIsDisturbedEarly /\ WrittenIsPersistable
    /\ ReadIsUnchanged /\ ManifestIsFinal /\ DisturbanceIsCounted
PromiseInv == RuntimeLaneIsGated /\ ManifestTellsTheRun /\ OnlyFaultsLeaveARunOpen
RunInv == TypeOK /\ ProgressInv /\ PromiseInv

---------------------------------------------------------------------------
(* What RunPlan computes, for any suite.  Only is a recursive function; that *)
(* there is such a function and what it collects is proved by the least     *)
(* place at which it would fail.                                            *)

LEMMA LeastFacts ==
    ASSUME NEW S \in SUBSET Nat, S # {}
    PROVE  \E x \in S : \A y \in S : x <= y
<1>1. \E x \in S : \A y \in S : <<y, x>> \notin OpToRel(<, Nat)
  BY NatLessThanWellFounded, WFMin
<1>2. PICK x \in S : \A y \in S : ~(y < x)
  BY <1>1 DEF OpToRel
<1> QED
  BY <1>2

IsPass(s, keep, n, p) ==
    p = [i \in 0..n |-> IF i = 0 THEN <<>>
                        ELSE IF i \in keep THEN Append(p[i - 1], s[i]) ELSE p[i - 1]]

LEMMA PassExists ==
    ASSUME NEW s, NEW keep, NEW n \in Nat
    PROVE  \E p : IsPass(s, keep, n, p)
<1> DEFINE Bad == {m \in Nat : ~ \E p : IsPass(s, keep, m, p)}
<1> SUFFICES ASSUME Bad # {} PROVE FALSE
  OBVIOUS
<1>1. PICK m \in Bad : \A y \in Bad : m <= y
  <2>1. Bad \in SUBSET Nat
    OBVIOUS
  <2> QED
    BY <2>1, LeastFacts
<1>2. CASE m = 0
  <2> DEFINE p == [i \in 0..0 |-> <<>>]
  <2>1. IsPass(s, keep, 0, p)
    BY DEF IsPass
  <2> QED
    BY <1>1, <1>2, <2>1
<1>3. CASE m # 0
  <2>1. m - 1 \in Nat /\ m - 1 \notin Bad
    BY <1>1, <1>3
  <2>2. PICK p : IsPass(s, keep, m - 1, p)
    BY <2>1
  <2> DEFINE q == [i \in 0..m |-> IF i = m THEN IF m \in keep THEN Append(p[m - 1], s[m]) ELSE p[m - 1]
                                  ELSE p[i]]
  <2>3. \A i \in 0..(m - 1) : p[i] = IF i = 0 THEN <<>>
                        ELSE IF i \in keep THEN Append(p[i - 1], s[i]) ELSE p[i - 1]
    BY <2>2 DEF IsPass
  <2>4. \A i \in 0..m : q[i] = IF i = 0 THEN <<>>
                        ELSE IF i \in keep THEN Append(q[i - 1], s[i]) ELSE q[i - 1]
    BY <1>3, <2>1, <2>3
  <2>5. IsPass(s, keep, m, q)
    BY <2>4, Zenon DEF IsPass
  <2> QED
    BY <1>1, <2>5
<1> QED
  BY <1>2, <1>3

LEMMA OnlyIsPass ==
    ASSUME NEW s, NEW keep, Len(s) \in Nat
    PROVE  \E p : IsPass(s, keep, Len(s), p) /\ Only(s, keep) = p[Len(s)]
<1> DEFINE step(p) == p = [n \in 0..Len(s) |-> IF n = 0 THEN <<>>
                        ELSE IF n \in keep THEN Append(p[n - 1], s[n]) ELSE p[n - 1]]
<1>1. \E p : step(p)
  <2>1. PICK p : IsPass(s, keep, Len(s), p)
    BY PassExists
  <2>2. step(p)
    BY <2>1, Zenon DEF IsPass
  <2> QED
    BY <2>2
<1>2. step(CHOOSE p : step(p))
  BY <1>1, Zenon
<1>3. Only(s, keep) = (CHOOSE p : step(p))[Len(s)]
  BY Zenon DEF Only
<1> QED
  BY <1>2, <1>3, Zenon DEF IsPass

(* The sequence q holds the members of s at the positions kept, in order;   *)
(* e tells where each of them comes from.                                   *)
Gathers(q, s, kept, e) ==
    /\ e \in [1..Len(q) -> kept]
    /\ \A k \in 1..Len(q) : q[k] = s[e[k]]
    /\ \A i, j \in 1..Len(q) : i < j => e[i] < e[j]
    /\ \A m \in kept : \E k \in 1..Len(q) : e[k] = m

LEMMA GatherNext ==
    ASSUME NEW T, NEW q \in Seq(T), NEW s, NEW kept \in SUBSET Nat, NEW e, Gathers(q, s, kept, e),
           NEW n \in Nat, \A m \in kept : m < n, s[n] \in T
    PROVE  \E f : Gathers(Append(q, s[n]), s, kept \cup {n}, f)
<1> DEFINE L == Len(q)
           r == Append(q, s[n])
           f == [k \in 1..(L + 1) |-> IF k = L + 1 THEN n ELSE e[k]]
<1>1. L \in Nat /\ Len(r) = L + 1
  OBVIOUS
<1>2. r[L + 1] = s[n] /\ \A k \in 1..L : r[k] = q[k]
  OBVIOUS
<1>3. /\ \A k \in 1..L : e[k] \in kept /\ q[k] = s[e[k]]
      /\ \A i, j \in 1..L : i < j => e[i] < e[j]
      /\ \A m \in kept : \E k \in 1..L : e[k] = m
  BY DEF Gathers
<1> HIDE DEF L, r
<1>4. f[L + 1] = n /\ \A k \in 1..L : f[k] = e[k]
  BY <1>1
<1>5. \A k \in 1..(L + 1) : k = L + 1 \/ k \in 1..L
  BY <1>1
<1>6. f \in [1..(L + 1) -> kept \cup {n}]
  BY <1>3, <1>4, <1>5
<1> HIDE DEF f
<1>7. \A k \in 1..(L + 1) : r[k] = s[f[k]]
  BY <1>2, <1>3, <1>4, <1>5
<1>8. \A i, j \in 1..(L + 1) : i < j => f[i] < f[j]
  <2> SUFFICES ASSUME NEW i \in 1..(L + 1), NEW j \in 1..(L + 1), i < j
               PROVE  f[i] < f[j]
    OBVIOUS
  <2>1. i \in 1..L
    BY <1>1
  <2>2. CASE j = L + 1
    BY <1>3, <1>4, <2>1, <2>2
  <2>3. CASE j \in 1..L
    BY <1>3, <1>4, <2>1, <2>3
  <2> QED
    BY <1>5, <2>2, <2>3
<1>9. \A m \in kept \cup {n} : \E k \in 1..(L + 1) : f[k] = m
  <2>1. \A k \in 1..L : k \in 1..(L + 1)
    BY <1>1
  <2>2. L + 1 \in 1..(L + 1)
    BY <1>1
  <2> QED
    BY <1>3, <1>4, <2>1, <2>2
<1>10. Gathers(r, s, kept \cup {n}, f)
  BY <1>1, <1>6, <1>7, <1>8, <1>9 DEF Gathers
<1> QED
  BY <1>10 DEF r

(* A pass collects just what it is to keep, in order.                       *)
LEMMA OnlyFacts ==
    ASSUME NEW T, NEW s \in Seq(T), NEW keep \in SUBSET DOMAIN s
    PROVE  /\ Only(s, keep) \in Seq(T)
           /\ \E e : Gathers(Only(s, keep), s, keep, e)
<1> DEFINE upto(n) == keep \cap 1..n
<1>1. Len(s) \in Nat /\ DOMAIN s = 1..Len(s) /\ \A i \in 1..Len(s) : s[i] \in T
  OBVIOUS
<1>2. PICK p : IsPass(s, keep, Len(s), p) /\ Only(s, keep) = p[Len(s)]
  BY <1>1, OnlyIsPass
<1>3. \A i \in 0..Len(s) : p[i] = IF i = 0 THEN <<>>
                        ELSE IF i \in keep THEN Append(p[i - 1], s[i]) ELSE p[i - 1]
  BY <1>2, Zenon DEF IsPass
<1> DEFINE Good(n) == p[n] \in Seq(T) /\ \E e : Gathers(p[n], s, upto(n), e)
           Bad == {n \in 0..Len(s) : ~Good(n)}
<1>4. Good(0)
  <2>1. p[0] = <<>> /\ upto(0) = {}
    BY <1>1, <1>3
  <2>2. Gathers(<<>>, s, {}, <<>>)
    BY DEF Gathers
  <2>3. <<>> \in Seq(T)
    OBVIOUS
  <2> QED
    BY <2>1, <2>2, <2>3, Zenon
<1>5. ASSUME NEW n \in 1..Len(s), Good(n - 1)
      PROVE  Good(n)
  <2>1. n \in Nat /\ n # 0 /\ n \in 0..Len(s) /\ s[n] \in T
    BY <1>1
  <2>2. PICK e : Gathers(p[n - 1], s, upto(n - 1), e)
    BY <1>5, Zenon
  <2>3. CASE n \in keep
    <3>1. p[n] = Append(p[n - 1], s[n])
      BY <1>3, <2>1, <2>3
    <3>2. upto(n) = upto(n - 1) \cup {n} /\ upto(n - 1) \in SUBSET Nat /\ \A m \in upto(n - 1) : m < n
      BY <2>1, <2>3
    <3> HIDE DEF upto
    <3>3. \E f : Gathers(Append(p[n - 1], s[n]), s, upto(n - 1) \cup {n}, f)
      BY <1>5, <2>1, <2>2, <3>2, GatherNext
    <3>4. p[n] \in Seq(T)
      BY <1>5, <2>1, <3>1
    <3> QED
      BY <3>1, <3>2, <3>3, <3>4
  <2>4. CASE n \notin keep
    <3>1. p[n] = p[n - 1]
      BY <1>3, <2>1, <2>4
    <3>2. upto(n) = upto(n - 1)
      BY <1>1, <2>1, <2>4
    <3> HIDE DEF upto
    <3> QED
      BY <1>5, <3>1, <3>2
  <2> QED
    BY <2>3, <2>4
<1>6. Bad = {}
  <2> SUFFICES ASSUME Bad # {} PROVE FALSE
    OBVIOUS
  <2> HIDE DEF Good
  <2>1. Bad \in SUBSET Nat
    BY <1>1
  <2>2. PICK n \in Bad : \A m \in Bad : n <= m
    BY <2>1, LeastFacts
  <2>3. n # 0 /\ n \in 0..Len(s) /\ ~Good(n)
    BY <1>4, <2>2
  <2>4. n \in 1..Len(s) /\ n - 1 \in 0..Len(s) /\ ~(n <= n - 1)
    BY <1>1, <2>3
  <2>5. Good(n - 1)
    BY <2>2, <2>4
  <2> QED
    BY <1>5, <2>3, <2>4, <2>5
<1>7. upto(Len(s)) = keep
  BY <1>1
<1>8. Good(Len(s))
  <2> HIDE DEF Good
  <2> QED
    BY <1>1, <1>6
<1> HIDE DEF upto
<1> QED
  BY <1>2, <1>7, <1>8

(* How a place k of the expanded jobs splits into a case and an iteration.  *)
LEMMA Division ==
    ASSUME NEW m \in Nat, m >= 1
    PROVE  /\ \A a \in Nat : a \div m \in Nat /\ a % m \in 0..(m - 1) /\ a = (m * (a \div m)) + (a % m)
           /\ \A c \in Nat, i \in 0..(m - 1) : ((c * m) + i) \div m = c /\ ((c * m) + i) % m = i
           /\ \A c, d \in Nat : c < d => (c * m) + m <= d * m
           /\ \A a, n \in Nat : a < n * m => a \div m < n
<1>1. ASSUME NEW a \in Nat
      PROVE  a \div m \in Nat /\ a % m \in 0..(m - 1) /\ a = (m * (a \div m)) + (a % m)
  OBVIOUS
<1>2. ASSUME NEW c \in Nat, NEW i \in 0..(m - 1)
      PROVE  ((c * m) + i) \div m = c /\ ((c * m) + i) % m = i
  OBVIOUS
<1>3. ASSUME NEW c \in Nat, NEW d \in Nat, c < d
      PROVE  (c * m) + m <= d * m
  BY <1>3
<1>4. ASSUME NEW a \in Nat, NEW n \in Nat, a < n * m
      PROVE  a \div m < n
  BY <1>4
<1> QED
  BY <1>1, <1>2, <1>3, <1>4

CaseAt(k, m) == ((k - 1) \div m) + 1

(* E holds the iterations of each of the cases, in order.                   *)
Unfolds(E, cases, m) ==
    /\ \A k \in DOMAIN E : CaseAt(k, m) \in DOMAIN cases /\ E[k].case = cases[CaseAt(k, m)]
    /\ \A i, j \in DOMAIN E : i < j =>
           \/ CaseAt(i, m) < CaseAt(j, m)
           \/ CaseAt(i, m) = CaseAt(j, m) /\ E[i].iteration < E[j].iteration
    /\ \A c \in DOMAIN cases, i \in 1..m : \E k \in DOMAIN E : CaseAt(k, m) = c /\ E[k].iteration = i

LEMMA ExpandedFacts ==
    ASSUME NEW C, NEW cases \in Seq(C), NEW m \in Nat, m >= 1, NEW E, E = Expanded(cases, m)
    PROVE  E \in Seq([case: C, iteration: 1..m]) /\ Unfolds(E, cases, m)
<1> DEFINE L == Len(cases)
           N == L * m
<1>1. L \in Nat /\ DOMAIN cases = 1..L /\ \A c \in 1..L : cases[c] \in C
  OBVIOUS
<1> HIDE DEF L
<1>2. N \in Nat
  BY <1>1
<1>3. E = [k \in 1..N |-> [case |-> cases[((k - 1) \div m) + 1], iteration |-> ((k - 1) % m) + 1]]
  BY DEF Expanded, L
<1>4. \A k \in 1..N : /\ CaseAt(k, m) \in 1..L
                      /\ ((k - 1) % m) + 1 \in 1..m
  <2> SUFFICES ASSUME NEW k \in 1..N
               PROVE  CaseAt(k, m) \in 1..L /\ ((k - 1) % m) + 1 \in 1..m
    OBVIOUS
  <2>1. k - 1 \in Nat /\ k - 1 < L * m
    BY <1>2
  <2>2. (k - 1) \div m \in Nat /\ (k - 1) \div m < L /\ (k - 1) % m \in 0..(m - 1)
    BY <1>1, <2>1, Division
  <2> QED
    BY <1>1, <2>2 DEF CaseAt
<1> HIDE DEF N
<1>5. \A k \in 1..N : /\ E[k].case = cases[CaseAt(k, m)]
                      /\ E[k].iteration = ((k - 1) % m) + 1
                      /\ E[k] \in [case: C, iteration: 1..m]
  BY <1>1, <1>3, <1>4 DEF CaseAt
<1>6. DOMAIN E = 1..N /\ E \in [1..N -> [case: C, iteration: 1..m]]
  BY <1>3, <1>5
<1>7. E \in Seq([case: C, iteration: 1..m])
  <2> DEFINE J == [case: C, iteration: 1..m]
  <2> HIDE DEF J
  <2>1. E \in [1..N -> J]
    BY <1>6 DEF J
  <2>2. E \in Seq(J)
    BY <1>2, <2>1
  <2> QED
    BY <2>2 DEF J
<1>8. ASSUME NEW i \in 1..N, NEW j \in 1..N, i < j
      PROVE  \/ CaseAt(i, m) < CaseAt(j, m)
             \/ CaseAt(i, m) = CaseAt(j, m) /\ E[i].iteration < E[j].iteration
  <2> DEFINE a == i - 1
             b == j - 1
             c == a \div m
             d == b \div m
             s == a % m
             t == b % m
  <2>1. a \in Nat /\ b \in Nat /\ a < b
    BY <1>2, <1>8
  <2> HIDE DEF a, b
  <2>2. c \in Nat /\ s \in 0..(m - 1) /\ a = (m * c) + s /\ d \in Nat /\ t \in 0..(m - 1) /\ b = (m * d) + t
    BY <2>1, Division
  <2>3. d < c => (d * m) + m <= c * m
    BY <2>2, Division
  <2> HIDE DEF c, d, s, t
  <2>4. ~(d < c) /\ (c = d => s < t)
    BY <2>1, <2>2, <2>3
  <2>5. c < d \/ (c = d /\ s < t)
    BY <2>2, <2>4
  <2>6. CaseAt(i, m) = c + 1 /\ CaseAt(j, m) = d + 1 /\ E[i].iteration = s + 1 /\ E[j].iteration = t + 1
    BY <1>5 DEF CaseAt, a, b, c, d, s, t
  <2> QED
    BY <2>2, <2>5, <2>6
<1>9. ASSUME NEW c \in 1..L, NEW i \in 1..m
      PROVE  \E k \in 1..N : CaseAt(k, m) = c /\ E[k].iteration = i
  <2> DEFINE a == ((c - 1) * m) + (i - 1)
  <2>1. c - 1 \in Nat /\ i - 1 \in 0..(m - 1) /\ c - 1 < L
    BY <1>1
  <2>2. a \div m = c - 1 /\ a % m = i - 1
    BY <2>1, Division
  <2>3. ((c - 1) * m) + m <= L * m
    BY <1>1, <2>1, Division
  <2>4. (c - 1) * m \in Nat
    BY <2>1
  <2>5. a \in Nat /\ a + 1 <= N
    BY <1>1, <2>1, <2>3, <2>4 DEF N
  <2> HIDE DEF a
  <2>6. a + 1 \in 1..N /\ (a + 1) - 1 = a
    BY <1>2, <2>5
  <2>7. CaseAt(a + 1, m) = c /\ E[a + 1].iteration = i
    BY <1>5, <2>2, <2>6 DEF CaseAt
  <2> QED
    BY <2>6, <2>7
<1>10. DOMAIN E = 1..N /\ DOMAIN cases = 1..L
  BY <1>1, <1>6
<1>12. \A k \in DOMAIN E : CaseAt(k, m) \in DOMAIN cases /\ E[k].case = cases[CaseAt(k, m)]
  BY <1>4, <1>5, <1>10
<1>13. \A c \in DOMAIN cases, i \in 1..m :
              \E k \in DOMAIN E : CaseAt(k, m) = c /\ E[k].iteration = i
  BY <1>9, <1>10
<1>11. \A i, j \in DOMAIN E : i < j =>
           \/ CaseAt(i, m) < CaseAt(j, m)
           \/ CaseAt(i, m) = CaseAt(j, m) /\ E[i].iteration < E[j].iteration
  BY <1>6, <1>8
<1> QED
  BY <1>7, <1>11, <1>12, <1>13 DEF Unfolds

(* The positions of the suite that a request asks for.                      *)
Wanted(r) == IF r.all THEN DOMAIN r.suite ELSE Named(r)

LEMMA SelectedFacts ==
    ASSUME NEW C, NEW r, r.suite \in Seq(C), r.all \in BOOLEAN
    PROVE  /\ Selected(r) \in Seq(C)
           /\ \E e : Gathers(Selected(r), r.suite, Wanted(r), e)
<1>1. CASE r.all
  <2> DEFINE s == r.suite
             e == [k \in 1..Len(s) |-> k]
  <2>1. s \in Seq(C) /\ DOMAIN s = 1..Len(s)
    OBVIOUS
  <2> HIDE DEF s
  <2>2. Gathers(s, s, DOMAIN s, e)
    BY <2>1 DEF Gathers
  <2> QED
    BY <1>1, <2>1, <2>2 DEF Selected, Wanted, s
<1>2. CASE ~r.all
  <2>1. Named(r) \in SUBSET DOMAIN r.suite
    BY DEF Named
  <2>2. Only(r.suite, Named(r)) \in Seq(C) /\ \E e : Gathers(Only(r.suite, Named(r)), r.suite, Named(r), e)
    BY <2>1, OnlyFacts
  <2> QED
    BY <1>2, <2>2 DEF Selected, Wanted
<1> QED
  BY <1>1, <1>2

(* P holds all of jobs, the standard lane first; e tells where each of P     *)
(* comes from, in order within a lane.                                      *)
Sorts(P, jobs, e) ==
    /\ e \in [DOMAIN P -> DOMAIN jobs]
    /\ \A k \in DOMAIN P : P[k] = jobs[e[k]]
    /\ \A m \in DOMAIN jobs : \E k \in DOMAIN P : e[k] = m
    /\ \A i, j \in DOMAIN P : i < j =>
         /\ P[j].case.lane = "standard" => P[i].case.lane = "standard"
         /\ P[i].case.lane = P[j].case.lane => e[i] < e[j]

LEMMA ScheduleFacts ==
    ASSUME NEW J, NEW jobs \in Seq(J), \A k \in DOMAIN jobs : jobs[k].case.lane \in Lanes,
           NEW P, P = Schedule(jobs)
    PROVE  /\ P \in Seq(J)
           /\ \E e : Sorts(P, jobs, e)
<1> DEFINE K == OfLane(jobs, "standard")
           M == OfLane(jobs, "runtime")
           p == Only(jobs, K)
           q == Only(jobs, M)
           a == Len(p)
           b == Len(q)
<1>1. K \in SUBSET DOMAIN jobs /\ M \in SUBSET DOMAIN jobs
  BY DEF OfLane
<1>2. /\ \A k \in K : jobs[k].case.lane = "standard"
      /\ \A k \in M : jobs[k].case.lane = "runtime"
      /\ \A k \in DOMAIN jobs : k \in K \/ k \in M
  BY DEF OfLane, Lanes
<1> HIDE DEF K, M
<1>3. p \in Seq(J) /\ \E e : Gathers(p, jobs, K, e)
  BY <1>1, OnlyFacts
<1>4. q \in Seq(J) /\ \E e : Gathers(q, jobs, M, e)
  BY <1>1, OnlyFacts
<1>5. P = p \o q
  BY DEF Schedule, K, M
<1> HIDE DEF p, q
<1>6. PICK c : Gathers(p, jobs, K, c)
  BY <1>3
<1>7. PICK d : Gathers(q, jobs, M, d)
  BY <1>4
<1>8. /\ a \in Nat /\ b \in Nat /\ P \in Seq(J) /\ Len(P) = a + b
      /\ \A k \in 1..a : P[k] = p[k]
      /\ \A k \in (a + 1)..(a + b) : P[k] = q[k - a]
  BY <1>3, <1>4, <1>5
<1>9. DOMAIN P = 1..(a + b)
  BY <1>8
<1> HIDE DEF a, b
<1> DEFINE e == [k \in 1..(a + b) |-> IF k \in 1..a THEN c[k] ELSE d[k - a]]
<1>10. /\ \A k \in 1..a : c[k] \in K /\ p[k] = jobs[c[k]]
       /\ \A i, j \in 1..a : i < j => c[i] < c[j]
       /\ \A m \in K : \E k \in 1..a : c[k] = m
  BY <1>6 DEF Gathers, a
<1>11. /\ \A k \in 1..b : d[k] \in M /\ q[k] = jobs[d[k]]
       /\ \A i, j \in 1..b : i < j => d[i] < d[j]
       /\ \A m \in M : \E k \in 1..b : d[k] = m
  BY <1>7 DEF Gathers, b
<1>12. \A k \in 1..(a + b) : k \in 1..a \/ (k \in (a + 1)..(a + b) /\ k - a \in 1..b /\ k \notin 1..a)
  BY <1>8
<1>13. /\ \A k \in 1..a : k \in 1..(a + b) /\ e[k] = c[k] /\ e[k] \in K /\ P[k] = jobs[e[k]]
       /\ \A k \in (a + 1)..(a + b) : k - a \in 1..b /\ e[k] = d[k - a] /\ e[k] \in M /\ P[k] = jobs[e[k]]
  <2>1. ASSUME NEW k \in 1..a
        PROVE  k \in 1..(a + b) /\ e[k] = c[k] /\ e[k] \in K /\ P[k] = jobs[e[k]]
    <3>1. k \in 1..(a + b) /\ e[k] = c[k]
      BY <1>8
    <3> QED
      BY <1>8, <1>10, <3>1
  <2>2. ASSUME NEW k \in (a + 1)..(a + b)
        PROVE  k - a \in 1..b /\ e[k] = d[k - a] /\ e[k] \in M /\ P[k] = jobs[e[k]]
    <3>1. k \in 1..(a + b) /\ k \notin 1..a /\ k - a \in 1..b
      BY <1>8
    <3>2. e[k] = d[k - a]
      BY <3>1
    <3> QED
      BY <1>8, <1>11, <3>1, <3>2
  <2> QED
    BY <2>1, <2>2
<1>14. e \in [1..(a + b) -> DOMAIN jobs]
  <2>1. \A k \in 1..(a + b) : e[k] \in DOMAIN jobs
    BY <1>1, <1>12, <1>13
  <2> QED
    BY <2>1
<1> HIDE DEF e
<1>15. \A k \in 1..(a + b) : P[k] = jobs[e[k]]
  BY <1>12, <1>13
<1>16. ASSUME NEW m \in DOMAIN jobs
       PROVE  \E k \in 1..(a + b) : e[k] = m
  <2>1. CASE m \in K
    <3>1. PICK k \in 1..a : c[k] = m
      BY <1>10, <2>1
    <3> QED
      BY <1>13, <3>1
  <2>2. CASE m \in M
    <3>1. PICK k \in 1..b : d[k] = m
      BY <1>11, <2>2
    <3>2. k + a \in (a + 1)..(a + b) /\ k + a \in 1..(a + b) /\ (k + a) - a = k
      BY <1>8
    <3>3. e[k + a] = m
      BY <1>13, <3>1, <3>2
    <3> QED
      BY <3>2, <3>3
  <2> QED
    BY <1>2, <2>1, <2>2
<1>17. ASSUME NEW i \in 1..(a + b), NEW j \in 1..(a + b), i < j
       PROVE  /\ P[j].case.lane = "standard" => P[i].case.lane = "standard"
              /\ P[i].case.lane = P[j].case.lane => e[i] < e[j]
  <2>1. CASE j \in 1..a
    <3>1. i \in 1..a
      BY <1>8, <1>17, <2>1
    <3> QED
      BY <1>2, <1>10, <1>13, <1>17, <2>1, <3>1
  <2>2. CASE j \notin 1..a /\ i \in 1..a
    <3>1. j \in (a + 1)..(a + b)
      BY <1>12, <2>2
    <3>2. P[i].case.lane = "standard" /\ P[j].case.lane = "runtime"
      BY <1>2, <1>13, <2>2, <3>1
    <3> QED
      BY <3>2
  <2>3. CASE j \notin 1..a /\ i \notin 1..a
    <3>1. i \in (a + 1)..(a + b) /\ j \in (a + 1)..(a + b)
      BY <1>12, <2>3
    <3>2. i - a \in 1..b /\ j - a \in 1..b /\ i - a < j - a
      BY <1>8, <1>17, <3>1
    <3>3. e[i] < e[j]
      BY <1>11, <1>13, <3>1, <3>2
    <3>4. P[j].case.lane = "runtime"
      BY <1>2, <1>13, <3>1
    <3> QED
      BY <3>3, <3>4
  <2> QED
    BY <2>1, <2>2, <2>3
<1>18. Sorts(P, jobs, e)
  BY <1>9, <1>14, <1>15, <1>16, <1>17 DEF Sorts
<1> QED
  BY <1>8, <1>18

(* Every job of the plan is an iteration of a case the request asks for, at *)
(* the position at of the suite, each once, in the order of their lanes,    *)
(* positions and iterations.                                                *)
Follows(r, P, at) ==
    /\ at \in [DOMAIN P -> Wanted(r)]
    /\ \A j \in DOMAIN P : P[j].case = r.suite[at[j]] /\ P[j].iteration \in 1..r.iterations
    /\ \A c \in Wanted(r), i \in 1..r.iterations : \E j \in DOMAIN P : at[j] = c /\ P[j].iteration = i
    /\ \A i, j \in DOMAIN P : i < j =>
         /\ P[j].case.lane = "standard" => P[i].case.lane = "standard"
         /\ P[i].case.lane = P[j].case.lane =>
                at[i] < at[j] \/ (at[i] = at[j] /\ P[i].iteration < P[j].iteration)

LEMMA PlanFollows ==
    ASSUME NEW r, r.suite \in Seq(CasesOf(r.suite)), r.all \in BOOLEAN, r.iterations \in Int,
           ~PlanIsRefused(r), NEW P, P = Plan(r)
    PROVE  /\ P \in Seq([case: {c \in CasesOf(r.suite) : c.lane \in Lanes}, iteration: 1..r.iterations])
           /\ \E at : Follows(r, P, at)
<1> DEFINE C == {c \in CasesOf(r.suite) : c.lane \in Lanes}
           J == [case: C, iteration: 1..r.iterations]
           S == Selected(r)
           m == r.iterations
           E == Expanded(S, m)
<1>1. m \in Nat /\ m >= 1 /\ \A c \in CasesOf(S) : c.lane \in Lanes
  BY DEF PlanIsRefused
<1>2. S \in Seq(CasesOf(r.suite)) /\ \E e : Gathers(S, r.suite, Wanted(r), e)
  BY SelectedFacts
<1>3. P = Schedule(E)
  BY DEF Plan
<1> HIDE DEF S, m
<1>4. S \in Seq(C) /\ DOMAIN S = 1..Len(S)
  <2>1. \A k \in DOMAIN S : S[k] \in C
    BY <1>1, <1>2 DEF CasesOf
  <2>2. Len(S) \in Nat /\ DOMAIN S = 1..Len(S) /\ S = [k \in 1..Len(S) |-> S[k]]
    BY <1>2
  <2> HIDE DEF C
  <2> QED
    BY <2>1, <2>2
<1>5. PICK f : Gathers(S, r.suite, Wanted(r), f)
  BY <1>2
<1>e. E = Expanded(S, m)
  OBVIOUS
<1> HIDE DEF C, E, J
<1>6. E \in Seq([case: C, iteration: 1..m]) /\ Unfolds(E, S, m)
  BY <1>1, <1>4, <1>e, ExpandedFacts
<1>7. E \in Seq(J)
  BY <1>6 DEF J, m
<1>u. /\ \A k \in DOMAIN E : CaseAt(k, m) \in DOMAIN S /\ E[k].case = S[CaseAt(k, m)]
      /\ \A i, j \in DOMAIN E : i < j =>
             \/ CaseAt(i, m) < CaseAt(j, m)
             \/ CaseAt(i, m) = CaseAt(j, m) /\ E[i].iteration < E[j].iteration
      /\ \A c \in DOMAIN S, i \in 1..m : \E k \in DOMAIN E : CaseAt(k, m) = c /\ E[k].iteration = i
  BY <1>6 DEF Unfolds
<1>8. \A k \in DOMAIN E : E[k] \in J
  BY <1>7
<1>9. \A k \in DOMAIN E : E[k].case.lane \in Lanes /\ E[k].iteration \in 1..m
  BY <1>8 DEF C, J, m
<1>10. P \in Seq(J) /\ \E e : Sorts(P, E, e)
  BY <1>3, <1>7, <1>9, ScheduleFacts
<1>11. PICK e : Sorts(P, E, e)
  BY <1>10
<1> DEFINE at == [j \in DOMAIN P |-> f[CaseAt(e[j], m)]]
<1>12. /\ \A j \in DOMAIN P : e[j] \in DOMAIN E /\ P[j] = E[e[j]]
       /\ \A k \in DOMAIN E : \E j \in DOMAIN P : e[j] = k
       /\ \A i, j \in DOMAIN P : i < j =>
           /\ P[j].case.lane = "standard" => P[i].case.lane = "standard"
           /\ P[i].case.lane = P[j].case.lane => e[i] < e[j]
  BY <1>11 DEF Sorts
<1>13. /\ \A k \in DOMAIN S : f[k] \in Wanted(r) /\ S[k] = r.suite[f[k]]
       /\ \A i, j \in DOMAIN S : i < j => f[i] < f[j]
       /\ \A c \in Wanted(r) : \E k \in DOMAIN S : f[k] = c
  BY <1>4, <1>5 DEF Gathers
<1>14. \A j \in DOMAIN P : at[j] = f[CaseAt(e[j], m)] /\ CaseAt(e[j], m) \in DOMAIN S
  BY <1>u, <1>12
<1>15. at \in [DOMAIN P -> Wanted(r)]
  BY <1>13, <1>14
<1> HIDE DEF at
<1>16. \A j \in DOMAIN P : P[j].case = r.suite[at[j]] /\ P[j].iteration \in 1..m
  <2> SUFFICES ASSUME NEW j \in DOMAIN P
               PROVE  P[j].case = r.suite[at[j]] /\ P[j].iteration \in 1..m
    OBVIOUS
  <2>1. e[j] \in DOMAIN E /\ P[j] = E[e[j]] /\ P[j].iteration \in 1..m
    BY <1>9, <1>12
  <2>2. P[j].case = S[CaseAt(e[j], m)]
    BY <1>u, <2>1
  <2> QED
    BY <1>13, <1>14, <2>1, <2>2
<1>17. \A c \in Wanted(r), i \in 1..m : \E j \in DOMAIN P : at[j] = c /\ P[j].iteration = i
  <2> SUFFICES ASSUME NEW c \in Wanted(r), NEW i \in 1..m
               PROVE  \E j \in DOMAIN P : at[j] = c /\ P[j].iteration = i
    OBVIOUS
  <2>1. PICK k \in DOMAIN S : f[k] = c
    BY <1>13
  <2>2. PICK x \in DOMAIN E : CaseAt(x, m) = k /\ E[x].iteration = i
    BY <1>u
  <2>3. PICK j \in DOMAIN P : e[j] = x
    BY <1>12
  <2> QED
    BY <1>12, <1>14, <2>1, <2>2, <2>3
<1>18. ASSUME NEW i \in DOMAIN P, NEW j \in DOMAIN P, i < j, P[i].case.lane = P[j].case.lane
       PROVE  at[i] < at[j] \/ (at[i] = at[j] /\ P[i].iteration < P[j].iteration)
  <2>1. e[i] \in DOMAIN E /\ e[j] \in DOMAIN E /\ e[i] < e[j]
    BY <1>12, <1>18
  <2>2. CASE CaseAt(e[i], m) < CaseAt(e[j], m)
    BY <1>13, <1>14, <2>2
  <2>3. CASE CaseAt(e[i], m) = CaseAt(e[j], m) /\ E[e[i]].iteration < E[e[j]].iteration
    BY <1>12, <1>14, <2>3
  <2> QED
    BY <1>u, <2>1, <2>2, <2>3
<1>19. Follows(r, P, at)
  BY <1>12, <1>15, <1>16, <1>17, <1>18 DEF Follows, m
<1> QED
  BY <1>10, <1>19 DEF J, C

LEMMA PlanIsTyped ==
  ASSUME NEW x \in Requests, ~PlanIsRefused(x)
  PROVE  Plan(x) \in Seq(JobsOf(x)) /\ \E at : Follows(x, Plan(x), at)
<1> DEFINE C == {c \in CasesOf(x.suite) : c.lane \in Lanes}
           J == [case: C, iteration: 1..x.iterations]
<1>1. x.suite \in Seq(CasesOf(x.suite)) /\ x.all \in BOOLEAN /\ x.iterations \in Int
  BY RequestAssumption
<1>2. Plan(x) \in Seq(J) /\ \E at : Follows(x, Plan(x), at)
  BY <1>1, PlanFollows
<1>3. J \subseteq JobsOf(x)
  BY DEF JobsOf
<1> HIDE DEF J
<1>4. Seq(J) \subseteq Seq(JobsOf(x))
  BY <1>3
<1> QED
  BY <1>2, <1>4

---------------------------------------------------------------------------
(* Facts about the plan and the classifications.                            *)

LEMMA PlanFacts ==
  ASSUME TypeOK
  PROVE  /\ Len(plan) \in Nat /\ Jobs = 1..Len(plan)
         /\ IsFiniteSet(Jobs) /\ Cardinality(Jobs) = Len(plan)
         /\ \A j \in Jobs : Lane(j) \in Lanes
         /\ \A j \in Jobs : Lane(j) = "standard" => request.family # "skill"
<1>1. request \in Requests /\ plan \in Seq(JobsOf(request))
  BY DEF TypeOK
<1>2. Len(plan) \in Nat /\ Jobs = 1..Len(plan)
  BY <1>1 DEF Jobs
<1>3. IsFiniteSet(Jobs) /\ Cardinality(Jobs) = Len(plan)
  BY <1>2, FS_Interval, SMTT(30)
<1>4. ASSUME NEW j \in Jobs
      PROVE  Lane(j) \in Lanes /\ plan[j].case \in CasesOf(request.suite)
  <2>1. plan[j] \in JobsOf(request)
    BY <1>1, <1>2
  <2> QED
    BY <2>1 DEF Lane, JobsOf
<1>5. ASSUME NEW j \in Jobs, Lane(j) = "standard"
      PROVE  request.family # "skill"
  BY <1>1, <1>4, <1>5, RequestAssumption DEF Lane
<1> QED
  BY <1>2, <1>3, <1>4, <1>5

LEMMA ClassificationFacts ==
  /\ Verdicts \subseteq Classifications /\ Classifications \subseteq Verdicts \cup {"error"}
  /\ request.family # "skill" => Classifications = Verdicts
BY DEF Classifications

---------------------------------------------------------------------------
(* Every step keeps the types.  Only the report needs more than the types:  *)
(* it repeats the status of a manifest that is no error.                    *)
LEMMA TypeStep == RunInv /\ [Next]_vars => TypeOK'
<1> SUFFICES ASSUME RunInv, [Next]_vars PROVE TypeOK'
  OBVIOUS
<1>p. /\ Len(plan) \in Nat /\ Jobs = 1..Len(plan) /\ Cardinality(Jobs) = Len(plan)
  BY PlanFacts DEF RunInv
<1>s. request' = request /\ plan' = plan => Jobs' = Jobs /\ Classifications' = Classifications
  BY DEF Jobs, Classifications
<1>t. TypeOK
  BY DEF RunInv
<1> USE RequestAssumption, FaultAssumption, <1>p, <1>s, <1>t
    DEF TypeOK, Stages, storage, settled
<1>a. Abort("2") /\ faults' = faults => TypeOK'
  BY DEF Abort
<1> USE <1>a
<1>1. CASE Discover
  <2>1. plan' \in Seq(JobsOf(request)) /\ plan' = Plan(request)
    BY <1>1, PlanIsTyped DEF Discover
  <2>2. request' = request /\ Classifications' = Classifications
    BY <1>1 DEF Discover, Classifications
  <2>3. /\ work' = [j \in Jobs' |-> "queued"] /\ statuses' = [j \in Jobs' |-> "planned"]
        /\ disk' = [j \in Jobs' |-> "absent"]
        /\ manifest' = [status |-> "absent", jobs |-> statuses']
        /\ stage' = "claim" /\ UNCHANGED <<cursor, written, report, exit, disturbed, late, faults>>
    BY <1>1 DEF Discover, Jobs
  <2>4. cursor = 1 /\ disturbed = {}
    BY <1>1 DEF Discover, RunInv, ProgressInv, NothingIsDisturbedEarly, Early
  <2>5. cursor' \in 1..(Cardinality(Jobs') + 1)
    <3>1. Jobs' = 1..Len(plan') /\ Len(plan') \in Nat
      BY <2>1 DEF Jobs
    <3>2. \A n \in Nat : Cardinality(1..n) = n
      BY FS_Interval
    <3> QED
      BY <3>1, <3>2, <2>3, <2>4
  <2> QED
    BY <2>1, <2>2, <2>3, <2>4, <2>5
<1>2. CASE PlanRefused
  BY <1>2 DEF PlanRefused
<1>3. CASE DiscoveryRaises
  BY <1>3 DEF DiscoveryRaises, Abort
<1>4. CASE Claim \/ ClaimRefused
  BY <1>4 DEF Claim, ClaimRefused
<1>5. CASE Announce
  BY <1>5 DEF Announce
<1>6. ASSUME NEW j \in Jobs, Job(j) PROVE TypeOK'
  <2>1. CASE StartJob(j)
    BY <2>1 DEF StartJob
  <2>2. CASE FinishJob(j)
    BY <2>2 DEF FinishJob
  <2>3. CASE JobRaises(j)
    BY <2>3 DEF JobRaises
  <2> QED
    BY <1>6, <2>1, <2>2, <2>3 DEF Job
<1>7. ASSUME NEW lane \in Lanes, RunLane(lane) PROVE TypeOK'
  <2> USE DEF Persistable, LaneJobs, Lanes, Persisting
  <2>1. CASE CloseLane(lane)
    BY <1>7, <2>1 DEF CloseLane
  <2>2. CASE WriteArtifact(lane)
    BY <1>7, <2>2 DEF WriteArtifact
  <2>3. CASE VerifyArtifact(lane)
    <3>1. CASE disk[cursor] \in Classifications
      <4>1. /\ cursor \in Jobs /\ cursor' = cursor + 1 /\ written' = FALSE
            /\ statuses' = [statuses EXCEPT ![cursor] = disk[cursor]]
            /\ UNCHANGED <<stage, work, storage, exit, settled, faults>>
        BY <1>7, <2>3, <3>1 DEF VerifyArtifact
      <4>2. statuses' \in [Jobs -> Statuses]
        BY <3>1, <4>1 DEF Statuses
      <4>3. cursor' \in 1..(Cardinality(Jobs) + 1)
        BY <4>1
      <4> QED
        BY <4>1, <4>2, <4>3, ZenonT(40) DEF Statuses
    <3>2. CASE disk[cursor] \notin Classifications
      BY <1>7, <2>3, <3>2 DEF VerifyArtifact
    <3> QED
      BY <3>1, <3>2
  <2>4. CASE SkipJob(lane)
    BY <1>7, <2>4 DEF SkipJob
  <2> QED
    BY <1>7, <2>1, <2>2, <2>3, <2>4 DEF RunLane
<1>8. CASE ReportStandardLane
  BY <1>8 DEF ReportStandardLane, Reported
<1>9. CASE ReportRuntimeLane
  BY <1>9 DEF ReportRuntimeLane, Reported
<1>10. CASE Summarise \/ EndSummary \/ RenderJob
  <2>1. CASE Summarise
    <3>1. CASE statuses[cursor] \in Verdicts => disk[cursor] = statuses[cursor]
      <4>1. /\ cursor \in Jobs /\ cursor' = cursor + 1
            /\ UNCHANGED <<stage, work, written, statuses, storage, exit, settled, faults>>
        BY <2>1, <3>1 DEF Summarise
      <4> QED
        BY <4>1
    <3>2. CASE ~(statuses[cursor] \in Verdicts => disk[cursor] = statuses[cursor])
      BY <2>1, <3>2 DEF Summarise
    <3> QED
      BY <3>1, <3>2
  <2>2. CASE EndSummary
    BY <2>2 DEF EndSummary
  <2>3. CASE RenderJob
    <3>1. CASE manifest.status # "error" /\ disk[cursor] = manifest.jobs[cursor]
      BY <2>3, <3>1 DEF RenderJob
    <3>2. CASE ~(manifest.status # "error" /\ disk[cursor] = manifest.jobs[cursor])
      BY <2>3, <3>2 DEF RenderJob
    <3> QED
      BY <3>1, <3>2
  <2> QED
    BY <1>10, <2>1, <2>2, <2>3
<1>11. CASE WriteFinalManifest
  BY <1>11 DEF WriteFinalManifest, Outcome
<1>12. CASE WriteReport
  BY <1>12 DEF RunInv, ProgressInv, WriteReport, ManifestIsFinal, Outcome, Problems
<1>13. CASE Exit
  BY <1>13 DEF Exit, ExitStatus, Outcome
<1>14. CASE StorageError \/ Kill
  <2>1. CASE StorageError
    BY <1>14, <2>1 DEF StorageError, StorageFails, Abort
  <2>2. CASE Kill
    BY <1>14, <2>2 DEF Kill
  <2> QED
    BY <1>14, <2>1, <2>2
<1>15. ASSUME NEW j \in Jobs, Disturb(j) PROVE TypeOK'
  BY <1>15 DEF Disturb
<1>16. CASE UNCHANGED vars
  BY <1>16 DEF vars
<1> QED
  BY <1>1, <1>2, <1>3, <1>4, <1>5, <1>6, <1>7, <1>8, <1>9, <1>10, <1>11, <1>12, <1>13, <1>14, <1>15, <1>16
  DEF Next, Command, Over

---------------------------------------------------------------------------
(* The steps keep the invariant, in the order of the command.               *)

(* What does not change as long as the plan and the request do not.         *)
LEMMA SettledFacts ==
  ASSUME request' = request, plan' = plan
  PROVE  /\ Jobs' = Jobs /\ Classifications' = Classifications
         /\ \A j : Lane(j)' = Lane(j)
         /\ \A lane : LaneJobs(lane)' = LaneJobs(lane)
         /\ Rendered' = Rendered /\ LastPass' = LastPass
BY DEF Jobs, Classifications, Lane, LaneJobs, Rendered, LastPass

(* A run that is given up keeps what it has; without a storage fault that   *)
(* happens only before the first job or after the final manifest.           *)
LEMMA AbortKeeps ==
  ASSUME RunInv, TypeOK', NEW code, Abort(code), faults' \in {faults, faults + 1}, stage # "over",
         faults' # 0 \/ code = "killed" \/ Ended \/ \A j \in Jobs : work[j] = "queued"
  PROVE  ProgressInv' /\ PromiseInv'
<1> USE DEF RunInv, Abort, storage, settled
<1>1. ProgressInv'
  BY SettledFacts
  DEF ProgressInv, JobsFollowTheStage, NothingIsDisturbedEarly, WrittenIsPersistable, ReadIsUnchanged,
      ManifestIsFinal, DisturbanceIsCounted, Early, Closing, HasBeenRead, Ended, TypeOK, LastPass
<1>2. PromiseInv'
  BY SettledFacts
  DEF PromiseInv, RuntimeLaneIsGated, ManifestTellsTheRun, OnlyFaultsLeaveARunOpen, Ended
<1> QED
  BY <1>1, <1>2

(* Before the first job.                                                    *)
LEMMA BeginningKeeps ==
  ASSUME RunInv, TypeOK',
         Discover \/ PlanRefused \/ DiscoveryRaises \/ Claim \/ ClaimRefused \/ Announce
  PROVE  ProgressInv' /\ PromiseInv'
<1> USE DEF RunInv, ProgressInv, PromiseInv, storage, settled
<1>q. stage \in Early => \A j \in Jobs : work[j] = "queued"
  BY DEF JobsFollowTheStage, Fresh
<1>1. CASE Discover
  BY <1>1 DEF Discover, JobsFollowTheStage, NothingIsDisturbedEarly, WrittenIsPersistable, ReadIsUnchanged,
      ManifestIsFinal, DisturbanceIsCounted, RuntimeLaneIsGated, ManifestTellsTheRun,
      OnlyFaultsLeaveARunOpen, Early, Closing, HasBeenRead, Ended, LastPass, Fresh, Untold, Jobs, LaneJobs, Persistable, Persisting, Lanes
<1>2. CASE PlanRefused \/ DiscoveryRaises \/ ClaimRefused
  <2>1. stage \in Early /\ faults' = faults /\ \E code : Abort(code)
    BY <1>2 DEF PlanRefused, DiscoveryRaises, ClaimRefused, Early
  <2>2. stage # "over" /\ faults' \in {faults, faults + 1}
    BY <2>1 DEF Early
  <2> QED
    BY <1>q, <2>1, <2>2, AbortKeeps
<1>3. CASE Claim \/ Announce
  BY <1>3, SettledFacts
  DEF Claim, Announce, JobsFollowTheStage, NothingIsDisturbedEarly, WrittenIsPersistable, ReadIsUnchanged,
      ManifestIsFinal, DisturbanceIsCounted, RuntimeLaneIsGated, ManifestTellsTheRun,
      OnlyFaultsLeaveARunOpen, Early, Closing, HasBeenRead, Ended, LastPass, Fresh, Untold, Persistable, Persisting, Lanes
<1> QED
  BY <1>1, <1>2, <1>3

(* A job is run in the stage of its lane.                                   *)
LEMMA RunningInItsLane ==
  ASSUME RunInv, NEW k \in Jobs
  PROVE  work[k] = "running" /\ stage # "over" => stage = Lane(k)
BY PlanFacts, ClassificationFacts
DEF RunInv, ProgressInv, TypeOK, Stages, Lanes, Early, Closing, JobsFollowTheStage, Fresh, InPersistence,
    Passed, Ahead, Kept, Settled, Verdicts

(* The jobs of a lane.  A runtime job starts only in a stage in which every *)
(* standard job is kept.                                                    *)
LEMMA JobsKeep ==
  ASSUME RunInv, TypeOK', NEW k \in Jobs, Job(k)
  PROVE  ProgressInv' /\ PromiseInv'
<1>r. work[k] = "running" /\ stage # "over" => stage = Lane(k)
  BY RunningInItsLane
<1> USE DEF RunInv, ProgressInv, PromiseInv, storage, settled
<1>1. /\ stage \in Lanes /\ stage = Lane(k) /\ work[k] \in {"queued", "running"}
      /\ work' \in [Jobs -> {"queued", "running", "raised"} \cup Classifications]
      /\ \A j \in Jobs : j # k => work'[j] = work[j]
      /\ UNCHANGED <<request, plan, stage, cursor, written, statuses, disk, manifest, report, exit,
                     disturbed, late, faults>>
  <2>1. CASE StartJob(k)
    BY <2>1, PlanFacts DEF StartJob, TypeOK
  <2>2. CASE FinishJob(k)
    BY <2>2, <1>r, PlanFacts DEF FinishJob, TypeOK
  <2>3. CASE JobRaises(k)
    BY <2>3, <1>r, PlanFacts DEF JobRaises, TypeOK
  <2> QED
    BY <2>1, <2>2, <2>3 DEF Job
<1>2. JobsFollowTheStage'
  BY <1>1, PlanFacts, SettledFacts
  DEF JobsFollowTheStage, Lanes, Early, Closing, Untold, Fresh, Kept
<1>3. ~written /\ ~Ended
  BY <1>1 DEF WrittenIsPersistable, Persistable, Persisting, ManifestIsFinal, Lanes
<1>4. NothingIsDisturbedEarly' /\ WrittenIsPersistable' /\ ManifestIsFinal' /\ DisturbanceIsCounted'
  BY <1>1, <1>3, SettledFacts
  DEF NothingIsDisturbedEarly, WrittenIsPersistable, ManifestIsFinal, DisturbanceIsCounted, Lanes, Early, Ended
<1>5. ReadIsUnchanged'
  BY <1>1, SettledFacts DEF ReadIsUnchanged, HasBeenRead, LastPass, Lanes
<1>6. RuntimeLaneIsGated'
  <2>1. CASE Lane(k) = "runtime"
    BY <1>1, <2>1, PlanFacts, SettledFacts, ClassificationFacts
    DEF RuntimeLaneIsGated, JobsFollowTheStage, Kept, LaneJobs
  <2>2. CASE Lane(k) = "standard"
    BY <1>1, <2>2, SettledFacts DEF RuntimeLaneIsGated, LaneJobs
  <2> QED
    BY <1>1, <2>1, <2>2 DEF Lanes
<1>7. ManifestTellsTheRun' /\ OnlyFaultsLeaveARunOpen'
  BY <1>1, <1>3 DEF ManifestTellsTheRun, OnlyFaultsLeaveARunOpen, Ended, Lanes
<1> QED
  BY <1>2, <1>4, <1>5, <1>6, <1>7

(* The end of a lane and the persistence of its jobs, one after the other.  *)
LEMMA CloseLaneKeeps ==
  ASSUME RunInv, TypeOK', NEW lane \in Lanes, CloseLane(lane)
  PROVE  ProgressInv' /\ PromiseInv'
<1> USE DEF RunInv, ProgressInv, PromiseInv, storage, settled, Lanes, Persisting
<1>1. /\ stage = lane /\ LaneFinished(lane) /\ stage' = Persisting[lane] /\ cursor' = 1
      /\ UNCHANGED <<request, plan, work, written, statuses, disk, manifest, report, exit,
                     disturbed, late, faults>>
  BY DEF CloseLane
<1>2. ~written /\ ~Ended
  BY <1>1 DEF WrittenIsPersistable, Persistable, ManifestIsFinal
<1>3. JobsFollowTheStage'
  BY <1>1, <1>2, PlanFacts, SettledFacts
  DEF JobsFollowTheStage, Early, Closing, Untold, Fresh, Kept, InPersistence, Ahead, LaneFinished,
      LaneJobs, TypeOK
<1>4. /\ NothingIsDisturbedEarly' /\ WrittenIsPersistable' /\ ManifestIsFinal'
      /\ DisturbanceIsCounted' /\ ReadIsUnchanged'
  BY <1>1, <1>2, SettledFacts
  DEF NothingIsDisturbedEarly, WrittenIsPersistable, ManifestIsFinal, DisturbanceIsCounted,
      ReadIsUnchanged, HasBeenRead, LastPass, Early, Ended
<1>5. RuntimeLaneIsGated' /\ ManifestTellsTheRun' /\ OnlyFaultsLeaveARunOpen'
  BY <1>1, <1>2, SettledFacts
  DEF RuntimeLaneIsGated, ManifestTellsTheRun, OnlyFaultsLeaveARunOpen, Ended
<1> QED
  BY <1>3, <1>4, <1>5

LEMMA PersistenceKeeps ==
  ASSUME RunInv, TypeOK', NEW lane \in Lanes,
         WriteArtifact(lane) \/ VerifyArtifact(lane) \/ SkipJob(lane)
  PROVE  ProgressInv' /\ PromiseInv'
<1> USE DEF RunInv, ProgressInv, PromiseInv, storage, settled
<1>s. stage = Persisting[lane] /\ stage \in {"persist_standard", "persist_runtime"}
  BY DEF WriteArtifact, VerifyArtifact, SkipJob, Persistable, Lanes, Persisting
<1>j. \A j \in LaneJobs(lane) : InPersistence(j)
  BY <1>s, PlanFacts DEF JobsFollowTheStage, Lanes, Persisting, LaneJobs
<1>e. ~Ended
  BY <1>s DEF ManifestIsFinal
<1>r. lane = "standard" => \A j \in LaneJobs("runtime") : work[j] = "queued"
  BY <1>s, PlanFacts DEF JobsFollowTheStage, Persisting, LaneJobs, Fresh
(* Every step that does not give up keeps the same few things.              *)
<1>k. ASSUME stage' = stage, work' = work, Ended' = Ended, exit' = exit, manifest' = manifest,
             UNCHANGED <<request, plan, disturbed, late, faults>>
      PROVE  /\ NothingIsDisturbedEarly' /\ ManifestIsFinal' /\ DisturbanceIsCounted'
             /\ ReadIsUnchanged' /\ ManifestTellsTheRun' /\ OnlyFaultsLeaveARunOpen'
  BY <1>s, <1>e, <1>k, SettledFacts
  DEF NothingIsDisturbedEarly, ManifestIsFinal, DisturbanceIsCounted, ReadIsUnchanged, HasBeenRead,
      LastPass, Early, ManifestTellsTheRun, OnlyFaultsLeaveARunOpen
<1>1. CASE WriteArtifact(lane)
  <2>1. /\ cursor \in LaneJobs(lane) /\ cursor \in Jobs /\ work[cursor] \in Classifications /\ ~written
        /\ disk' = [disk EXCEPT ![cursor] = work[cursor]] /\ written' = TRUE
        /\ UNCHANGED <<request, plan, stage, work, cursor, statuses, manifest, report, exit,
                       disturbed, late, faults>>
    BY <1>1 DEF WriteArtifact, Persistable, LaneJobs
  <2>2. /\ disk'[cursor] = work[cursor] /\ \A j \in Jobs : j # cursor => disk'[j] = disk[j]
    BY <2>1 DEF TypeOK
  <2>3. JobsFollowTheStage'
    BY <1>s, <1>j, <2>1, <2>2, PlanFacts, SettledFacts
    DEF JobsFollowTheStage, InPersistence, Passed, Ahead, Kept, Fresh, Untold, LaneJobs, Lanes,
        Persisting, Early, Closing
  <2>4. WrittenIsPersistable'
    BY <1>s, <2>1, SettledFacts DEF WrittenIsPersistable, Persistable
  <2>5. RuntimeLaneIsGated'
    BY <1>s, <1>r, <2>1, <2>2, SettledFacts DEF RuntimeLaneIsGated, LaneJobs, Lanes
  <2> QED
    BY <1>k, <1>e, <2>1, <2>3, <2>4, <2>5 DEF Ended
<1>2. CASE VerifyArtifact(lane)
  <2>1. /\ cursor \in LaneJobs(lane) /\ cursor \in Jobs /\ work[cursor] \in Classifications /\ written
        /\ faults' = faults
    BY <1>2 DEF VerifyArtifact, Persistable, LaneJobs
  <2>2. cursor \notin disturbed => disk[cursor] = work[cursor]
    BY <1>j, <2>1, PlanFacts DEF InPersistence, Ahead
  <2>3. CASE disk[cursor] \in Classifications
    <3>1. /\ statuses' = [statuses EXCEPT ![cursor] = disk[cursor]]
          /\ written' = FALSE /\ cursor' = cursor + 1
          /\ UNCHANGED <<request, plan, stage, work, disk, manifest, report, exit, disturbed, late, faults>>
      BY <1>2, <2>3 DEF VerifyArtifact
    <3>2. /\ statuses'[cursor] = disk[cursor] /\ \A j \in Jobs : j # cursor => statuses'[j] = statuses[j]
      BY <2>1, <3>1 DEF TypeOK
    <3>3. JobsFollowTheStage'
      BY <1>s, <1>j, <2>1, <2>2, <2>3, <3>1, <3>2, PlanFacts, SettledFacts
      DEF JobsFollowTheStage, InPersistence, Passed, Ahead, Kept, Fresh, Untold, LaneJobs, Lanes,
          Persisting, Early, Closing
    <3>4. WrittenIsPersistable'
      BY <3>1 DEF WrittenIsPersistable
    <3>5. RuntimeLaneIsGated'
      BY <1>s, <1>r, <2>1, <3>1, <3>2, SettledFacts DEF RuntimeLaneIsGated, LaneJobs, Lanes
    <3> QED
      BY <1>k, <1>e, <3>1, <3>3, <3>4, <3>5 DEF Ended
  <2>4. CASE disk[cursor] \notin Classifications
    <3>1. Abort("2")
      BY <1>2, <2>4 DEF VerifyArtifact
    <3>2. faults' # 0
      BY <2>1, <2>2, <2>4 DEF DisturbanceIsCounted
    <3> QED
      BY <1>s, <2>1, <3>1, <3>2, AbortKeeps
  <2> QED
    BY <2>3, <2>4
<1>3. CASE SkipJob(lane)
  <2>1. /\ cursor \in Jobs /\ (cursor \in LaneJobs(lane) => work[cursor] = "raised")
        /\ cursor' = cursor + 1
        /\ UNCHANGED <<request, plan, stage, work, written, statuses, disk, manifest, report, exit,
                       disturbed, late, faults>>
    BY <1>3 DEF SkipJob
  <2>2. ~written
    BY <1>s, <2>1, ClassificationFacts
    DEF WrittenIsPersistable, Persistable, Lanes, Persisting, Verdicts
  <2>3. JobsFollowTheStage'
    BY <1>s, <1>j, <2>1, <2>2, PlanFacts, SettledFacts
    DEF JobsFollowTheStage, InPersistence, Passed, Ahead, Kept, Fresh, Untold, LaneJobs, Lanes,
        Persisting, Early, Closing
  <2>4. WrittenIsPersistable' /\ RuntimeLaneIsGated'
    BY <2>1, <2>2, SettledFacts DEF WrittenIsPersistable, RuntimeLaneIsGated
  <2> QED
    BY <1>k, <1>e, <2>1, <2>3, <2>4 DEF Ended
<1> QED
  BY <1>1, <1>2, <1>3

(* The statuses after a lane.                                               *)
LEMMA ReportsKeep ==
  ASSUME RunInv, TypeOK', ReportStandardLane \/ ReportRuntimeLane
  PROVE  ProgressInv' /\ PromiseInv'
<1> USE DEF RunInv, ProgressInv, PromiseInv, storage, settled
<1>p. \A j \in Jobs : j < cursor
  <2>1. cursor \in 1..(Len(plan) + 1) /\ cursor \notin Jobs
    BY PlanFacts DEF TypeOK, ReportStandardLane, ReportRuntimeLane
  <2> QED
    BY <2>1, PlanFacts
<1>1. /\ stage \in {"persist_standard", "persist_runtime"}
      /\ stage' \in {"runtime", "summary"} /\ (stage' = "summary" => cursor' = 1)
      /\ UNCHANGED <<request, plan, work, written, disk, manifest, report, exit, disturbed, late, faults>>
  BY DEF ReportStandardLane, ReportRuntimeLane
<1>2. ~written /\ ~Ended
  BY <1>1, PlanFacts DEF WrittenIsPersistable, Persistable, ManifestIsFinal, LaneJobs, ReportStandardLane,
     ReportRuntimeLane
<1>k. /\ NothingIsDisturbedEarly' /\ WrittenIsPersistable' /\ ManifestIsFinal' /\ DisturbanceIsCounted'
      /\ ReadIsUnchanged' /\ ManifestTellsTheRun' /\ OnlyFaultsLeaveARunOpen'
  <2>1. NothingIsDisturbedEarly' /\ WrittenIsPersistable' /\ ManifestIsFinal' /\ DisturbanceIsCounted'
    BY <1>1, <1>2
    DEF NothingIsDisturbedEarly, WrittenIsPersistable, ManifestIsFinal, DisturbanceIsCounted, Early, Ended
  <2>2. ReadIsUnchanged'
    BY <1>1, PlanFacts, SettledFacts DEF ReadIsUnchanged, HasBeenRead, LastPass
  <2>3. ManifestTellsTheRun' /\ OnlyFaultsLeaveARunOpen'
    BY <1>1, <1>2 DEF ManifestTellsTheRun, OnlyFaultsLeaveARunOpen, Ended
  <2> QED
    BY <2>1, <2>2, <2>3
<1>3. CASE ReportStandardLane
  <2>1. \A j \in Jobs : IF Lane(j) = "standard" THEN Passed(j) ELSE Fresh(j)
    BY <1>3, <1>p, PlanFacts DEF ReportStandardLane, JobsFollowTheStage, InPersistence
  <2>2. CASE \E j \in LaneJobs("standard") : work[j] = "raised"
    <3>1. /\ statuses' = [j \in Jobs |-> IF Lane(j) = "runtime" THEN "not-run" ELSE Reported("standard")[j]]
          /\ stage' = "summary"
      BY <1>3, <2>2 DEF ReportStandardLane
    <3>2. JobsFollowTheStage'
      BY <1>1, <2>1, <3>1, PlanFacts, SettledFacts, ClassificationFacts
      DEF JobsFollowTheStage, Passed, Kept, Fresh, Untold, Settled, Reported, LaneJobs, Lanes, Early,
          Closing, Verdicts
    <3>3. RuntimeLaneIsGated'
      BY <1>1, <2>1, SettledFacts DEF RuntimeLaneIsGated, Fresh, LaneJobs
    <3> QED
      BY <1>k, <3>1, <3>2, <3>3
  <2>3. CASE ~\E j \in LaneJobs("standard") : work[j] = "raised"
    <3>1. statuses' = Reported("standard") /\ stage' = "runtime"
      BY <1>3, <2>3 DEF ReportStandardLane
    <3>2. JobsFollowTheStage'
      BY <1>1, <2>1, <2>3, <3>1, PlanFacts, SettledFacts
      DEF JobsFollowTheStage, Passed, Kept, Fresh, Untold, Reported, LaneJobs, Lanes, Early, Closing
    <3>3. RuntimeLaneIsGated'
      BY <1>1, <2>1, SettledFacts DEF RuntimeLaneIsGated, Fresh, LaneJobs
    <3> QED
      BY <1>k, <3>1, <3>2, <3>3
  <2> QED
    BY <2>2, <2>3
<1>4. CASE ReportRuntimeLane
  <2>1. \A j \in Jobs : IF Lane(j) = "standard" THEN Kept(j) ELSE Passed(j)
    BY <1>4, <1>p, PlanFacts DEF ReportRuntimeLane, JobsFollowTheStage, InPersistence
  <2>2. statuses' = Reported("runtime") /\ stage' = "summary"
    BY <1>4 DEF ReportRuntimeLane
  <2>3. JobsFollowTheStage'
    BY <1>1, <2>1, <2>2, PlanFacts, SettledFacts, ClassificationFacts
    DEF JobsFollowTheStage, Passed, Kept, Untold, Settled, Reported, LaneJobs, Lanes, Early,
        Closing, Verdicts
  <2>4. RuntimeLaneIsGated'
    BY <1>1, <2>2, SettledFacts DEF RuntimeLaneIsGated, Reported, LaneJobs
  <2> QED
    BY <1>k, <2>3, <2>4
<1> QED
  BY <1>3, <1>4

(* The summary, the final manifest, the output and the exit.                *)
LEMMA ClosingKeeps ==
  ASSUME RunInv, TypeOK',
         Summarise \/ EndSummary \/ WriteFinalManifest \/ RenderJob \/ WriteReport \/ Exit
  PROVE  ProgressInv' /\ PromiseInv'
<1> USE DEF RunInv, ProgressInv, PromiseInv, storage, settled
<1>s. stage \in Closing
  BY DEF Closing, Summarise, EndSummary, WriteFinalManifest, RenderJob, WriteReport, Exit
<1>j. \A j \in Jobs : Settled(j)
  BY <1>s DEF JobsFollowTheStage
<1>w. ~written
  BY <1>s DEF Closing, WrittenIsPersistable, Persistable, Lanes, Persisting
<1>c. cursor \in Nat \ {0} /\ (cursor \notin Jobs => \A j \in Jobs : j < cursor)
  BY PlanFacts DEF TypeOK
(* Steps that touch neither the jobs nor their artifacts.                   *)
<1>k. ASSUME stage' \in Closing \cup {"over"},
             UNCHANGED <<request, plan, work, written, statuses, disk, disturbed, late, faults>>
      PROVE  /\ JobsFollowTheStage' /\ NothingIsDisturbedEarly' /\ WrittenIsPersistable'
             /\ DisturbanceIsCounted' /\ RuntimeLaneIsGated'
  <2>1. JobsFollowTheStage'
    BY <1>j, <1>k, SettledFacts DEF JobsFollowTheStage, Settled, Kept, Closing, Early
  <2>2. NothingIsDisturbedEarly' /\ WrittenIsPersistable' /\ DisturbanceIsCounted'
    BY <1>w, <1>k DEF NothingIsDisturbedEarly, WrittenIsPersistable, DisturbanceIsCounted, Closing, Early
  <2>3. RuntimeLaneIsGated'
    BY <1>k, SettledFacts DEF RuntimeLaneIsGated
  <2> QED
    BY <2>1, <2>2, <2>3
<1>m. ASSUME manifest' = manifest, stage' # "over", UNCHANGED <<plan, request, work, disk, disturbed>>
      PROVE  ManifestTellsTheRun' /\ OnlyFaultsLeaveARunOpen'
  BY <1>m, SettledFacts DEF ManifestTellsTheRun, OnlyFaultsLeaveARunOpen, Ended
<1>1. CASE Summarise
  <2>1. CASE statuses[cursor] \in Verdicts => disk[cursor] = statuses[cursor]
    <3>1. /\ stage = "summary" /\ cursor' = cursor + 1
          /\ UNCHANGED <<request, plan, stage, work, written, statuses, disk, manifest, report, exit,
                         disturbed, late, faults>>
      BY <1>1, <2>1 DEF Summarise
    <3>2. ReadIsUnchanged'
      BY <1>c, <2>1, <3>1, PlanFacts, SettledFacts DEF ReadIsUnchanged, HasBeenRead
    <3>3. ManifestIsFinal'
      BY <3>1 DEF ManifestIsFinal, Ended
    <3> QED
      BY <1>k, <1>m, <1>s, <3>1, <3>2, <3>3 DEF Closing
  <2>2. CASE ~(statuses[cursor] \in Verdicts => disk[cursor] = statuses[cursor])
    <3>1. Abort("2") /\ faults' = faults /\ cursor \in Jobs
      BY <1>1, <2>2 DEF Summarise
    <3>2. cursor \in disturbed
      BY <1>j, <2>2, <3>1, ClassificationFacts DEF Settled, Kept, Verdicts
    <3> QED
      BY <1>s, <3>1, <3>2, AbortKeeps DEF DisturbanceIsCounted, Closing
  <2> QED
    BY <2>1, <2>2
<1>2. CASE EndSummary
  <2>1. /\ stage = "summary" /\ stage' = "final" /\ cursor \notin Jobs
        /\ UNCHANGED <<request, plan, work, cursor, written, statuses, disk, manifest, report, exit,
                       disturbed, late, faults>>
    BY <1>2 DEF EndSummary
  <2>2. ReadIsUnchanged'
    BY <1>c, <2>1, SettledFacts DEF ReadIsUnchanged, HasBeenRead, LastPass
  <2>3. ManifestIsFinal'
    BY <2>1 DEF ManifestIsFinal, Ended
  <2> QED
    BY <1>k, <1>m, <2>1, <2>2, <2>3 DEF Closing
<1>3. CASE WriteFinalManifest
  <2>1. /\ stage = "final" /\ stage' = (IF Rendered THEN "render" ELSE "exit") /\ cursor' = 1
        /\ manifest' = [status |-> Outcome, jobs |-> statuses]
        /\ UNCHANGED <<request, plan, work, written, statuses, disk, report, exit, disturbed, late, faults>>
    BY <1>3 DEF WriteFinalManifest
  <2>2. Outcome' = Outcome
    BY <2>1, SettledFacts DEF Outcome, Problems
  <2>3. ReadIsUnchanged'
    BY <2>1, PlanFacts, SettledFacts DEF ReadIsUnchanged, HasBeenRead, LastPass
  <2>4. ManifestIsFinal'
    BY <2>1, <2>2, SettledFacts DEF ManifestIsFinal, Ended
  <2>5. ManifestTellsTheRun'
    BY <1>j, <2>1, SettledFacts, ClassificationFacts
    DEF ManifestTellsTheRun, Settled, Kept, Verdicts
  <2>6. OnlyFaultsLeaveARunOpen'
    BY <2>1 DEF OnlyFaultsLeaveARunOpen
  <2> QED
    BY <1>k, <2>1, <2>3, <2>4, <2>5, <2>6 DEF Closing
<1>4. CASE RenderJob
  <2>1. CASE manifest.status # "error" /\ disk[cursor] = manifest.jobs[cursor]
    <3>1. /\ stage = "render" /\ cursor' = cursor + 1
          /\ UNCHANGED <<request, plan, stage, work, written, statuses, disk, manifest, report, exit,
                         disturbed, late, faults>>
      BY <1>4, <2>1 DEF RenderJob
    <3>2. Outcome' = Outcome
      BY <3>1, SettledFacts DEF Outcome, Problems
    <3>3. ReadIsUnchanged'
      BY <1>c, <2>1, <3>1, PlanFacts, SettledFacts DEF ReadIsUnchanged, HasBeenRead, ManifestIsFinal
    <3>4. ManifestIsFinal'
      BY <2>1, <3>1, <3>2, SettledFacts DEF ManifestIsFinal, Ended
    <3> QED
      BY <1>k, <1>m, <1>s, <3>1, <3>3, <3>4 DEF Closing
  <2>2. CASE ~(manifest.status # "error" /\ disk[cursor] = manifest.jobs[cursor])
    <3>1. Abort("2") /\ faults' = faults /\ stage = "render"
      BY <1>4, <2>2 DEF RenderJob
    <3>2. Ended
      BY <3>1 DEF ManifestIsFinal, Ended, Outcome
    <3> QED
      BY <3>1, <3>2, AbortKeeps
  <2> QED
    BY <2>1, <2>2
<1>5. CASE WriteReport
  <2>1. /\ stage = "render" /\ stage' = "exit" /\ cursor \notin Jobs /\ report' = manifest.status
        /\ UNCHANGED <<request, plan, work, cursor, written, statuses, disk, manifest, exit,
                       disturbed, late, faults>>
    BY <1>5 DEF WriteReport
  <2>2. Outcome' = Outcome
    BY <2>1, SettledFacts DEF Outcome, Problems
  <2>3. ReadIsUnchanged'
    BY <1>c, <2>1, SettledFacts DEF ReadIsUnchanged, HasBeenRead, LastPass, ManifestIsFinal
  <2>4. ManifestIsFinal'
    BY <2>1, <2>2, SettledFacts DEF ManifestIsFinal, Ended
  <2> QED
    BY <1>k, <1>m, <2>1, <2>3, <2>4 DEF Closing
<1>6. CASE Exit
  <2>1. /\ stage = "exit" /\ stage' = "over"
        /\ UNCHANGED <<request, plan, work, cursor, written, statuses, disk, manifest, report,
                       disturbed, late, faults>>
    BY <1>6 DEF Exit
  <2>2. Ended /\ Ended'
    BY <2>1 DEF ManifestIsFinal, Ended, Outcome
  <2>3. ReadIsUnchanged' /\ ManifestIsFinal'
    BY <2>1 DEF ReadIsUnchanged, HasBeenRead, LastPass, ManifestIsFinal
  <2>4. ManifestTellsTheRun' /\ OnlyFaultsLeaveARunOpen'
    BY <2>1, <2>2, SettledFacts DEF ManifestTellsTheRun, OnlyFaultsLeaveARunOpen
  <2> QED
    BY <1>k, <2>1, <2>3, <2>4
<1> QED
  BY <1>1, <1>2, <1>3, <1>4, <1>5, <1>6

(* The environment.                                                         *)
LEMMA EnvironmentKeeps ==
  ASSUME RunInv, TypeOK', StorageError \/ Kill \/ \E j \in Jobs : Disturb(j)
  PROVE  ProgressInv' /\ PromiseInv'
<1> USE DEF RunInv, ProgressInv, PromiseInv, storage, settled
<1>1. CASE StorageError
  <2>1. Abort("2") /\ faults' = faults + 1
    BY <1>1 DEF StorageError, StorageFails
  <2>2. stage # "over"
    BY <1>1 DEF StorageError, Persistable, Persisting, Lanes
  <2>3. faults' # 0 /\ faults' \in {faults, faults + 1}
    BY <2>1, FaultAssumption DEF TypeOK
  <2> QED
    BY <2>1, <2>2, <2>3, AbortKeeps
<1>2. CASE Kill
  <2>1. Abort("killed") /\ faults' = faults /\ stage # "over"
    BY <1>2 DEF Kill, Abort
  <2> QED
    BY <2>1, AbortKeeps
<1>3. ASSUME NEW k \in Jobs, Disturb(k) PROVE ProgressInv' /\ PromiseInv'
  <2>1. /\ disk[k] # "absent" /\ \A j \in Jobs : j # k => disk'[j] = disk[j]
        /\ disturbed' = disturbed \cup {k} /\ faults' = faults + 1
        /\ late' = IF WillBeRead(k) THEN late ELSE late \cup {k}
        /\ UNCHANGED <<request, plan, stage, work, cursor, written, statuses, manifest, report, exit>>
    BY <1>3 DEF Disturb, TypeOK
  <2>2. JobsFollowTheStage'
    BY <2>1, PlanFacts, SettledFacts
    DEF JobsFollowTheStage, InPersistence, Passed, Ahead, Kept, Fresh, Untold, Settled, Early, Closing
  <2>3. NothingIsDisturbedEarly' /\ WrittenIsPersistable'
    BY <2>1, SettledFacts
    DEF NothingIsDisturbedEarly, WrittenIsPersistable, Persistable, JobsFollowTheStage, Fresh, Untold
  <2>4. ReadIsUnchanged'
    BY <2>1, PlanFacts, SettledFacts DEF ReadIsUnchanged, HasBeenRead, WillBeRead, LastPass, TypeOK
  <2>5. ManifestIsFinal' /\ DisturbanceIsCounted'
    BY <2>1, FaultAssumption, SettledFacts
    DEF ManifestIsFinal, DisturbanceIsCounted, Ended, Outcome, Problems, TypeOK
  <2>6. RuntimeLaneIsGated' /\ ManifestTellsTheRun'
    BY <2>1, SettledFacts DEF RuntimeLaneIsGated, ManifestTellsTheRun, Ended, LaneJobs
  <2>7. OnlyFaultsLeaveARunOpen'
    BY <2>1, FaultAssumption DEF OnlyFaultsLeaveARunOpen, TypeOK
  <2> QED
    BY <2>2, <2>3, <2>4, <2>5, <2>6, <2>7
<1> QED
  BY <1>1, <1>2, <1>3

---------------------------------------------------------------------------
LEMMA RunInvInit == Init => RunInv
<1> SUFFICES ASSUME Init PROVE RunInv
  OBVIOUS
<1>1. plan = <<>> /\ Jobs = {} /\ Cardinality(Jobs) = 0
  BY FS_EmptySet DEF Init, Jobs
<1>2. TypeOK
  <2>1. plan \in Seq(JobsOf(request)) /\ cursor \in 1..(Cardinality(Jobs) + 1)
    BY <1>1 DEF Init
  <2>2. /\ work \in [Jobs -> {"queued", "running", "raised"} \cup Classifications]
        /\ statuses \in [Jobs -> Statuses]
        /\ disk \in [Jobs -> {"absent", "damaged"} \cup Classifications]
        /\ manifest \in [status: {"absent", "running", "error", "verdict", "pass"}, jobs: [Jobs -> Statuses]]
    BY DEF Init, Statuses
  <2>3. /\ request \in Requests /\ stage \in Stages /\ written \in BOOLEAN
        /\ report \in {"none", "verdict", "pass"} /\ exit \in {"none", "0", "1", "2", "killed"}
    BY DEF Init, Stages
  <2>4. late \subseteq disturbed /\ disturbed \subseteq Jobs /\ faults \in 0..MaxFaults
    BY FaultAssumption DEF Init
  <2> QED
    BY <2>1, <2>2, <2>3, <2>4 DEF TypeOK, Statuses
<1>3. ProgressInv
  BY <1>1 DEF Init, ProgressInv, JobsFollowTheStage, NothingIsDisturbedEarly, WrittenIsPersistable,
              ReadIsUnchanged, ManifestIsFinal, DisturbanceIsCounted, Ended
<1>4. PromiseInv
  BY <1>1 DEF Init, PromiseInv, RuntimeLaneIsGated, ManifestTellsTheRun, OnlyFaultsLeaveARunOpen, Ended,
              LaneJobs
<1> QED
  BY <1>2, <1>3, <1>4 DEF RunInv

LEMMA RunInvStep == RunInv /\ [Next]_vars => RunInv'
<1> SUFFICES ASSUME RunInv, [Next]_vars PROVE RunInv'
  OBVIOUS
<1>1. TypeOK'
  BY TypeStep
<1>2. CASE Next /\ ~UNCHANGED vars
  <2>1. CASE Command
    <3>1. CASE \E lane \in Lanes : RunLane(lane)
      BY <1>1, <3>1, CloseLaneKeeps, PersistenceKeeps DEF RunLane, RunInv
    <3>2. CASE \E j \in Jobs : Job(j)
      BY <1>1, <3>2, JobsKeep DEF RunInv
    <3>3. CASE Discover \/ PlanRefused \/ DiscoveryRaises \/ Claim \/ ClaimRefused \/ Announce
      BY <1>1, <3>3, BeginningKeeps DEF RunInv
    <3>4. CASE ReportStandardLane \/ ReportRuntimeLane
      BY <1>1, <3>4, ReportsKeep DEF RunInv
    <3>5. CASE Summarise \/ EndSummary \/ WriteFinalManifest \/ RenderJob \/ WriteReport \/ Exit
      BY <1>1, <3>5, ClosingKeeps DEF RunInv
    <3> QED
      BY <2>1, <3>1, <3>2, <3>3, <3>4, <3>5 DEF Command
  <2> QED
    BY <1>1, <1>2, <2>1, EnvironmentKeeps DEF Next, Over, RunInv
<1>3. CASE UNCHANGED vars
  <2> USE <1>3, SettledFacts DEF vars, RunInv, ProgressInv, PromiseInv, Ended
  <2>1. JobsFollowTheStage' /\ NothingIsDisturbedEarly'
    BY DEF JobsFollowTheStage, NothingIsDisturbedEarly, InPersistence, Passed, Ahead, Kept, Fresh,
           Untold, Settled
  <2>2. WrittenIsPersistable' /\ ReadIsUnchanged' /\ ManifestIsFinal' /\ DisturbanceIsCounted'
    BY DEF WrittenIsPersistable, Persistable, ReadIsUnchanged, HasBeenRead, ManifestIsFinal, Outcome,
           Problems, DisturbanceIsCounted
  <2>3. PromiseInv'
    BY DEF RuntimeLaneIsGated, ManifestTellsTheRun, OnlyFaultsLeaveARunOpen
  <2> QED
    BY <1>1, <2>1, <2>2, <2>3
<1> QED
  BY <1>1, <1>2, <1>3 DEF RunInv

(* Type correctness: every variable keeps its type through faults, aborts   *)
(* and kills (eval_cli.py, run_eval).                                       *)
THEOREM TypeCorrect == Spec => []TypeOK
<1>1. RunInv => TypeOK
  BY DEF RunInv
<1> QED
  BY <1>1, RunInvInit, RunInvStep, PTL DEF Spec

(* No runtime job starts before every standard job has its verdict and its  *)
(* durable artifact (the order of the lanes in run_eval).                   *)
THEOREM RuntimeLanesAreGated == Spec => []RuntimeLaneIsGated
<1>1. RunInv => RuntimeLaneIsGated
  BY DEF RunInv, PromiseInv
<1> QED
  BY <1>1, RunInvInit, RunInvStep, PTL DEF Spec

(* The final manifest and the disk tell of each job what happened to it,    *)
(* whatever raised (_persist_lane, _error_report and the final manifest).   *)
THEOREM ManifestsTellTheRun == Spec => []ManifestTellsTheRun
<1>1. RunInv => ManifestTellsTheRun
  BY DEF RunInv, PromiseInv
<1> QED
  BY <1>1, RunInvInit, RunInvStep, PTL DEF Spec

(* Only a storage fault or a kill leaves a run that started a job without   *)
(* its final manifest (the exceptions of jobs in _run_lane).                *)
THEOREM RunsAreClosed == Spec => []OnlyFaultsLeaveARunOpen
<1>1. RunInv => OnlyFaultsLeaveARunOpen
  BY DEF RunInv, PromiseInv
<1> QED
  BY <1>1, RunInvInit, RunInvStep, PTL DEF Spec

---------------------------------------------------------------------------
(* The plan stays the one that was made of the request, which was not       *)
(* refused; PlanFollows says what such a plan is.                           *)
PlanIsDue ==
  stage \notin {"discover", "over"} =>
    plan = Plan(request) /\ ~SelectionIsMissing(request) /\ ~PlanIsRefused(request)

LEMMA PlanIsDueStep == RunInv /\ PlanIsDue /\ [Next]_vars => PlanIsDue'
<1> SUFFICES ASSUME RunInv, PlanIsDue, [Next]_vars PROVE PlanIsDue'
  OBVIOUS
<1> DEFINE Goes == /\ UNCHANGED <<request, plan>>
                   /\ stage' = stage \/ stage \notin {"discover", "over"} \/ stage' \in {"discover", "over"}
<1>1. CASE Discover
  BY <1>1 DEF Discover, PlanIsDue
<1>2. CASE Goes
  BY <1>2 DEF PlanIsDue
<1> USE DEF storage, settled, Abort
<1>3. CASE PlanRefused \/ DiscoveryRaises \/ Claim \/ ClaimRefused \/ Announce
  <2>1. Goes
    BY <1>3 DEF PlanRefused, DiscoveryRaises, Claim, ClaimRefused, Announce
  <2> QED
    BY <1>2, <2>1
<1>4. CASE \E j \in Jobs : Job(j)
  <2>1. Goes
    BY <1>4 DEF Job, StartJob, FinishJob, JobRaises
  <2> QED
    BY <1>2, <2>1
<1>5. CASE \E lane \in Lanes : RunLane(lane)
  <2>1. Goes
    BY <1>5 DEF RunLane, CloseLane, WriteArtifact, VerifyArtifact, SkipJob, Lanes
  <2> QED
    BY <1>2, <2>1
<1>6. CASE ReportStandardLane \/ ReportRuntimeLane \/ Summarise \/ EndSummary
  <2>1. Goes
    BY <1>6 DEF ReportStandardLane, ReportRuntimeLane, Summarise, EndSummary
  <2> QED
    BY <1>2, <2>1
<1>7. CASE WriteFinalManifest \/ RenderJob \/ WriteReport \/ Exit
  <2>1. Goes
    BY <1>7 DEF WriteFinalManifest, RenderJob, WriteReport, Exit
  <2> QED
    BY <1>2, <2>1
<1>8. CASE StorageError \/ Kill \/ (\E j \in Jobs : Disturb(j)) \/ UNCHANGED vars
  <2>1. Goes
    BY <1>8 DEF StorageError, StorageFails, Kill, Disturb, vars
  <2> QED
    BY <1>2, <2>1
<1> QED
  BY <1>1, <1>3, <1>4, <1>5, <1>6, <1>7, <1>8 DEF Next, Command, Over

LEMMA SelectionHolds == TypeOK /\ PlanIsDue => PlanIsTheSelection
<1> SUFFICES ASSUME TypeOK, PlanIsDue, stage \notin {"discover", "over"} PROVE PlanIsTheSelection
  BY DEF PlanIsTheSelection
<1> DEFINE r == request
           s == r.suite
           Chosen == {c \in CasesOf(s) : r.all \/ c.selectors \cap r.selectors # {}}
           Key(j) == <<plan[j].case.id, plan[j].iteration>>
           Position(j) == CHOOSE i \in DOMAIN s : s[i] = plan[j].case
<1>1. r \in Requests /\ plan = Plan(r) /\ ~SelectionIsMissing(r) /\ ~PlanIsRefused(r)
  BY DEF TypeOK, PlanIsDue
<1>2. /\ s \in Seq(CasesOf(s)) /\ r.all \in BOOLEAN /\ r.iterations \in Nat /\ r.iterations >= 1
      /\ r.all \/ r.selectors # {}
  BY <1>1, RequestAssumption DEF PlanIsRefused, SelectionIsMissing
<1>3. \A i, j \in DOMAIN s : s[i].id = s[j].id => i = j
  BY <1>1 DEF PlanIsRefused, SuiteIsValid
<1>4. PICK at : Follows(r, plan, at)
  BY <1>1, PlanIsTyped
<1>5. /\ \A j \in Jobs : at[j] \in Wanted(r) /\ plan[j].case = s[at[j]] /\ plan[j].iteration \in 1..r.iterations
      /\ \A c \in Wanted(r), i \in 1..r.iterations : \E j \in Jobs : at[j] = c /\ plan[j].iteration = i
      /\ \A i, j \in Jobs : i < j =>
           /\ Lane(j) = "standard" => Lane(i) = "standard"
           /\ Lane(i) = Lane(j) =>
                  at[i] < at[j] \/ (at[i] = at[j] /\ plan[i].iteration < plan[j].iteration)
  BY <1>4 DEF Follows, Jobs, Lane
<1>6. Wanted(r) = {i \in DOMAIN s : r.all \/ s[i].selectors \cap r.selectors # {}}
  BY <1>2 DEF Wanted, Named
<1>7. DOMAIN s \subseteq Nat /\ DOMAIN s = 1..Len(s)
  BY <1>2
<1> HIDE DEF r, s
<1>8. Wanted(r) \subseteq DOMAIN s /\ Wanted(r) \subseteq Nat
  BY <1>6, <1>7
<1>9. \A j \in Jobs : Position(j) = at[j]
  <2> SUFFICES ASSUME NEW j \in Jobs PROVE Position(j) = at[j]
    OBVIOUS
  <2>1. at[j] \in DOMAIN s /\ s[at[j]] = plan[j].case
    BY <1>5, <1>8
  <2>2. \A i \in DOMAIN s : s[i] = plan[j].case => i = at[j]
    BY <1>3, <2>1
  <2> QED
    BY <2>1, <2>2
<1> HIDE DEF Position
<1>10. {Key(j) : j \in Jobs} = {c.id : c \in Chosen} \X (1..r.iterations)
  <2>1. ASSUME NEW j \in Jobs
        PROVE  Key(j) \in {c.id : c \in Chosen} \X (1..r.iterations)
    <3>1. plan[j].case \in Chosen
      BY <1>5, <1>6 DEF CasesOf
    <3> HIDE DEF Chosen
    <3> QED
      BY <1>5, <3>1
  <2>2. ASSUME NEW c \in Chosen, NEW i \in 1..r.iterations
        PROVE  \E j \in Jobs : Key(j) = <<c.id, i>>
    <3>1. PICK k \in Wanted(r) : s[k] = c
      BY <1>6 DEF CasesOf
    <3>2. PICK j \in Jobs : at[j] = k /\ plan[j].iteration = i
      BY <1>5
    <3>3. plan[j].case = c
      BY <1>5, <3>1, <3>2
    <3> QED
      BY <3>2, <3>3
  <2> HIDE DEF Key, Chosen
  <2>3. \A x \in {c.id : c \in Chosen} \X (1..r.iterations) : \E j \in Jobs : Key(j) = x
    BY <2>2
  <2> QED
    BY <2>1, <2>3
<1>11. ASSUME NEW i \in Jobs, NEW j \in Jobs, i < j
       PROVE  /\ Key(i) # Key(j)
              /\ Lane(j) = "standard" => Lane(i) = "standard"
              /\ Lane(i) = Lane(j) => \/ Position(i) < Position(j)
                                      \/ Position(i) = Position(j) /\ plan[i].iteration < plan[j].iteration
  <2>1. /\ at[i] \in DOMAIN s /\ at[j] \in DOMAIN s /\ at[i] \in Nat /\ at[j] \in Nat
        /\ plan[i].case = s[at[i]] /\ plan[j].case = s[at[j]]
        /\ plan[i].iteration \in Nat /\ plan[j].iteration \in Nat
    BY <1>2, <1>5, <1>8
  <2>2. Lane(i) = Lane(j) =>
             at[i] < at[j] \/ (at[i] = at[j] /\ plan[i].iteration < plan[j].iteration)
    BY <1>5, <1>11
  <2>3. Key(i) # Key(j)
    <3> SUFFICES ASSUME plan[i].case.id = plan[j].case.id, plan[i].iteration = plan[j].iteration
                 PROVE  FALSE
      OBVIOUS
    <3>1. at[i] = at[j]
      BY <1>3, <2>1
    <3>2. Lane(i) = Lane(j)
      BY <2>1, <3>1 DEF Lane
    <3> QED
      BY <2>1, <2>2, <3>1, <3>2
  <2> QED
    BY <1>5, <1>9, <1>11, <2>2, <2>3
<1>12. Jobs # {}
  <2>1. Wanted(r) # {}
    <3>1. Selected(r) # <<>> /\ Selected(r) \in Seq(CasesOf(s)) /\ \E e : Gathers(Selected(r), s, Wanted(r), e)
      BY <1>1, <1>2, SelectedFacts DEF PlanIsRefused, s
    <3>2. PICK e : Gathers(Selected(r), s, Wanted(r), e)
      BY <3>1
    <3>3. 1 \in 1..Len(Selected(r))
      BY <3>1
    <3> QED
      BY <3>2, <3>3 DEF Gathers
  <2>2. 1 \in 1..r.iterations
    BY <1>2
  <2> QED
    BY <1>5, <2>1, <2>2
<1> QED
  BY <1>2, <1>10, <1>11, <1>12 DEF PlanIsTheSelection, Position, r, s

(* The jobs of a run are the iterations of the cases it was asked for, each *)
(* once and in order (eval_plan.py, build_run_plan, and run_eval).          *)
THEOREM PlansAreTheSelection == Spec => []PlanIsTheSelection
<1>1. Init => PlanIsDue
  BY DEF Init, PlanIsDue
<1>2. RunInv => TypeOK
  BY DEF RunInv
<1> QED
  BY <1>1, <1>2, RunInvInit, RunInvStep, PlanIsDueStep, SelectionHolds, PTL DEF Spec

---------------------------------------------------------------------------
(* Termination.  Each step uses up a number that is never negative: the     *)
(* runs of jobs and the faults that are left, and the steps from here to    *)
(* the end of the command.                                                  *)

Queued == {j \in Jobs : work[j] = "queued"}
ToBeRun == 2 * Cardinality(Queued) + Cardinality(Running)
FaultsLeft == MaxFaults - faults
JobsAhead == Cardinality(Jobs) + 1 - cursor
ToBePersisted == 2 * JobsAhead - IF written THEN 1 ELSE 0
AtTheStart ==
    IF SelectionIsMissing(request) \/ PlanIsRefused(request) THEN 1 ELSE 11 + 8 * Len(Plan(request))
Distance ==
    [discover |-> AtTheStart, claim |-> 10 + 6 * Cardinality(Jobs), announce |-> 9 + 6 * Cardinality(Jobs),
     standard |-> 8 + 6 * Cardinality(Jobs),
     persist_standard |-> 7 + 4 * Cardinality(Jobs) + ToBePersisted,
     runtime |-> 6 + 4 * Cardinality(Jobs),
     persist_runtime |-> 5 + 2 * Cardinality(Jobs) + ToBePersisted,
     summary |-> 4 + Cardinality(Jobs) + JobsAhead, final |-> 3 + Cardinality(Jobs),
     render |-> 2 + JobsAhead, exit |-> 1, over |-> 0][stage]

LEMMA StepsLeftIsASum == StepsLeft = ToBeRun + FaultsLeft + Distance
BY DEF StepsLeft, ToBeRun, FaultsLeft, Queued, JobsAhead, ToBePersisted, AtTheStart, Distance

(* The distance at each stage.                                              *)
Ladder ==
    /\ stage = "discover" => Distance = AtTheStart
    /\ stage = "claim" => Distance = 10 + 6 * Cardinality(Jobs)
    /\ stage = "announce" => Distance = 9 + 6 * Cardinality(Jobs)
    /\ stage = "standard" => Distance = 8 + 6 * Cardinality(Jobs)
    /\ stage = "persist_standard" => Distance = 7 + 4 * Cardinality(Jobs) + ToBePersisted
    /\ stage = "runtime" => Distance = 6 + 4 * Cardinality(Jobs)
    /\ stage = "persist_runtime" => Distance = 5 + 2 * Cardinality(Jobs) + ToBePersisted
    /\ stage = "summary" => Distance = 4 + Cardinality(Jobs) + JobsAhead
    /\ stage = "final" => Distance = 3 + Cardinality(Jobs)
    /\ stage = "render" => Distance = 2 + JobsAhead
    /\ stage = "exit" => Distance = 1
    /\ stage = "over" => Distance = 0

LEMMA StepsAreALadder == Ladder
BY DEF Ladder, Distance

(* Nothing in the sum is ever negative, and only a command that is over has *)
(* no distance to go.                                                       *)
Measured ==
    /\ Cardinality(Jobs) \in Nat /\ JobsAhead \in Nat
    /\ ToBeRun \in Nat /\ FaultsLeft \in Nat /\ Distance \in Nat
    /\ stage # "over" => ToBePersisted \in Nat /\ Distance > 0
    /\ ~written => ToBePersisted = 2 * JobsAhead

LEMMA QueuedAndRunning ==
  ASSUME TypeOK
  PROVE  /\ IsFiniteSet(Queued) /\ IsFiniteSet(Running)
         /\ Cardinality(Queued) \in Nat /\ Cardinality(Running) \in Nat
<1>1. IsFiniteSet(Jobs)
  BY PlanFacts
<1>2. Queued \subseteq Jobs /\ Running \subseteq Jobs
  BY DEF Queued, Running
<1>3. IsFiniteSet(Queued) /\ IsFiniteSet(Running)
  BY <1>1, <1>2, FS_Subset
<1> QED
  BY <1>3, FS_CardinalityType

LEMMA StepsAreMeasured == RunInv => Measured
<1> SUFFICES ASSUME RunInv PROVE Measured
  OBVIOUS
<1>1. TypeOK /\ WrittenIsPersistable
  BY DEF RunInv, ProgressInv
<1>2. Cardinality(Jobs) \in Nat /\ cursor \in 1..(Cardinality(Jobs) + 1) /\ Jobs = 1..Cardinality(Jobs)
  BY <1>1, PlanFacts DEF TypeOK
<1>3. ToBeRun \in Nat
  BY <1>1, QueuedAndRunning DEF ToBeRun
<1>4. FaultsLeft \in Nat
  BY <1>1, FaultAssumption DEF TypeOK, FaultsLeft
<1>5. JobsAhead \in Nat
  BY <1>2 DEF JobsAhead
<1>6. stage # "over" /\ written => JobsAhead > 0
  <2> SUFFICES ASSUME stage # "over", written PROVE JobsAhead > 0
    OBVIOUS
  <2>1. cursor \in Jobs
    BY <1>1 DEF WrittenIsPersistable, Persistable, LaneJobs
  <2> QED
    BY <1>2, <2>1 DEF JobsAhead
<1>7. /\ stage # "over" => ToBePersisted \in Nat
      /\ ~written => ToBePersisted = 2 * JobsAhead
  BY <1>5, <1>6 DEF ToBePersisted
<1>8. stage = "discover" => AtTheStart \in Nat /\ AtTheStart > 0
  BY <1>1, PlanIsTyped DEF TypeOK, AtTheStart
<1>9. stage \in Stages
  BY <1>1 DEF TypeOK
<1>10. Distance \in Nat /\ (stage # "over" => Distance > 0)
  <2>1. CASE stage = "discover"
    <3>1. Distance = AtTheStart
      BY <2>1, StepsAreALadder DEF Ladder
    <3>2. AtTheStart \in Nat /\ AtTheStart > 0
      BY <1>8, <2>1
    <3> QED
      BY <3>1, <3>2
  <2>2. CASE stage = "over"
    <3>1. Distance = 0
      BY <2>2, StepsAreALadder DEF Ladder
    <3> QED
      BY <2>2, <3>1
  <2>3. CASE stage \in {"persist_standard", "persist_runtime"}
    <3>1. ToBePersisted \in Nat
      BY <1>7, <2>3
    <3>2. \/ Distance = 7 + 4 * Cardinality(Jobs) + ToBePersisted
          \/ Distance = 5 + 2 * Cardinality(Jobs) + ToBePersisted
      BY <2>3, StepsAreALadder DEF Ladder
    <3> QED
      BY <1>2, <3>1, <3>2
  <2>4. CASE stage \in {"claim", "announce", "standard", "runtime", "summary", "final", "render", "exit"}
    <3>1. \/ Distance = 10 + 6 * Cardinality(Jobs)
          \/ Distance = 9 + 6 * Cardinality(Jobs)
          \/ Distance = 8 + 6 * Cardinality(Jobs)
          \/ Distance = 6 + 4 * Cardinality(Jobs)
          \/ Distance = 4 + Cardinality(Jobs) + JobsAhead
          \/ Distance = 3 + Cardinality(Jobs)
          \/ Distance = 2 + JobsAhead
          \/ Distance = 1
      BY <2>4, StepsAreALadder DEF Ladder
    <3>2. Cardinality(Jobs) \in Nat
      BY <1>2
    <3>3. Distance \in Nat /\ Distance > 0
      BY <1>5, <3>1, <3>2
    <3> QED
      BY <3>3
  <2> QED
    BY <1>9, <2>1, <2>2, <2>3, <2>4 DEF Stages
<1> QED
  BY <1>2, <1>3, <1>4, <1>5, <1>7, <1>10 DEF Measured

(* What a step that leaves the plan alone does to the terms of StepsLeft.   *)
LEMMA TermsFollow ==
  /\ UNCHANGED plan => Cardinality(Jobs)' = Cardinality(Jobs)
  /\ UNCHANGED <<plan, work>> => ToBeRun' = ToBeRun
  /\ UNCHANGED faults => FaultsLeft' = FaultsLeft
  /\ UNCHANGED <<plan, cursor>> => JobsAhead' = JobsAhead
  /\ UNCHANGED <<request, plan, stage, cursor, written>> => Distance' = Distance
<1>1. UNCHANGED <<request, plan, stage, cursor, written>> =>
          UNCHANGED <<Cardinality(Jobs), AtTheStart, JobsAhead, ToBePersisted, stage>>
  BY DEF Jobs, AtTheStart, JobsAhead, ToBePersisted
<1>2. UNCHANGED <<Cardinality(Jobs), AtTheStart, JobsAhead, ToBePersisted, stage>> => Distance' = Distance
  BY Zenon DEF Distance
<1> QED
  BY <1>1, <1>2 DEF Jobs, ToBeRun, Queued, Running, FaultsLeft, JobsAhead

LEMMA SumsDescend ==
  ASSUME NEW runs \in Nat, NEW faulty \in Nat, NEW far \in Nat,
         NEW runs2 \in Nat, NEW faulty2 \in Nat, NEW far2 \in Nat,
         runs2 <= runs, faulty2 <= faulty, far2 <= far,
         runs2 < runs \/ faulty2 < faulty \/ far2 < far
  PROVE  runs2 + faulty2 + far2 \in Nat /\ runs2 + faulty2 + far2 < runs + faulty + far
OBVIOUS

Descends == StepsLeft' \in Nat /\ StepsLeft' < StepsLeft

LEMMA Descent ==
  ASSUME Measured, Measured', ToBeRun' <= ToBeRun, FaultsLeft' <= FaultsLeft, Distance' <= Distance,
         ToBeRun' < ToBeRun \/ FaultsLeft' < FaultsLeft \/ Distance' < Distance
  PROVE  Descends
<1>1. /\ ToBeRun \in Nat /\ FaultsLeft \in Nat /\ Distance \in Nat
      /\ ToBeRun' \in Nat /\ FaultsLeft' \in Nat /\ Distance' \in Nat
  BY DEF Measured
<1>2. /\ ToBeRun' + FaultsLeft' + Distance' \in Nat
      /\ ToBeRun' + FaultsLeft' + Distance' < ToBeRun + FaultsLeft + Distance
  BY <1>1, SumsDescend
<1>3. StepsLeft = ToBeRun + FaultsLeft + Distance
  BY StepsLeftIsASum
<1>4. StepsLeft' = ToBeRun' + FaultsLeft' + Distance'
  BY DEF StepsLeft, ToBeRun, FaultsLeft, Queued, JobsAhead, ToBePersisted, AtTheStart, Distance
<1> QED
  BY <1>2, <1>3, <1>4 DEF Descends

(* Whatever ends the command is a step.                                     *)
LEMMA EndingCounts ==
  ASSUME Measured, Measured', UNCHANGED <<plan, work>>, stage # "over", stage' = "over",
         FaultsLeft' <= FaultsLeft
  PROVE  Descends
<1>1. Distance' = 0
  BY DEF Distance
<1>2. Distance > 0 /\ Distance \in Nat /\ ToBeRun \in Nat
  BY DEF Measured
<1>3. ToBeRun' = ToBeRun
  BY TermsFollow
<1> QED
  BY <1>1, <1>2, <1>3, Descent

(* Starting and ending a job.                                               *)
LEMMA JobsCount ==
  ASSUME TypeOK, NEW j \in Jobs, Job(j)
  PROVE  ToBeRun' = ToBeRun - 1
<1>1. /\ IsFiniteSet(Queued) /\ IsFiniteSet(Running)
      /\ Cardinality(Queued) \in Nat /\ Cardinality(Running) \in Nat
  BY QueuedAndRunning
<1>2. Jobs' = Jobs
  BY DEF Job, StartJob, FinishJob, JobRaises, settled, Jobs
<1>3. CASE StartJob(j)
  <2>1. /\ j \in Queued /\ j \notin Running
        /\ Queued' = Queued \ {j} /\ Running' = Running \cup {j}
    BY <1>2, <1>3 DEF StartJob, Queued, Running, TypeOK
  <2>2. /\ Cardinality(Queued \ {j}) = Cardinality(Queued) - 1
        /\ Cardinality(Running \cup {j}) = Cardinality(Running) + 1
    BY <1>1, <2>1, FS_RemoveElement, FS_AddElement
  <2> QED
    BY <1>1, <2>1, <2>2 DEF ToBeRun
<1>4. CASE FinishJob(j) \/ JobRaises(j)
  <2>1. PICK c \in Classifications \cup {"raised"} : work' = [work EXCEPT ![j] = c] /\ work[j] = "running"
    BY <1>4 DEF FinishJob, JobRaises
  <2>2. c # "queued" /\ c # "running"
    BY <2>1, ClassificationFacts DEF Verdicts
  <2>3. j \in Running /\ Queued' = Queued /\ Running' = Running \ {j}
    BY <1>2, <2>1, <2>2 DEF Queued, Running, TypeOK
  <2>4. Cardinality(Running \ {j}) = Cardinality(Running) - 1
    BY <1>1, <2>3, FS_RemoveElement
  <2> QED
    BY <1>1, <2>3, <2>4 DEF ToBeRun
<1> QED
  BY <1>3, <1>4 DEF Job

(* Every job of a new plan is still to be run: what the plan adds to the    *)
(* runs was part of the distance before.                                    *)
LEMMA PlanCounts ==
  ASSUME Measured, Measured', TypeOK', Discover
  PROVE  Descends
<1> DEFINE n == Len(Plan(request))
<1>1. /\ plan' = Plan(request) /\ work' = [j \in DOMAIN plan' |-> "queued"] /\ request' = request
      /\ stage = "discover" /\ stage' = "claim" /\ UNCHANGED faults
      /\ ~SelectionIsMissing(request) /\ ~PlanIsRefused(request)
  BY DEF Discover
<1>2. Jobs' = 1..n /\ n \in Nat
  BY <1>1 DEF TypeOK, Jobs
<1>3. Queued' = Jobs' /\ Running' = {}
  BY <1>1 DEF Queued, Running, Jobs
<1>4. Distance = 11 + 8 * n
  BY <1>1 DEF Distance, AtTheStart
<1> HIDE DEF n
<1>5. Cardinality(Jobs') = n
  BY <1>2, FS_Interval, SMTT(30)
<1>6. Cardinality({}) = 0
  BY FS_EmptySet
<1>7. ToBeRun' = 2 * n
  BY <1>2, <1>3, <1>5, <1>6 DEF ToBeRun
<1>8. Distance' = 10 + 6 * n
  BY <1>1, <1>5 DEF Distance
<1>9. FaultsLeft' = FaultsLeft /\ FaultsLeft \in Nat /\ ToBeRun \in Nat
  BY <1>1, TermsFollow DEF Measured
<1>10. StepsLeft = ToBeRun + FaultsLeft + Distance
  BY StepsLeftIsASum
<1>11. StepsLeft' = ToBeRun' + FaultsLeft' + Distance'
  BY DEF StepsLeft, ToBeRun, FaultsLeft, Queued, JobsAhead, ToBePersisted, AtTheStart, Distance
<1> QED
  BY <1>2, <1>4, <1>7, <1>8, <1>9, <1>10, <1>11 DEF Descends

LEMMA OneFaultLess ==
  ASSUME NEW m \in Nat, NEW f \in Nat, NEW g \in Nat
  PROVE  /\ g = f + 1 => m - g < m - f
         /\ f <= g => m - g <= m - f
OBVIOUS

LEMMA StepsDescend ==
  ASSUME RunInv, TypeOK', Measured, Measured', Next
  PROVE  Descends \/ UNCHANGED vars
<1> DEFINE n == Cardinality(Jobs)
<1>1. TypeOK /\ MaxFaults \in Nat /\ faults \in Nat /\ faults' \in Nat
  BY FaultAssumption DEF RunInv, TypeOK
<1>2. ASSUME UNCHANGED <<plan, work>>, stage # "over", stage' = "over", faults' \in {faults, faults + 1}
      PROVE  Descends
  <2>1. faults <= faults'
    BY <1>1, <1>2
  <2>2. FaultsLeft = MaxFaults - faults /\ FaultsLeft' = MaxFaults - faults'
    BY DEF FaultsLeft
  <2>3. FaultsLeft' <= FaultsLeft
    BY <1>1, <2>1, <2>2, OneFaultLess
  <2> QED
    BY <1>2, <2>3, EndingCounts
<1>3. ASSUME UNCHANGED <<plan, work, faults>>, Distance' < Distance
      PROVE  Descends
  <2>1. ToBeRun' = ToBeRun /\ FaultsLeft' = FaultsLeft /\ ToBeRun \in Nat /\ FaultsLeft \in Nat
    BY <1>3, TermsFollow DEF Measured
  <2>2. Distance \in Nat /\ Distance' \in Nat
    BY DEF Measured
  <2> QED
    BY <1>3, <2>1, <2>2, Descent
<1>4. CASE Discover
  BY <1>4, PlanCounts
<1>5. CASE PlanRefused \/ DiscoveryRaises \/ ClaimRefused \/ Exit \/ Kill \/ StorageError
  <2>1. /\ stage' = "over" /\ stage # "over" /\ faults' \in {faults, faults + 1} /\ UNCHANGED <<plan, work>>
    BY <1>5 DEF PlanRefused, DiscoveryRaises, ClaimRefused, Exit, Kill, StorageError, StorageFails, Abort,
                settled, Persistable, Persisting, Lanes
  <2> QED
    BY <1>2, <2>1
<1>6. ASSUME NEW j \in Jobs, Job(j)
      PROVE  Descends
  <2>1. /\ UNCHANGED <<request, plan, cursor, written, stage, faults>>
    BY <1>6 DEF Job, StartJob, FinishJob, JobRaises, settled
  <2>2. ToBeRun' = ToBeRun - 1
    BY <1>1, <1>6, JobsCount
  <2>3. FaultsLeft' = FaultsLeft /\ Distance' = Distance
    BY <2>1, TermsFollow
  <2>4. ToBeRun \in Nat /\ FaultsLeft \in Nat /\ Distance \in Nat
    BY DEF Measured
  <2> QED
    BY <2>2, <2>3, <2>4, Descent
<1>7. n \in Nat /\ cursor \in 1..(n + 1) /\ Jobs = 1..n
  BY <1>1, PlanFacts DEF TypeOK
<1>8. written /\ stage # "over" => \E lane \in Lanes : Persistable(lane)
  BY DEF RunInv, ProgressInv, WrittenIsPersistable
<1>9. UNCHANGED plan => n' = n
  BY TermsFollow
<1>10. JobsAhead = n + 1 - cursor /\ JobsAhead' = n' + 1 - cursor'
  BY DEF JobsAhead
<1>11. /\ ToBePersisted = 2 * JobsAhead - IF written THEN 1 ELSE 0
       /\ ToBePersisted' = 2 * JobsAhead' - IF written' THEN 1 ELSE 0
  BY DEF ToBePersisted
<1>12. CASE Claim \/ Announce
  <2>1. /\ UNCHANGED <<plan, work, faults>>
        /\ \/ stage = "claim" /\ stage' = "announce"
           \/ stage = "announce" /\ stage' = "standard"
    BY <1>12 DEF Claim, Announce, settled
  <2>2. \/ Distance = 10 + 6 * n /\ Distance' = 9 + 6 * n'
        \/ Distance = 9 + 6 * n /\ Distance' = 8 + 6 * n'
    BY <2>1 DEF Distance
  <2> HIDE DEF n
  <2> QED
    BY <1>3, <1>7, <1>9, <2>1, <2>2
<1>13. ASSUME NEW lane \in Lanes, CloseLane(lane)
       PROVE  Descends
  <2>1. /\ UNCHANGED <<plan, work, faults, written>> /\ cursor' = 1
        /\ \/ stage = "standard" /\ stage' = "persist_standard"
           \/ stage = "runtime" /\ stage' = "persist_runtime"
    BY <1>13 DEF CloseLane, settled, Lanes, Persisting
  <2>2. ~written'
    BY <1>8, <2>1 DEF Persistable, Persisting, Lanes
  <2> HIDE DEF n
  <2>3. ToBePersisted' = 2 * n
    BY <1>7, <1>9, <1>10, <1>11, <2>1, <2>2
  <2>4. \/ Distance = 8 + 6 * Cardinality(Jobs) /\ Distance' = 7 + 4 * Cardinality(Jobs)' + ToBePersisted'
        \/ Distance = 6 + 4 * Cardinality(Jobs) /\ Distance' = 5 + 2 * Cardinality(Jobs)' + ToBePersisted'
    BY <2>1 DEF Distance
  <2>5. \/ Distance = 8 + 6 * n /\ Distance' = 7 + 4 * n + 2 * n
        \/ Distance = 6 + 4 * n /\ Distance' = 5 + 2 * n + 2 * n
    BY <1>9, <2>1, <2>3, <2>4 DEF n
  <2> QED
    BY <1>3, <1>7, <2>1, <2>5
(* In a pass that persists, an artifact takes two steps and each job one.   *)
<1>14. ASSUME UNCHANGED <<plan, work, faults, stage>>, stage \in {"persist_standard", "persist_runtime"},
              ToBePersisted' < ToBePersisted
       PROVE  Descends
  <2>1. \/ Distance = 7 + 4 * n + ToBePersisted /\ Distance' = 7 + 4 * n' + ToBePersisted'
        \/ Distance = 5 + 2 * n + ToBePersisted /\ Distance' = 5 + 2 * n' + ToBePersisted'
    BY <1>14 DEF Distance
  <2>2. ToBePersisted \in Nat /\ ToBePersisted' \in Nat
    BY <1>14 DEF Measured
  <2> HIDE DEF n
  <2> QED
    BY <1>3, <1>7, <1>9, <1>14, <2>1, <2>2
<1>15. ASSUME NEW lane \in Lanes, WriteArtifact(lane) \/ VerifyArtifact(lane) \/ SkipJob(lane)
       PROVE  Descends
  <2>1. /\ UNCHANGED <<plan, work, faults>> /\ stage \in {"persist_standard", "persist_runtime"}
        /\ cursor \in Jobs
    BY <1>15 DEF WriteArtifact, VerifyArtifact, SkipJob, Persistable, Persisting, Lanes, LaneJobs, Abort, settled
  <2>2. CASE stage' = "over"
    BY <1>2, <2>1, <2>2
  <2>3. CASE stage' = stage
    <3>1. \/ ~written /\ written' /\ cursor' = cursor
          \/ written /\ ~written' /\ cursor' = cursor + 1
          \/ written' = written /\ cursor' = cursor + 1
      BY <1>15, <2>1, <2>3 DEF WriteArtifact, VerifyArtifact, SkipJob, Abort
    <3> HIDE DEF n
    <3>2. cursor \in Nat /\ n' = n /\ JobsAhead \in Int
      BY <1>7, <1>9, <1>10, <2>1
    <3>3. \/ JobsAhead' = JobsAhead /\ ~written /\ written'
          \/ JobsAhead' = JobsAhead - 1 /\ (written' => written)
      BY <1>7, <1>10, <3>1, <3>2
    <3>4. ToBePersisted' < ToBePersisted
      BY <1>11, <3>2, <3>3
    <3> QED
      BY <1>14, <2>1, <2>3, <3>4
  <2>4. stage' \in {stage, "over"}
    BY <1>15 DEF WriteArtifact, VerifyArtifact, SkipJob, Abort
  <2> QED
    BY <2>2, <2>3, <2>4
<1>16. CASE ReportStandardLane \/ ReportRuntimeLane
  <2>1. /\ UNCHANGED <<plan, work, faults>> /\ cursor \notin Jobs
        /\ \/ stage = "persist_standard" /\ stage' = "runtime"
           \/ stage \in {"persist_standard", "persist_runtime"} /\ stage' = "summary" /\ cursor' = 1
    BY <1>16 DEF ReportStandardLane, ReportRuntimeLane, settled
  <2>2. ~written
    BY <1>8, <2>1 DEF Persistable, LaneJobs
  <2>3. /\ stage = "persist_standard" => Distance = 7 + 4 * n + ToBePersisted
        /\ stage = "persist_runtime" => Distance = 5 + 2 * n + ToBePersisted
        /\ stage' = "runtime" => Distance' = 6 + 4 * n'
        /\ stage' = "summary" => Distance' = 4 + n' + JobsAhead'
    BY DEF Distance
  <2> HIDE DEF n
  <2>4. JobsAhead = 0 /\ ToBePersisted = 0
    BY <1>7, <1>10, <1>11, <2>1, <2>2
  <2>5. cursor' = 1 => JobsAhead' = n
    BY <1>7, <1>9, <1>10, <2>1
  <2> QED
    BY <1>3, <1>7, <1>9, <2>1, <2>3, <2>4, <2>5
<1>17. CASE Summarise \/ RenderJob
  <2>1. /\ UNCHANGED <<plan, work, faults>> /\ stage \in {"summary", "render"}
        /\ stage' = "over" \/ (stage' = stage /\ cursor' = cursor + 1)
    BY <1>17 DEF Summarise, RenderJob, Abort, settled
  <2>2. CASE stage' = "over"
    BY <1>2, <2>1, <2>2
  <2>3. CASE stage' = stage /\ cursor' = cursor + 1
    <3>1. \/ Distance = 4 + n + JobsAhead /\ Distance' = 4 + n' + JobsAhead'
          \/ Distance = 2 + JobsAhead /\ Distance' = 2 + JobsAhead'
      BY <2>1, <2>3 DEF Distance
    <3> HIDE DEF n
    <3>2. JobsAhead' = JobsAhead - 1 /\ JobsAhead \in Int
      BY <1>7, <1>9, <1>10, <2>1, <2>3
    <3> QED
      BY <1>3, <1>7, <1>9, <2>1, <3>1, <3>2
  <2> QED
    BY <2>1, <2>2, <2>3
<1>18. CASE EndSummary \/ WriteFinalManifest \/ WriteReport
  <2>1. /\ UNCHANGED <<plan, work, faults>>
        /\ \/ stage = "summary" /\ stage' = "final"
           \/ stage = "final" /\ stage' \in {"render", "exit"} /\ cursor' = 1
           \/ stage = "render" /\ stage' = "exit"
    BY <1>18 DEF EndSummary, WriteFinalManifest, WriteReport, settled
  <2>2. /\ stage = "summary" => Distance = 4 + n + JobsAhead
        /\ stage = "final" => Distance = 3 + n
        /\ stage = "render" => Distance = 2 + JobsAhead
        /\ stage' = "final" => Distance' = 3 + n'
        /\ stage' = "render" => Distance' = 2 + JobsAhead'
        /\ stage' = "exit" => Distance' = 1
    BY DEF Distance
  <2>3. JobsAhead \in Nat
    BY DEF Measured
  <2> HIDE DEF n
  <2>4. cursor' = 1 => JobsAhead' = n
    BY <1>7, <1>9, <1>10, <2>1
  <2> QED
    BY <1>3, <1>7, <1>9, <2>1, <2>2, <2>3, <2>4
<1>19. ASSUME NEW j \in Jobs, Disturb(j)
       PROVE  Descends
  <2>1. UNCHANGED <<plan, work, stage, cursor, written, request>> /\ faults' = faults + 1
    BY <1>19 DEF Disturb
  <2>2. FaultsLeft = MaxFaults - faults /\ FaultsLeft' = MaxFaults - faults'
    BY DEF FaultsLeft
  <2>3. FaultsLeft' < FaultsLeft
    BY <1>1, <2>1, <2>2, OneFaultLess
  <2>4. ToBeRun' = ToBeRun /\ Distance' = Distance
    BY <2>1, TermsFollow
  <2>5. ToBeRun \in Nat /\ FaultsLeft \in Nat /\ FaultsLeft' \in Nat /\ Distance \in Nat
    BY DEF Measured
  <2> QED
    BY <2>3, <2>4, <2>5, Descent
<1> QED
  BY <1>4, <1>5, <1>6, <1>12, <1>13, <1>15, <1>16, <1>17, <1>18, <1>19 DEF Next, Command, RunLane, Over

(* Every step of a command leaves it fewer steps, for any plan, whatever    *)
(* its jobs and the storage do (run_eval, _run_lane, _persist_lane): no job *)
(* is run twice, no pass over the plan starts again, and the command cannot *)
(* go on for ever.                                                          *)
THEOREM StepsRunOut == Spec => StepsArePaidFor
<1>1. RunInv => TypeOK /\ Measured
  BY StepsAreMeasured DEF RunInv
<1>2. RunInv /\ Measured /\ TypeOK' /\ Measured' /\ [Next]_vars =>
        [StepsLeft' \in Nat /\ StepsLeft' < StepsLeft]_vars
  BY StepsDescend DEF Descends
<1> QED
  BY <1>1, <1>2, RunInvInit, RunInvStep, PTL DEF Spec, StepsArePaidFor

---------------------------------------------------------------------------
(* Exit status 0 and 1 are earned unless the profile's discovery raises an  *)
(* exception that run_eval does not expect, which exits with 1 as well.     *)
Expected == Raises \subseteq {"expected"}

LEMMA ExitStep == Expected /\ RunInv /\ ExitIsEarned /\ [Next]_vars => ExitIsEarned'
<1> SUFFICES ASSUME Expected, RunInv, ExitIsEarned, [Next]_vars PROVE ExitIsEarned'
  OBVIOUS
<1>1. CASE Exit
  <2>1. /\ stage = "exit" /\ exit' = ExitStatus[Outcome]
        /\ UNCHANGED <<request, plan, statuses, disk, manifest, report, disturbed, late>>
    BY <1>1 DEF Exit, storage, settled
  <2>2. manifest = [status |-> Outcome, jobs |-> statuses] /\ (Rendered => report = manifest.status)
    BY <2>1 DEF RunInv, ProgressInv, ManifestIsFinal
  <2>3. \A j \in Jobs \ late : statuses[j] \in Verdicts => disk[j] = statuses[j]
    BY <2>1 DEF RunInv, ProgressInv, ReadIsUnchanged, HasBeenRead
  <2>4. exit' \in {"0", "1"} => /\ \A j \in Jobs : statuses[j] \in Verdicts
                                /\ Outcome = IF exit' = "0" THEN "pass" ELSE "verdict"
                                /\ exit' = "0" <=> \A j \in Jobs : statuses[j] = "pass"
    <3>1. CASE Problems # {}
      BY <2>1, <3>1 DEF ExitStatus, Outcome
    <3>2. CASE Problems = {} /\ \E j \in Jobs : statuses[j] # "pass"
      <4>1. Outcome = "verdict" /\ exit' = "1"
        BY <2>1, <3>2 DEF ExitStatus, Outcome
      <4>2. \A j \in Jobs : statuses[j] \in Verdicts
        BY <3>2 DEF Problems
      <4>3. ~(exit' = "0") /\ ~\A j \in Jobs : statuses[j] = "pass"
        BY <3>2, <4>1
      <4>4. Outcome = IF exit' = "0" THEN "pass" ELSE "verdict"
        BY <4>1
      <4> QED
        BY <4>2, <4>3, <4>4
    <3>3. CASE Problems = {} /\ \A j \in Jobs : statuses[j] = "pass"
      BY <2>1, <3>3 DEF ExitStatus, Outcome, Problems
    <3> QED
      BY <3>1, <3>2, <3>3
  <2>5. Jobs' = Jobs /\ Rendered' = Rendered
    BY <2>1, SettledFacts
  <2>6. ASSUME exit' \in {"0", "1"}
        PROVE  /\ \A j \in Jobs \ late : disk[j] \in Verdicts /\ disk[j] = manifest.jobs[j]
               /\ manifest.status = IF exit' = "0" THEN "pass" ELSE "verdict"
               /\ exit' = "0" <=> \A j \in Jobs : manifest.jobs[j] = "pass"
    <3>1. manifest.jobs = statuses /\ manifest.status = Outcome
      BY <2>2
    <3>2. \A j \in Jobs \ late : disk[j] \in Verdicts /\ disk[j] = statuses[j]
      BY <2>3, <2>4, <2>6
    <3> QED
      BY <2>4, <2>6, <3>1, <3>2
  <2> QED
    BY <2>1, <2>2, <2>5, <2>6 DEF ExitIsEarned
<1>2. CASE stage # "over" /\ ~Exit
  <2>1. exit' \notin {"0", "1"}
    <3>1. exit = "none"
      BY <1>2 DEF RunInv, ProgressInv, ManifestIsFinal
    <3> QED
      BY <1>2, <3>1
      DEF Next, Command, Over, Job, RunLane, Discover, PlanRefused, DiscoveryRaises, Claim, ClaimRefused,
          Announce, StartJob, FinishJob, JobRaises, CloseLane, WriteArtifact, VerifyArtifact, SkipJob,
          ReportStandardLane, ReportRuntimeLane, Summarise, EndSummary, WriteFinalManifest, RenderJob,
          WriteReport, StorageError, StorageFails, Kill, Disturb, Abort, Expected, vars
  <2> QED
    BY <2>1 DEF ExitIsEarned
<1>3. CASE stage = "over"
  <2>1. /\ \A j \in Jobs : disk'[j] # disk[j] => j \in late'
        /\ late \subseteq late'
        /\ UNCHANGED <<request, plan, manifest, report, exit>>
    <3>1. CASE UNCHANGED vars
      BY <3>1 DEF vars
    <3>2. ASSUME NEW k \in Jobs, Disturb(k)
          PROVE  /\ \A j \in Jobs : disk'[j] # disk[j] => j \in late'
                 /\ late \subseteq late'
                 /\ UNCHANGED <<request, plan, manifest, report, exit>>
      BY <1>3, <3>2 DEF Disturb, WillBeRead, RunInv, TypeOK
    <3> QED
      BY <1>3, <3>1, <3>2, PlanFacts
      DEF Next, Command, Over, Job, RunLane, Discover, PlanRefused, DiscoveryRaises, Claim, ClaimRefused,
          Announce, StartJob, FinishJob, JobRaises, CloseLane, WriteArtifact, VerifyArtifact, SkipJob,
          ReportStandardLane, ReportRuntimeLane, Summarise, EndSummary, WriteFinalManifest, RenderJob,
          WriteReport, Exit, StorageError, StorageFails, Kill, Persistable, Persisting, Lanes, Lane, RunInv
  <2> QED
    BY <2>1, SettledFacts DEF ExitIsEarned
<1> QED
  BY <1>1, <1>2, <1>3

(* Exit status 0 and 1 mean that every job of the plan has the durable      *)
(* artifact the manifest and the report tell of (the end of run_eval).      *)
THEOREM ExitsAreEarned == ASSUME Expected PROVE Spec => []ExitIsEarned
<1>1. Init => ExitIsEarned
  BY DEF Init, ExitIsEarned
<1>2. RunInv /\ ExitIsEarned /\ [Next]_vars => ExitIsEarned'
  BY ExitStep
<1> QED
  BY <1>1, <1>2, RunInvInit, RunInvStep, PTL DEF Spec

=============================================================================
