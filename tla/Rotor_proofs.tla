---------------------------- MODULE Rotor_proofs ----------------------------
(***************************************************************************)
(* What the feedback path owes the current controller, for every table of  *)
(* six sectors, all thresholds that are two units apart and every limit of *)
(* the polarity test: the types, and FeedbackTracks on both benches.       *)
(***************************************************************************)
EXTENDS RotorProperties, TLAPS

\* Remainders of a turn

LEMMA SmallRemainder ==
  ASSUME NEW T \in Nat \ {0}, NEW d \in Int, -T < d, d < T + T
  PROVE  d % T = IF d < 0 THEN d + T ELSE IF d < T THEN d ELSE d - T
<1>1. CASE d < 0
  <2>1. d \in -(T - 1) .. -1
    BY <1>1
  <2> QED BY <1>1, <2>1
<1>2. CASE d >= 0 /\ d < T
  <2>1. d \in 0 .. T - 1
    BY <1>2
  <2> QED BY <1>2, <2>1
<1>3. CASE d >= T
  <2> DEFINE k == d - T
  <2>1. k \in 0 .. T - 1 /\ d = T * 1 + k
    BY <1>3
  <2> QED BY <1>3, <2>1
<1> QED BY <1>1, <1>2, <1>3

\* The least of the patterns but one

HasLeast(S, f) == S = {} \/ \E q \in S : \A r \in S : f[q] <= f[r]

LEMMA OneMore ==
  ASSUME NEW f \in [Patterns -> Int], NEW S, S \subseteq Patterns, HasLeast(S, f), NEW x \in Patterns
  PROVE  HasLeast(S \cup {x}, f)
<1>1. CASE S = {}
  BY <1>1 DEF HasLeast
<1>2. CASE S # {}
  <2>1. PICK q \in S : \A r \in S : f[q] <= f[r]
    BY <1>2 DEF HasLeast
  <2>2. f[q] \in Int /\ f[x] \in Int /\ \A r \in S : f[r] \in Int
    OBVIOUS
  <2>3. CASE f[q] <= f[x]
    BY <2>1, <2>2, <2>3 DEF HasLeast
  <2>4. CASE f[x] < f[q]
    BY <2>1, <2>2, <2>4 DEF HasLeast
  <2> QED BY <2>2, <2>3, <2>4
<1> QED BY <1>1, <1>2

LEMMA LeastExists ==
  ASSUME NEW f \in [Patterns -> Int], NEW p \in Patterns
  PROVE  \E q \in Patterns \ {p} : \A r \in Patterns \ {p} : f[q] <= f[r]
<1> DEFINE S(k) == (1 .. k) \ {p}
<1>1. ASSUME NEW k \in 0 .. 5, HasLeast(S(k), f) PROVE HasLeast(S(k + 1), f)
  <2>1. S(k) \subseteq Patterns /\ k + 1 \in Patterns
    BY DEF Patterns
  <2>2. S(k + 1) = S(k) \/ S(k + 1) = S(k) \cup {k + 1}
    OBVIOUS
  <2> QED BY <1>1, <2>1, <2>2, OneMore
<1>2. HasLeast(S(0), f)
  BY DEF HasLeast
<1>3. S(6) = Patterns \ {p} /\ S(6) # {}
  BY DEF Patterns
<1>4. HasLeast(S(6), f)
  <2> HIDE DEF S
  <2>1. HasLeast(S(1), f)
    BY <1>1, <1>2
  <2>2. HasLeast(S(2), f)
    BY <1>1, <2>1
  <2>3. HasLeast(S(3), f)
    BY <1>1, <2>2
  <2>4. HasLeast(S(4), f)
    BY <1>1, <2>3
  <2>5. HasLeast(S(5), f)
    BY <1>1, <2>4
  <2> QED BY <1>1, <2>5
<1> QED BY <1>3, <1>4 DEF HasLeast

-----------------------------------------------------------------------------
(***************************************************************************)
(* The sectors around a turn.                                              *)
(***************************************************************************)
Sectors(t) == t \in [Patterns -> Angles] /\ \A p, q \in Patterns : t[p] = t[q] => p = q

LEMMA TablesHaveSectors ==
  ASSUME NEW t \in Tables PROVE Sectors(t)
BY RotorFeedbackAssumption DEF Sectors

Distance(t, p, q) == IF t[q] >= t[p] THEN t[q] - t[p] ELSE t[q] - t[p] + Turn

LEMMA AheadIsDistance ==
  ASSUME NEW t, Sectors(t), NEW p \in Patterns, NEW q \in Patterns
  PROVE  /\ t[p] \in Int /\ t[p] >= 0 /\ t[p] < Turn /\ Turn \in Int
         /\ t[q] \in Int /\ t[q] >= 0 /\ t[q] < Turn
         /\ Ahead(t, p, q) = Distance(t, p, q)
         /\ p # q => t[p] # t[q]
<1>1. Turn \in Nat \ {0}
  BY RotorFeedbackAssumption
<1>2. t[p] \in 0 .. Turn - 1 /\ t[q] \in 0 .. Turn - 1 /\ (p # q => t[p] # t[q])
  BY DEF Sectors, Angles
<1>3. (t[q] - t[p]) % Turn = Distance(t, p, q)
  <2>1. t[q] - t[p] \in Int /\ -Turn < t[q] - t[p] /\ t[q] - t[p] < Turn
    BY <1>1, <1>2
  <2>2. (t[q] - t[p]) % Turn = IF t[q] - t[p] < 0 THEN t[q] - t[p] + Turn ELSE t[q] - t[p]
    BY <1>1, <2>1, SmallRemainder
  <2> QED BY <1>1, <1>2, <2>2 DEF Distance
<1> QED BY <1>1, <1>2, <1>3 DEF Ahead, Distance

IsNext(t, p, q) == q \in Patterns \ {p} /\ \A r \in Patterns \ {p} : Distance(t, p, q) <= Distance(t, p, r)

LEMMA NextIsNearest ==
  ASSUME NEW t, Sectors(t), NEW p \in Patterns
  PROVE  IsNext(t, p, ForwardNext(t, p))
<1> DEFINE f == [q \in Patterns |-> Distance(t, p, q)]
           Best(q) == \A r \in Patterns \ {p} : Ahead(t, p, q) <= Ahead(t, p, r)
<1>1. \A q \in Patterns : Ahead(t, p, q) = Distance(t, p, q) /\ Distance(t, p, q) \in Int
  <2> TAKE q \in Patterns
  <2> QED BY AheadIsDistance DEF Distance
<1>2. f \in [Patterns -> Int]
  BY <1>1
<1>3. PICK q \in Patterns \ {p} : \A r \in Patterns \ {p} : f[q] <= f[r]
  BY <1>2, LeastExists
<1>4. Best(q)
  BY <1>1, <1>3
<1>5. ForwardNext(t, p) \in Patterns \ {p} /\ Best(ForwardNext(t, p))
  BY <1>4 DEF ForwardNext
<1> QED BY <1>1, <1>5 DEF IsNext

LEMMA NextIsUnique ==
  ASSUME NEW t, Sectors(t), NEW p \in Patterns, NEW q, IsNext(t, p, q)
  PROVE  ForwardNext(t, p) = q
<1> DEFINE n == ForwardNext(t, p)
<1>1. IsNext(t, p, n)
  BY NextIsNearest
<1> HIDE DEF n
<1>2. n \in Patterns \ {p} /\ q \in Patterns \ {p} /\ Distance(t, p, n) <= Distance(t, p, q)
      /\ Distance(t, p, q) <= Distance(t, p, n)
  BY <1>1 DEF IsNext
<1>3. t[n] = t[q]
  BY <1>2, AheadIsDistance DEF Distance
<1>4. n = q
  BY <1>2, <1>3, AheadIsDistance
<1> QED BY <1>4 DEF n

\* Every sector is entered from another one.
LEMMA PreviousExists ==
  ASSUME NEW t, Sectors(t), NEW p \in Patterns
  PROVE  \E q \in Patterns : ForwardNext(t, q) = p
<1> DEFINE f == [q \in Patterns |-> Distance(t, q, p)]
<1>1. \A q \in Patterns : Distance(t, q, p) \in Int
  <2> TAKE q \in Patterns
  <2> QED BY AheadIsDistance DEF Distance
<1>2. f \in [Patterns -> Int]
  BY <1>1
<1>3. PICK q \in Patterns \ {p} : \A r \in Patterns \ {p} : f[q] <= f[r]
  BY <1>2, LeastExists
<1>4. \A r \in Patterns \ {p} : Distance(t, q, p) <= Distance(t, r, p)
  BY <1>3
<1>5. ASSUME NEW r \in Patterns \ {q} PROVE Distance(t, q, p) <= Distance(t, q, r)
  <2>1. CASE r = p
    BY <1>1, <2>1
  <2>2. CASE r # p
    BY <1>3, <1>4, <1>5, <2>2, AheadIsDistance DEF Distance
  <2> QED BY <2>1, <2>2
<1>6. IsNext(t, q, p)
  BY <1>3, <1>5 DEF IsNext
<1> QED BY <1>3, <1>6, NextIsUnique

\* Six sectors: two steps or three do not lead back.
LEMMA NoShortTurn ==
  ASSUME NEW t, Sectors(t), NEW p \in Patterns
  PROVE  LET q == ForwardNext(t, p)
             r == ForwardNext(t, q)
         IN  /\ q \in Patterns /\ r \in Patterns
             /\ q # p /\ r # q /\ r # p /\ ForwardNext(t, r) # p
<1> DEFINE q == ForwardNext(t, p)
           r == ForwardNext(t, q)
<1>1. IsNext(t, p, q) /\ q \in Patterns \ {p}
  BY NextIsNearest DEF IsNext
<1>2. IsNext(t, q, r) /\ r \in Patterns \ {q}
  BY <1>1, NextIsNearest DEF IsNext
<1> HIDE DEF q, r
<1>3. r # p
  <2>1. PICK x \in Patterns : x # p /\ x # q
    BY DEF Patterns
  <2>2. Distance(t, p, q) <= Distance(t, p, x) /\ Distance(t, q, r) <= Distance(t, q, x)
    BY <1>1, <1>2, <2>1 DEF IsNext
  <2> QED BY <1>1, <1>2, <2>1, <2>2, AheadIsDistance DEF Distance
<1>4. ForwardNext(t, r) # p
  <2>1. PICK x \in Patterns : x # p /\ x # q /\ x # r
    BY <1>1, <1>2 DEF Patterns
  <2>2. SUFFICES ASSUME IsNext(t, r, p) PROVE FALSE
    BY <1>2, NextIsNearest
  <2>3. /\ Distance(t, p, q) <= Distance(t, p, x) /\ Distance(t, q, r) <= Distance(t, q, x)
        /\ Distance(t, r, p) <= Distance(t, r, x)
    BY <1>1, <1>2, <2>1, <2>2 DEF IsNext
  <2> QED BY <1>1, <1>2, <1>3, <2>1, <2>3, AheadIsDistance DEF Distance
<1> QED BY <1>1, <1>2, <1>3, <1>4 DEF q, r

-----------------------------------------------------------------------------
(***************************************************************************)
(* The angle of an estimate: the edge the rotor came in by, and no further *)
(* from it than the sector is wide.                                        *)
(***************************************************************************)
LEMMA SpanIsDistance ==
  ASSUME NEW t, Sectors(t), NEW p \in Patterns
  PROVE  /\ SectorSpan(t, p) = Distance(t, p, ForwardNext(t, p))
         /\ SectorSpan(t, p) \in Int /\ 0 < SectorSpan(t, p) /\ SectorSpan(t, p) < Turn
<1> DEFINE n == ForwardNext(t, p)
<1>1. n \in Patterns /\ n # p
  BY NextIsNearest DEF IsNext
<1> HIDE DEF n
<1>2. Ahead(t, p, n) = Distance(t, p, n) /\ Distance(t, p, n) \in Int /\ 0 < Distance(t, p, n) /\ Distance(t, p, n) < Turn
  BY <1>1, AheadIsDistance DEF Distance
<1> QED BY <1>2 DEF n, SectorSpan

LEMMA ReachStaysInside ==
  ASSUME NEW t, Sectors(t), NEW p \in Patterns, NEW reach \in Int,
         0 <= reach, reach <= SectorSpan(t, p)
  PROVE  /\ (((t[p] + reach) % Turn) - t[p]) % Turn <= SectorSpan(t, p)
         /\ (((t[ForwardNext(t, p)] - reach) % Turn) - t[p]) % Turn <= SectorSpan(t, p)
<1> DEFINE n == ForwardNext(t, p)
           span == SectorSpan(t, p)
<1>1. Turn \in Nat \ {0}
  BY RotorFeedbackAssumption
<1>2. n \in Patterns /\ span = Distance(t, p, n) /\ span \in Int /\ 0 < span /\ span < Turn
  BY SpanIsDistance, NextIsNearest DEF IsNext
<1> HIDE DEF n, span
<1>3. /\ t[p] \in Int /\ t[p] >= 0 /\ t[p] < Turn
      /\ t[n] \in Int /\ t[n] >= 0 /\ t[n] < Turn
  BY <1>2, AheadIsDistance
<1>4. 0 <= reach /\ reach <= span
  BY DEF span
<1>5. ASSUME NEW x \in Int, -Turn < x, x < Turn + Turn
      PROVE  x % Turn = IF x < 0 THEN x + Turn ELSE IF x < Turn THEN x ELSE x - Turn
  BY <1>1, <1>5, SmallRemainder
<1>6. (((t[p] + reach) % Turn) - t[p]) % Turn <= span
  <2> DEFINE theta == (t[p] + reach) % Turn
  <2>1. theta = IF t[p] + reach < Turn THEN t[p] + reach ELSE t[p] + reach - Turn
    BY <1>1, <1>2, <1>3, <1>4, <1>5
  <2> HIDE DEF theta
  <2>2. theta \in Int /\ theta - t[p] = IF t[p] + reach < Turn THEN reach ELSE reach - Turn
    BY <1>1, <1>2, <1>3, <1>4, <2>1
  <2>3. (theta - t[p]) % Turn = reach
    BY <1>1, <1>2, <1>3, <1>4, <1>5, <2>2
  <2> QED BY <1>4, <2>3 DEF theta
<1>7. (((t[n] - reach) % Turn) - t[p]) % Turn <= span
  <2> DEFINE theta == (t[n] - reach) % Turn
  <2>1. theta = IF t[n] - reach < 0 THEN t[n] - reach + Turn ELSE t[n] - reach
    BY <1>1, <1>2, <1>3, <1>4, <1>5
  <2> HIDE DEF theta
  <2>2. theta \in Int /\ -Turn < theta - t[p] /\ theta - t[p] < Turn
    BY <1>1, <1>2, <1>3, <1>4, <2>1
  <2>3. (theta - t[p]) % Turn = IF theta - t[p] < 0 THEN theta - t[p] + Turn ELSE theta - t[p]
    BY <1>1, <1>3, <1>5, <2>2
  <2>4. (theta - t[p]) % Turn = span - reach
    BY <1>1, <1>2, <1>3, <1>4, <2>1, <2>2, <2>3 DEF Distance
  <2> QED BY <1>2, <1>4, <2>4 DEF theta
<1> QED BY <1>6, <1>7 DEF n, span

\* The parts of an estimate that was read with the table of the rotor.
Dir(t, prev, p) == IF Adjacent(t, prev, p) THEN Direction(t, prev, p) ELSE 0
Base(e, t, prev, p) == IF Adjacent(t, prev, p) /\ e.prev_pattern # 0 THEN e.prev_pattern ELSE p
NextState(e, t, prev, p) ==
  Step(IF Adjacent(t, prev, p) THEN e.state ELSE "Stationary", Base(e, t, prev, p) # p,
       e.prev_dir = Dir(t, prev, p))

LEMMA DirectionTells ==
  ASSUME NEW t, Sectors(t), NEW prev, NEW p \in Patterns
  PROVE  /\ Dir(t, prev, p) \in {-1, 0, 1}
         /\ Dir(t, prev, p) = -1 => prev = ForwardNext(t, p)
         /\ ~Adjacent(t, prev, p) => Dir(t, prev, p) = 0
BY DEF Dir, Direction, Adjacent

LEMMA EstimateInSector ==
  ASSUME NEW e, Sectors(e.table), e.state \in Modes, NEW prev, NEW p \in Patterns, NEW travelled \in Nat
  PROVE  (GetEstimate(e, prev, p, travelled).theta - e.table[p]) % Turn <= SectorSpan(e.table, p)
<1> DEFINE t == e.table
           state == NextState(e, t, prev, p)
           dir == Dir(t, prev, p)
           span == SectorSpan(t, p)
           reach == CASE state = "Stationary" -> span \div 2
                      [] state = "DirectionChange" -> dir * Least(travelled, span \div 2)
                      [] state = "Normal" -> dir * Least(travelled, span)
           entry == IF state = "Stationary" THEN p ELSE EntryPattern(prev, p, dir)
           theta == GetEstimate(e, prev, p, travelled).theta
<1>1. theta = (t[entry] + reach) % Turn
  BY DEF GetEstimate, NextState, Base, Dir
<1>2. state \in Modes
  BY DEF NextState, Step, Modes
<1>3. dir \in {-1, 0, 1} /\ (dir = -1 => prev = ForwardNext(t, p))
  BY DirectionTells
<1>4. span \in Int /\ 0 < span
  BY SpanIsDistance
<1> HIDE DEF state, dir, span, theta
<1>5. span \div 2 \in Int /\ 0 <= span \div 2 /\ span \div 2 <= span
  BY <1>4
<1>6. PICK k \in Int : /\ 0 <= k /\ k <= span
                       /\ state = "Stationary" => reach = k
                       /\ state # "Stationary" => reach = dir * k
  <2>1. CASE state = "Stationary"
    BY <1>5, <2>1
  <2>2. CASE state = "DirectionChange"
    <3> DEFINE k == Least(travelled, span \div 2)
    <3>1. k \in Int /\ 0 <= k /\ k <= span
      BY <1>4, <1>5 DEF Least
    <3>2. reach = dir * k
      BY <2>2
    <3> QED BY <2>2, <3>1, <3>2
  <2>3. CASE state = "Normal"
    <3> DEFINE k == Least(travelled, span)
    <3>1. k \in Int /\ 0 <= k /\ k <= span
      BY <1>4 DEF Least
    <3>2. reach = dir * k
      BY <2>3
    <3> QED BY <2>3, <3>1, <3>2
  <2> QED BY <1>2, <2>1, <2>2, <2>3 DEF Modes
<1> HIDE DEF reach
<1>7. t[p] \in Int
  BY AheadIsDistance
<1>8. CASE state = "Stationary"
  BY <1>1, <1>6, <1>8, ReachStaysInside DEF span, theta
<1>9. CASE state # "Stationary" /\ dir = -1
  <2>1. ForwardNext(t, p) \in Patterns
    BY NextIsNearest DEF IsNext
  <2>2. t[ForwardNext(t, p)] \in Int
    BY <2>1, AheadIsDistance
  <2>3. entry = ForwardNext(t, p)
    BY <1>3, <1>9 DEF EntryPattern
  <2>4. t[entry] + reach = t[ForwardNext(t, p)] - k
    BY <1>6, <1>9, <2>2, <2>3
  <2> HIDE DEF t, entry
  <2>5. theta = (t[ForwardNext(t, p)] - k) % Turn
    BY <1>1, <2>4
  <2> QED BY <1>6, <2>5, ReachStaysInside DEF t, span, theta
<1>10. CASE state # "Stationary" /\ dir = 1
  <2>1. entry = p
    BY <1>10 DEF EntryPattern
  <2>2. t[entry] + reach = t[p] + k
    BY <1>6, <1>7, <1>10, <2>1
  <2> HIDE DEF t, entry
  <2>3. theta = (t[p] + k) % Turn
    BY <1>1, <2>2
  <2> QED BY <1>6, <2>3, ReachStaysInside DEF t, span, theta
<1>11. CASE state # "Stationary" /\ dir = 0
  <2>1. entry = p
    BY <1>11 DEF EntryPattern
  <2>2. t[entry] + reach = t[p] + 0
    BY <1>6, <1>7, <1>11, <2>1
  <2> HIDE DEF t, entry
  <2>3. theta = (t[p] + 0) % Turn
    BY <1>1, <2>2
  <2> QED BY <1>4, <2>3, ReachStaysInside DEF t, span, theta
<1> QED BY <1>3, <1>8, <1>9, <1>10, <1>11

-----------------------------------------------------------------------------
(***************************************************************************)
(* The polarity test keeps to its limits.                                  *)
(***************************************************************************)
TestOk(test) ==
  /\ test \in Tests
  /\ test.state = "Init" => test.elapsed <= TestTimeout
  /\ test.state = "Settling" => test.ticks < LockDwell /\ test.elapsed <= TestTimeout + 1
  /\ test.state = "Testing" => /\ test.ticks < TestTicks /\ test.elapsed <= TestTimeout + 2
                               /\ -test.ticks <= test.sum /\ test.sum <= test.ticks

LEMMA TestParts ==
  ASSUME NEW test, test \in Tests
  PROVE  /\ test = [state |-> test.state, ticks |-> test.ticks, sum |-> test.sum, elapsed |-> test.elapsed]
         /\ test.state \in {"Init", "Settling", "Testing", "Done", "Fault"}
         /\ test.ticks \in 0 .. LockDwell + TestTicks /\ test.sum \in -TestTicks .. TestTicks
         /\ test.elapsed \in 0 .. TestTimeout + 3
         /\ Verdict(test) = "open" <=> test.state \in {"Init", "Settling", "Testing"}
         /\ Verdict(test) = "found" <=> test.state = "Done"
BY DEF Tests, Verdict

LEMMA NewTestOk ==
  ASSUME NEW known \in BOOLEAN PROVE TestOk(ResetTest(known))
BY SaliencyAssumption DEF ResetTest, TestOk, Tests

LEMMA WaitOk ==
  ASSUME NEW test \in Tests, NEW elapsed \in 0 .. TestTimeout + 3, NEW state, NEW ticks, NEW sum
  PROVE  Wait(test, elapsed, state, ticks, sum) =
           IF elapsed > TestTimeout THEN [state |-> "Fault", ticks |-> 0, sum |-> 0, elapsed |-> elapsed]
           ELSE [state |-> state, ticks |-> ticks, sum |-> sum, elapsed |-> elapsed]
<1> DEFINE faulted == [test EXCEPT !.state = "Fault", !.ticks = 0, !.sum = 0, !.elapsed = elapsed]
<1>1. faulted = [state |-> "Fault", ticks |-> 0, sum |-> 0, elapsed |-> elapsed]
  <2>1. ASSUME NEW x, x = faulted PROVE x = [state |-> "Fault", ticks |-> 0, sum |-> 0, elapsed |-> elapsed]
    BY <2>1 DEF Tests
  <2> HIDE DEF faulted
  <2> QED BY <2>1
<1> HIDE DEF faulted
<1>2. Wait(test, elapsed, state, ticks, sum) =
        IF elapsed > TestTimeout THEN faulted
        ELSE [state |-> state, ticks |-> ticks, sum |-> sum, elapsed |-> elapsed]
  BY DEF Wait, TimedOut, faulted
<1> QED BY <1>1, <1>2

LEMMA StepTestOk ==
  ASSUME NEW test, TestOk(test), Verdict(test) = "open", NEW observed \in BOOLEAN, NEW locked \in BOOLEAN,
         NEW pull \in {-1, 0, 1}
  PROVE  TestOk(StepTest(test, observed, locked, pull))
<1> DEFINE elapsed == test.elapsed + 1
           dwelt == IF observed /\ locked THEN test.ticks + 1 ELSE 0
           tested == IF observed THEN test.ticks + 1 ELSE 0
           sum == IF observed THEN test.sum + pull ELSE 0
           next == StepTest(test, observed, locked, pull)
<1>0. LockDwell \in Nat \ {0} /\ TestTicks \in Nat \ {0} /\ TestTimeout \in Nat
  BY SaliencyAssumption
<1>1. /\ test.state \in {"Init", "Settling", "Testing"}
      /\ test.ticks \in Nat /\ test.sum \in Int /\ test.elapsed \in Nat /\ test \in Tests
  BY <1>0, TestParts DEF TestOk
<1>2. elapsed \in 0 .. TestTimeout + 3
  BY <1>0, <1>1 DEF TestOk
<1>3. CASE test.state = "Init"
  <2>1. next = IF observed THEN [state |-> "Settling", ticks |-> 0, sum |-> 0, elapsed |-> elapsed]
               ELSE Wait(test, elapsed, "Init", 0, 0)
    BY <1>3 DEF StepTest, Elapsed
  <2>2. next \in {[state |-> s, ticks |-> 0, sum |-> 0, elapsed |-> elapsed] : s \in {"Settling", "Fault", "Init"}}
        /\ (next.state = "Init" => elapsed <= TestTimeout)
    BY <1>0, <1>1, <1>2, <2>1, WaitOk
  <2> QED BY <1>0, <1>1, <1>2, <1>3, <2>2 DEF TestOk, Tests
<1>4. CASE test.state = "Settling"
  <2>1. next = IF dwelt >= LockDwell THEN [state |-> "Testing", ticks |-> 0, sum |-> 0, elapsed |-> elapsed]
               ELSE Wait(test, elapsed, "Settling", dwelt, 0)
    BY <1>4 DEF StepTest, Elapsed
  <2>2. dwelt \in Nat
    BY <1>1
  <2>3. CASE dwelt >= LockDwell
    BY <1>0, <1>1, <1>2, <1>4, <2>1, <2>3 DEF TestOk, Tests
  <2>4. CASE dwelt < LockDwell
    <3>1. \/ next = [state |-> "Fault", ticks |-> 0, sum |-> 0, elapsed |-> elapsed]
          \/ next = [state |-> "Settling", ticks |-> dwelt, sum |-> 0, elapsed |-> elapsed] /\ elapsed <= TestTimeout
      BY <1>0, <1>1, <1>2, <2>1, <2>2, <2>4, WaitOk
    <3> QED BY <1>0, <1>2, <2>2, <2>4, <3>1 DEF TestOk, Tests
  <2> QED BY <1>0, <2>2, <2>3, <2>4
<1>5. CASE test.state = "Testing"
  <2>1. next = IF tested >= TestTicks
               THEN [state |-> IF sum = 0 THEN "Fault" ELSE "Done", ticks |-> 0, sum |-> 0, elapsed |-> elapsed]
               ELSE Wait(test, elapsed, "Testing", tested, sum)
    BY <1>5 DEF StepTest, Elapsed
  <2>2. tested \in Nat /\ sum \in Int /\ -tested <= sum /\ sum <= tested
    BY <1>1, <1>5 DEF TestOk
  <2>3. CASE tested >= TestTicks
    BY <1>0, <1>1, <1>2, <1>5, <2>1, <2>3 DEF TestOk, Tests
  <2>4. CASE tested < TestTicks
    <3>1. \/ next = [state |-> "Fault", ticks |-> 0, sum |-> 0, elapsed |-> elapsed]
          \/ next = [state |-> "Testing", ticks |-> tested, sum |-> sum, elapsed |-> elapsed] /\ elapsed <= TestTimeout
      BY <1>0, <1>1, <1>2, <2>1, <2>2, <2>4, WaitOk
    <3> QED BY <1>0, <1>2, <2>2, <2>4, <3>1 DEF TestOk, Tests
  <2> QED BY <1>0, <2>2, <2>3, <2>4
<1> QED BY <1>1, <1>3, <1>4, <1>5

LEMMA AbortTestOk ==
  ASSUME NEW test, TestOk(test) PROVE TestOk(AbortTest(test))
<1>1. CASE Verdict(test) = "open"
  <2>1. AbortTest(test) = [state |-> "Fault", ticks |-> test.ticks, sum |-> test.sum, elapsed |-> test.elapsed]
    BY <1>1, TestParts DEF AbortTest, TestOk
  <2> QED BY <2>1, TestParts DEF TestOk, Tests
<1>2. CASE Verdict(test) # "open"
  BY <1>2 DEF AbortTest
<1> QED BY <1>1, <1>2

-----------------------------------------------------------------------------
(***************************************************************************)
(* The arbitrator                                                          *)
(***************************************************************************)
ArbType == [hall : Results, sensorless : Results, hall_pattern : Patterns \cup {0}, blend_omega : Reports]

LEMMA ThresholdOrder ==
  /\ LowSpeed \in Int /\ HighSpeed \in Int /\ TopSpeed \in Int /\ Backward \in Int
  /\ 0 <= LowSpeed /\ LowSpeed + 2 <= HighSpeed /\ HighSpeed < TopSpeed
  /\ 0 <= Backward /\ Backward <= TopSpeed
  /\ BlendWidth \in Nat \ {0} /\ BlendWidth = HighSpeed - LowSpeed
BY ArbitrationAssumption, RotorFeedbackAssumption DEF BlendWidth

LEMMA ResultKinds ==
  /\ None \in Results /\ Err \in Results /\ ~IsOk(None) /\ ~IsOk(Err) /\ None # Err
  /\ \A w, right : IsOk(Ok(w, right)) /\ Ok(w, right).omega = w /\ Ok(w, right).right = right
  /\ \A r \in Results : ~IsOk(r) <=> r \in {None, Err}
  /\ \A r \in Results : IsOk(r) => r = Ok(r.omega, r.right) /\ r.omega \in Reports /\ r.right \in BOOLEAN
  /\ \A w \in Reports, right \in BOOLEAN : Ok(w, right) \in Results
<1>1. /\ None \in Results /\ Err \in Results /\ ~IsOk(None) /\ ~IsOk(Err) /\ None # Err
      /\ \A w, right : IsOk(Ok(w, right)) /\ Ok(w, right).omega = w /\ Ok(w, right).right = right
      /\ \A w \in Reports, right \in BOOLEAN : Ok(w, right) \in Results
  <2>1. None \in Results /\ Err \in Results /\ \A w \in Reports, right \in BOOLEAN : Ok(w, right) \in Results
    BY DEF Results
  <2>2. ~IsOk(None) /\ ~IsOk(Err) /\ None # Err
    BY DEF None, Err, IsOk
  <2>3. \A w, right : IsOk(Ok(w, right)) /\ Ok(w, right).omega = w /\ Ok(w, right).right = right
    BY DEF Ok, IsOk
  <2> QED BY <2>1, <2>2, <2>3
<1>2. ASSUME NEW r \in Results
      PROVE  /\ ~IsOk(r) <=> r \in {None, Err}
             /\ IsOk(r) => r = Ok(r.omega, r.right) /\ r.omega \in Reports /\ r.right \in BOOLEAN
  <2>1. r \in {None, Err} \/ \E w \in Reports, right \in BOOLEAN : r = Ok(w, right)
    BY DEF Results
  <2> QED BY <1>1, <2>1
<1> QED BY <1>1, <1>2

LEMMA OkParts ==
  ASSUME NEW r, NEW w, NEW right \in BOOLEAN, r = Ok(w, right)
  PROVE  IsOk(r) /\ r.omega = w /\ (r.right <=> right) /\ (w \in Reports => r \in Results)
BY DEF Ok, IsOk, Results

LEMMA Arbitrated ==
  ASSUME NEW a, a \in ArbType, NEW hall, NEW pattern, NEW low, NEW high,
         NEW next, next \in UpdateSensorless(UpdateHall(a, hall, pattern), low, high)
  PROVE  /\ next = [hall |-> hall, sensorless |-> next.sensorless, hall_pattern |-> next.hall_pattern,
                    blend_omega |-> next.blend_omega]
         /\ next.sensorless \in Blends(a, low, high)
         /\ next.hall_pattern \in {pattern, a.hall_pattern}
         /\ next.hall_pattern \in Patterns \cup {0}
         /\ next.blend_omega = IF IsOk(next.sensorless) THEN Clamped(next.sensorless.omega)
                               ELSE IF next.sensorless = None THEN IF IsOk(hall) THEN hall.omega ELSE HighSpeed
                               ELSE a.blend_omega
<1> DEFINE u == UpdateHall(a, hall, pattern)
           h == IF pattern \in 1 .. 6 THEN pattern ELSE a.hall_pattern
<1>1. a = [hall |-> a.hall, sensorless |-> a.sensorless, hall_pattern |-> a.hall_pattern,
           blend_omega |-> a.blend_omega] /\ a.hall_pattern \in Patterns \cup {0}
  BY DEF ArbType
<1>2. u = [hall |-> hall, sensorless |-> a.sensorless, hall_pattern |-> h, blend_omega |-> a.blend_omega]
  <2>1. u = [a EXCEPT !.hall = hall, !.hall_pattern = h]
    BY <1>1 DEF UpdateHall
  <2> HIDE DEF u, h
  <2> QED BY <1>1, <2>1
<1> HIDE DEF u
<1>3. Blends(u, low, high) = Blends(a, low, high)
  BY <1>2 DEF Blends
<1>4. PICK blend \in Blends(u, low, high) : next = [u EXCEPT !.sensorless = blend, !.blend_omega = NextBlendOmega(u, blend)]
  BY DEF UpdateSensorless, u
<1>5. next = [hall |-> hall, sensorless |-> blend, hall_pattern |-> h, blend_omega |-> NextBlendOmega(u, blend)]
  BY <1>2, <1>4
<1>6. h \in {pattern, a.hall_pattern} /\ h \in Patterns \cup {0}
  BY <1>1 DEF Patterns
<1>7. NextBlendOmega(u, blend) = IF IsOk(blend) THEN Clamped(blend.omega)
                                 ELSE IF blend = None THEN IF IsOk(hall) THEN hall.omega ELSE HighSpeed
                                 ELSE a.blend_omega
  BY <1>2, ResultKinds DEF NextBlendOmega
<1> QED BY <1>3, <1>5, <1>6, <1>7

-----------------------------------------------------------------------------
(***************************************************************************)
(* A weighted mean lies between the two speeds, however it is rounded.     *)
(***************************************************************************)
LEMMA ProductGrows ==
  ASSUME NEW k \in Nat, NEW x \in Int, NEW y \in Int, x <= y
  PROVE  k * x \in Int /\ k * y \in Int /\ k * x <= k * y
<1> DEFINE d == y - x
<1>1. d \in Nat /\ y = x + d
  OBVIOUS
<1> HIDE DEF d
<1>2. k * y = k * x + k * d
  BY <1>1
<1>3. k * d \in Nat /\ k * x \in Int /\ k * y \in Int
  BY <1>1
<1> QED BY <1>2, <1>3

LEMMA QuotientBetween ==
  ASSUME NEW w \in Nat \ {0}, NEW s \in Int, NEW lo \in Int, NEW hi \in Int, w * lo <= s, s <= w * hi
  PROVE  s \div w \in Int /\ lo <= s \div w /\ s \div w <= hi
<1> DEFINE q == s \div w
           r == s % w
<1>1. q \in Int /\ r \in 0 .. w - 1 /\ s = w * q + r
  OBVIOUS
<1> HIDE DEF q, r
<1>2. w * q \in Int /\ w * lo \in Int /\ w * hi \in Int /\ w * (q + 1) = w * q + w
  BY <1>1
<1>3. lo <= q
  <2>1. SUFFICES ASSUME q + 1 <= lo PROVE FALSE
    BY <1>1
  <2>2. w * (q + 1) <= w * lo
    BY <1>1, <2>1, ProductGrows
  <2> QED BY <1>1, <1>2, <2>2
<1>4. q <= hi
  <2>1. SUFFICES ASSUME hi + 1 <= q PROVE FALSE
    BY <1>1
  <2>2. w * (hi + 1) <= w * q /\ w * (hi + 1) = w * hi + w
    BY <1>1, <2>1, ProductGrows
  <2> QED BY <1>1, <1>2, <2>2
<1> QED BY <1>1, <1>3, <1>4 DEF q

LEMMA MeanBetween ==
  ASSUME NEW a \in 0 .. BlendWidth, NEW low \in Int, NEW high \in Int, NEW lo \in Int, NEW hi \in Int,
         a # 0 => lo <= low /\ low <= hi,
         a # BlendWidth => lo <= high /\ high <= hi,
         NEW m \in MeanSpeeds(a, low, high)
  PROVE  m \in Int /\ lo <= m /\ m <= hi
<1> DEFINE w == BlendWidth
           b == w - a
           sum == a * low + b * high
<1>1. w \in Nat \ {0} /\ a \in Nat /\ b \in Nat /\ w = a + b
  BY ThresholdOrder
<1>2. m \in {sum \div w, -((-sum) \div w)}
  BY DEF MeanSpeeds
<1> HIDE DEF w, b
<1>3. a * low \in Int /\ b * high \in Int /\ a * lo <= a * low /\ a * low <= a * hi
  <2>1. CASE a = 0
    BY <1>1, <2>1
  <2>2. CASE a # 0
    BY <1>1, <2>2, ProductGrows
  <2> QED BY <2>1, <2>2
<1>4. b * lo <= b * high /\ b * high <= b * hi
  <2>1. CASE b = 0
    BY <1>1, <2>1
  <2>2. CASE b # 0
    <3>1. lo <= high /\ high <= hi
      BY <1>1, <2>2 DEF w
    <3> QED BY <1>1, <3>1, ProductGrows
  <2> QED BY <2>1, <2>2
<1>5. w * lo = a * lo + b * lo /\ w * hi = a * hi + b * hi
  BY <1>1
<1>6. a * lo \in Int /\ b * lo \in Int /\ a * hi \in Int /\ b * hi \in Int
  BY <1>1
<1>7. sum \in Int /\ w * lo <= sum /\ sum <= w * hi
  BY <1>3, <1>4, <1>5, <1>6
<1> HIDE DEF sum
<1>8. w * (-hi) = -(w * hi) /\ w * (-lo) = -(w * lo)
  BY <1>1
<1>9. w * lo \in Int /\ w * hi \in Int
  BY <1>1
<1>10. w * (-hi) <= -sum /\ -sum <= w * (-lo)
  BY <1>7, <1>8, <1>9
<1>11. sum \div w \in Int /\ lo <= sum \div w /\ sum \div w <= hi
  BY <1>1, <1>7, QuotientBetween
<1>12. (-sum) \div w \in Int /\ -hi <= (-sum) \div w /\ (-sum) \div w <= -lo
  BY <1>1, <1>7, <1>10, QuotientBetween
<1> QED BY <1>2, <1>11, <1>12

LEMMA WeightRange ==
  ASSUME NEW b \in Int
  PROVE  /\ Weight(b) \in 0 .. BlendWidth
         /\ Weight(b) = 0 <=> Size(b) >= HighSpeed
         /\ Weight(b) = BlendWidth <=> Size(b) <= LowSpeed
BY ThresholdOrder DEF Weight, Size

LEMMA BlendKinds ==
  ASSUME NEW a, NEW low, NEW high, NEW blend, blend \in Blends(a, low, high)
  PROVE  /\ IsOk(low) /\ IsOk(high) => blend \in BlendBoth(a.blend_omega, low, high)
         /\ IsOk(low) /\ ~IsOk(high) => blend = LoneLow(low)
         /\ ~IsOk(low) /\ IsOk(high) => blend = LoneHigh(high)
         /\ ~IsOk(low) /\ ~IsOk(high) => blend = None
BY DEF Blends

LEMMA BlendOfBoth ==
  ASSUME NEW b \in Int, NEW low \in Results, NEW high \in Results, IsOk(low), IsOk(high),
         NEW blend, blend \in BlendBoth(b, low, high)
  PROVE  /\ IsOk(blend) /\ blend = Ok(blend.omega, blend.right) /\ blend.omega \in Int
         /\ blend.right \in BOOLEAN
         /\ blend.right <=> (Weight(b) # 0 => low.right) /\ (Weight(b) # BlendWidth => high.right)
         /\ \A lo, hi \in Int :
              /\ Weight(b) # 0 => lo <= low.omega /\ low.omega <= hi
              /\ Weight(b) # BlendWidth => lo <= high.omega /\ high.omega <= hi
              => lo <= blend.omega /\ blend.omega <= hi
<1> DEFINE w == Weight(b)
           right == (w > 0 => low.right) /\ (w < BlendWidth => high.right)
<1>1. w \in 0 .. BlendWidth /\ BlendWidth \in Nat
  BY WeightRange, ThresholdOrder
<1>2. low.omega \in Int /\ high.omega \in Int /\ low.right \in BOOLEAN /\ high.right \in BOOLEAN
  BY ResultKinds, ThresholdOrder DEF Reports
<1>3. right = ((w # 0 => low.right) /\ (w # BlendWidth => high.right))
  BY <1>1
<1>4. PICK m \in MeanSpeeds(w, low.omega, high.omega) : blend = Ok(m, right)
  BY DEF BlendBoth
<1> HIDE DEF w, right
<1>5. IsOk(blend) /\ blend.omega = m /\ blend.right = right
  BY <1>4, ResultKinds
<1>6. m \in Int
  <2> DEFINE lo == IF low.omega <= high.omega THEN low.omega ELSE high.omega
             hi == IF low.omega <= high.omega THEN high.omega ELSE low.omega
  <2>1. lo \in Int /\ hi \in Int /\ lo <= low.omega /\ low.omega <= hi /\ lo <= high.omega /\ high.omega <= hi
    BY <1>2
  <2> HIDE DEF lo, hi
  <2> QED BY <1>1, <1>2, <2>1, MeanBetween
<1>7. ASSUME NEW lo \in Int, NEW hi \in Int,
             w # 0 => lo <= low.omega /\ low.omega <= hi,
             w # BlendWidth => lo <= high.omega /\ high.omega <= hi
      PROVE  lo <= m /\ m <= hi
  BY <1>1, <1>2, <1>7, MeanBetween
<1>8. blend = Ok(blend.omega, blend.right)
  BY <1>4, <1>5
<1>9. blend.right = ((w # 0 => low.right) /\ (w # BlendWidth => high.right))
  BY <1>3, <1>5
<1>10. blend.right \in BOOLEAN
  BY <1>9
<1> QED BY <1>5, <1>6, <1>7, <1>8, <1>9, <1>10 DEF w

LEMMA ClampedRange ==
  ASSUME NEW x \in Int
  PROVE  /\ Clamped(x) \in Reports /\ Clamped(x) \in Int
         /\ -HighSpeed <= Clamped(x) /\ Clamped(x) <= HighSpeed
         /\ -HighSpeed <= x /\ x <= HighSpeed => Clamped(x) = x
BY ThresholdOrder DEF Clamped, Reports

LEMMA BlendTyped ==
  ASSUME NEW a, a \in ArbType, NEW low \in Results, NEW high \in Results, NEW blend, blend \in Blends(a, low, high)
  PROVE  blend \in Results
<1>1. a.blend_omega \in Int /\ TopSpeed \in Int /\ -TopSpeed \in Int
  BY ThresholdOrder DEF ArbType, Reports
<1> DEFINE b == a.blend_omega
<1>2. CASE IsOk(low) /\ IsOk(high)
  <2>1. low.omega \in Reports /\ high.omega \in Reports
    BY <1>2, ResultKinds
  <2>2. blend \in BlendBoth(b, low, high) /\ b \in Int
    BY <1>1, <1>2, BlendKinds
  <2> HIDE DEF b
  <2>3. /\ blend = Ok(blend.omega, blend.right) /\ blend.omega \in Int /\ blend.right \in BOOLEAN
        /\ \A lo, hi \in Int :
             /\ Weight(b) # 0 => lo <= low.omega /\ low.omega <= hi
             /\ Weight(b) # BlendWidth => lo <= high.omega /\ high.omega <= hi
             => lo <= blend.omega /\ blend.omega <= hi
    BY <1>2, <2>2, BlendOfBoth
  <2>4. -TopSpeed <= blend.omega /\ blend.omega <= TopSpeed
    BY <1>1, <2>1, <2>3 DEF Reports
  <2>5. blend.omega \in Reports
    BY <1>1, <2>3, <2>4 DEF Reports
  <2> QED BY <2>3, <2>5, ResultKinds
<1>3. CASE ~(IsOk(low) /\ IsOk(high))
  BY <1>3, BlendKinds, ResultKinds DEF LoneLow, LoneHigh
<1> QED BY <1>2, <1>3

LEMMA ArbTyped ==
  ASSUME NEW a, a \in ArbType, NEW hall \in Results, NEW pattern, NEW low \in Results, NEW high \in Results,
         NEW next, next \in UpdateSensorless(UpdateHall(a, hall, pattern), low, high)
  PROVE  next \in ArbType
<1>1. next.sensorless \in Results
  BY Arbitrated, BlendTyped
<1>2. HighSpeed \in Reports
  BY ThresholdOrder DEF Reports
<1>3. a.blend_omega \in Reports
  BY DEF ArbType
<1>4. IsOk(hall) => hall.omega \in Reports
  BY ResultKinds
<1>5. IsOk(next.sensorless) => Clamped(next.sensorless.omega) \in Reports
  <2> HAVE IsOk(next.sensorless)
  <2>1. next.sensorless.omega \in Int
    BY <1>1, ResultKinds, ThresholdOrder DEF Reports
  <2> QED BY <2>1, ClampedRange
<1>6. next.blend_omega \in Reports
  BY <1>2, <1>3, <1>4, <1>5, Arbitrated
<1>7. /\ next = [hall |-> hall, sensorless |-> next.sensorless, hall_pattern |-> next.hall_pattern,
                 blend_omega |-> next.blend_omega]
      /\ next.hall_pattern \in Patterns \cup {0}
  BY Arbitrated
<1> QED BY <1>1, <1>6, <1>7 DEF ArbType

LEMMA ReadKinds ==
  ASSUME NEW a, a \in ArbType
  PROVE  /\ Read(a) \in Results
         /\ IsOk(Read(a)) => \/ Read(a) = a.hall /\ IsOk(a.hall)
                             \/ Read(a) = a.sensorless /\ IsOk(a.sensorless)
         /\ IsOk(a.hall) \/ IsOk(a.sensorless) => IsOk(Read(a))
BY ResultKinds DEF ArbType, Read

-----------------------------------------------------------------------------
(***************************************************************************)
(* The low speed estimator                                                 *)
(***************************************************************************)
SalOk(s) == s \in [fault : BOOLEAN, omega : Reports, right : BOOLEAN, test : Tests] /\ TestOk(s.test)

LEMMA SeededSaliency ==
  ASSUME NEW seed \in Results, NEW guess \in BOOLEAN
  PROVE  /\ SalOk(ResetSaliency(seed, guess))
         /\ ~ResetSaliency(seed, guess).fault
         /\ ResetSaliency(seed, guess).test.state = IF IsOk(seed) THEN "Done" ELSE "Init"
         /\ IsOk(seed) => /\ ResetSaliency(seed, guess).omega = seed.omega
                          /\ ResetSaliency(seed, guess).right = seed.right
<1>1. IsOk(seed) \in BOOLEAN
  BY DEF IsOk
<1>2. TestOk(ResetTest(IsOk(seed))) /\ ResetTest(IsOk(seed)) \in Tests
  BY <1>1, NewTestOk DEF TestOk
<1>3. 0 \in Reports
  BY ThresholdOrder DEF Reports
<1>4. ResetTest(IsOk(seed)).state = IF IsOk(seed) THEN "Done" ELSE "Init"
  BY DEF ResetTest
<1> QED BY <1>2, <1>3, <1>4, ResultKinds DEF ResetSaliency, SalOk

LEMMA SaliencyReading ==
  ASSUME NEW s, SalOk(s)
  PROVE  /\ ReadSaliency(s) \in Results
         /\ IsOk(ReadSaliency(s)) <=> ~s.fault
         /\ ~s.fault => ReadSaliency(s).omega = s.omega /\ ReadSaliency(s).right = s.right
BY ResultKinds DEF SalOk, ReadSaliency

LEMMA SpeedRange ==
  ASSUME NEW v \in Speeds PROVE v \in Int /\ v \in Reports
BY ThresholdOrder DEF Speeds, Reports

\* The three ways of an update, with what it makes of the estimator.
Observes(c) == setup.parameters /\ injecting /\ Normal(c)
SlavedTest(s) == IF Verdict(s.test) = "open" THEN StepTest(s.test, FALSE, FALSE, 0) ELSE s.test
ObservedTest(s, locked, pull) ==
  IF Verdict(s.test) = "open" THEN StepTest(s.test, TRUE, locked, pull) ELSE s.test
ObservedRight(s, v, pull) ==
  IF Verdict(s.test) = "open" /\ TurnsOver(s.test, TRUE, pull)
  THEN ~(s.right /\ Size(v) <= TopTracked) ELSE s.right /\ Size(v) <= TopTracked

LEMMA UpdateWays ==
  ASSUME NEW s, SalOk(s), NEW c, NEW used, NEW v, NEW locked, NEW pull
  PROVE  /\ ~setup.parameters =>
              Estimated(s, c, used, v, locked, pull) =
                [fault |-> TRUE, omega |-> s.omega, right |-> s.right, test |-> AbortTest(s.test)]
         /\ Observes(c) =>
              Estimated(s, c, used, v, locked, pull) =
                [fault |-> FALSE, omega |-> Clamped(v), right |-> ObservedRight(s, v, pull),
                 test |-> ObservedTest(s, locked, pull)]
         /\ setup.parameters /\ ~Observes(c) =>
              Estimated(s, c, used, v, locked, pull) =
                [fault |-> SlavedTest(s).state # "Init", omega |-> used.omega, right |-> used.right,
                 test |-> SlavedTest(s)]
<1>1. ASSUME NEW x, x = MissingParameter(s)
      PROVE  x = [fault |-> TRUE, omega |-> s.omega, right |-> s.right, test |-> AbortTest(s.test)]
  <2>1. s \in [fault : BOOLEAN, omega : Reports, right : BOOLEAN, test : Tests]
    BY DEF SalOk
  <2> DEFINE t == AbortTest(s.test)
  <2>2. x = [s EXCEPT !.fault = TRUE, !.test = t]
    BY <1>1 DEF MissingParameter
  <2> HIDE DEF t
  <2>3. x = [fault |-> TRUE, omega |-> s.omega, right |-> s.right, test |-> t]
    BY <2>1, <2>2
  <2> QED BY <2>3 DEF t
<1>2. CASE ~setup.parameters
  BY <1>1, <1>2 DEF Estimated, Observes
<1>3. CASE Observes(c)
  <2> DEFINE r == s.right /\ Size(v) <= TopTracked
  <2>1. \A x : x = [s EXCEPT !.right = r] => x.right = r /\ x.test = s.test
    BY DEF SalOk
  <2>2. Estimated(s, c, used, v, locked, pull) = Injected([s EXCEPT !.right = r], v, locked, pull)
    BY <1>3 DEF Estimated, Observes
  <2>3. PICK x : x = [s EXCEPT !.right = r]
    OBVIOUS
  <2>5. x.right = r /\ x.test = s.test
    BY <2>1, <2>3
  <2>6. ObservedRight(s, v, pull) = IF Verdict(s.test) = "open" /\ TurnsOver(s.test, TRUE, pull) THEN ~r ELSE r
    BY DEF ObservedRight
  <2> HIDE DEF r
  <2>4. Injected(x, v, locked, pull) =
          [fault |-> FALSE, omega |-> Clamped(v), right |-> ObservedRight(s, v, pull),
           test |-> ObservedTest(s, locked, pull)]
    BY <2>5, <2>6 DEF Injected, ObservedTest
  <2> QED BY <1>3, <2>2, <2>3, <2>4 DEF Observes
<1>4. CASE setup.parameters /\ ~Observes(c)
  BY <1>4 DEF Estimated, Observes, Slaved, SlavedTest
<1> QED BY <1>2, <1>3, <1>4

LEMMA UpdatedOk ==
  ASSUME NEW s, SalOk(s), NEW c, NEW used \in Results, IsOk(used), NEW v \in Speeds,
         NEW locked \in BOOLEAN, NEW pull \in {-1, 0, 1}
  PROVE  SalOk(Estimated(s, c, used, v, locked, pull))
<1>1. TestOk(s.test) /\ TestOk(AbortTest(s.test)) /\ TestOk(SlavedTest(s)) /\ TestOk(ObservedTest(s, locked, pull))
  BY StepTestOk, AbortTestOk DEF SalOk, SlavedTest, ObservedTest
<1>2. s.omega \in Reports /\ s.right \in BOOLEAN /\ used.omega \in Reports /\ used.right \in BOOLEAN
  BY ResultKinds DEF SalOk
<1>3. Clamped(v) \in Reports
  BY SpeedRange, ClampedRange
<1>4. ObservedRight(s, v, pull) \in BOOLEAN
  BY DEF ObservedRight
<1> DEFINE x == Estimated(s, c, used, v, locked, pull)
<1>5. CASE ~setup.parameters
  <2>1. x = [fault |-> TRUE, omega |-> s.omega, right |-> s.right, test |-> AbortTest(s.test)]
    BY <1>5, UpdateWays
  <2> HIDE DEF x
  <2> QED BY <1>1, <1>2, <2>1 DEF SalOk, TestOk, x
<1>6. CASE Observes(c)
  <2>1. x = [fault |-> FALSE, omega |-> Clamped(v), right |-> ObservedRight(s, v, pull),
             test |-> ObservedTest(s, locked, pull)]
    BY <1>6, UpdateWays
  <2> HIDE DEF x
  <2> QED BY <1>1, <1>3, <1>4, <2>1 DEF SalOk, TestOk, x
<1>7. CASE setup.parameters /\ ~Observes(c)
  <2>1. x = [fault |-> SlavedTest(s).state # "Init", omega |-> used.omega, right |-> used.right,
             test |-> SlavedTest(s)]
    BY <1>7, UpdateWays
  <2> HIDE DEF x
  <2> QED BY <1>1, <1>2, <2>1 DEF SalOk, TestOk, x
<1> QED BY <1>5, <1>6, <1>7

-----------------------------------------------------------------------------
(***************************************************************************)
(* The tick of the second bench                                            *)
(***************************************************************************)
LEMMA Settles ==
  ASSUME SalOk(sal), control \in Controls, NEW r \in Results
  PROVE  LET s == PolaritySettled(r)
         IN  \/ control # "testing" /\ s = [control |-> control, sal |-> sal, used |-> r]
             \/ /\ control = "testing" /\ Verdict(sal.test) = "open" /\ TooFast(r)
                /\ s = [control |-> "torque", sal |-> ResetSaliency(r, FALSE), used |-> r]
             \/ /\ control = "testing" /\ Verdict(sal.test) = "open" /\ ~TooFast(r)
                /\ s = [control |-> "testing", sal |-> sal, used |-> ReadSaliency(sal)]
             \/ /\ control = "testing" /\ sal.test.state = "Done"
                /\ s = [control |-> "torque", sal |-> sal, used |-> r]
             \/ /\ control = "testing" /\ sal.test.state = "Fault"
                /\ s = [control |-> "safety", sal |-> sal, used |-> r]
<1>1. sal.test.state \in {"Init", "Settling", "Testing", "Done", "Fault"}
  BY TestParts DEF SalOk
<1>2. CASE sal.test.state = "Done"
  BY <1>2 DEF PolaritySettled, Verdict
<1>3. CASE sal.test.state = "Fault"
  BY <1>3 DEF PolaritySettled, Verdict
<1>4. CASE sal.test.state \in {"Init", "Settling", "Testing"}
  <2>1. Verdict(sal.test) = "open"
    BY <1>4 DEF Verdict
  <2> QED BY <2>1 DEF PolaritySettled
<1> QED BY <1>1, <1>2, <1>3, <1>4

LEMMA SettledOk ==
  ASSUME SalOk(sal), control \in Controls, NEW r \in Results
  PROVE  LET s == PolaritySettled(r)
         IN  /\ s.control \in Controls /\ SalOk(s.sal) /\ s.used \in Results
             /\ s = [control |-> s.control, sal |-> s.sal, used |-> s.used]
<1>1. SalOk(ResetSaliency(r, FALSE)) /\ ReadSaliency(sal) \in Results
  BY SeededSaliency, SaliencyReading
<1> DEFINE s == PolaritySettled(r)
           Kind(c, x, u) == s = [control |-> c, sal |-> x, used |-> u]
<1>2. \/ Kind(control, sal, r) \/ Kind("torque", ResetSaliency(r, FALSE), r)
      \/ Kind("testing", sal, ReadSaliency(sal)) \/ Kind("torque", sal, r) \/ Kind("safety", sal, r)
  BY Settles
<1> HIDE DEF s
<1>3. ASSUME NEW c \in Controls, NEW x, SalOk(x), NEW u \in Results, Kind(c, x, u)
      PROVE  s.control \in Controls /\ SalOk(s.sal) /\ s.used \in Results
             /\ s = [control |-> s.control, sal |-> s.sal, used |-> s.used]
  BY <1>3
<1>4. "torque" \in Controls /\ "testing" \in Controls /\ "safety" \in Controls
  BY DEF Controls
<1> HIDE DEF Kind
<1> QED BY <1>1, <1>2, <1>3, <1>4 DEF s

DriveTyped ==
  /\ bench \in {"edges", "speeds"}
  /\ speed \in Speeds /\ setup \in Setups /\ control \in Controls /\ injecting \in BOOLEAN
  /\ SalOk(sal) /\ arb \in ArbType

LEMMA ParkedDrive ==
  ASSUME arb \in ArbType, NEW hall \in Results, NEW guess \in BOOLEAN, Parked(hall, guess)
  PROVE  /\ injecting' = FALSE /\ SalOk(sal') /\ arb' \in ArbType
         /\ sal' = ResetSaliency(hall, guess)
         /\ arb'.hall = hall /\ arb'.sensorless = None
         /\ arb'.blend_omega = IF IsOk(hall) THEN hall.omega ELSE HighSpeed
<1>1. arb' \in UpdateSensorless(UpdateHall(arb, hall, timer.pattern), Err, Err)
  BY DEF Parked
<1>2. Err \in Results /\ ~IsOk(Err) /\ ~IsOk(None)
  BY ResultKinds
<1>3. arb' \in ArbType
  BY <1>1, <1>2, ArbTyped
<1>4. arb'.hall = hall /\ arb'.sensorless = None
  BY <1>1, <1>2, Arbitrated, BlendKinds
<1>5. arb'.blend_omega = IF IsOk(hall) THEN hall.omega ELSE HighSpeed
  BY <1>1, <1>2, <1>4, Arbitrated
<1> QED BY <1>3, <1>4, <1>5, SeededSaliency DEF Parked

LEMMA ReadingsTyped ==
  ASSUME NEW v \in Speeds
  PROVE  /\ HallReadings(v) \subseteq Results
         /\ FluxReadings(v) \subseteq Results
         /\ \A r \in HallReadings(v) : IsOk(r) => r.omega = v /\ r.right
         /\ \A r \in FluxReadings(v) :
              /\ ~setup.parameters => ~IsOk(r)
              /\ setup.parameters /\ Size(v) >= LeastObserved => IsOk(r) /\ r.omega = v /\ r.right
              /\ IsOk(r) /\ Size(v) < LeastObserved => -LowSpeed <= r.omega /\ r.omega <= LowSpeed
<1>1. v \in Reports /\ \A w \in -LowSpeed .. LowSpeed : w \in Reports
  BY SpeedRange, ThresholdOrder DEF Reports
<1>2. \A r \in HallReadings(v) : r = Err \/ r = Ok(v, TRUE)
  BY DEF HallReadings
<1>3. ASSUME NEW r \in FluxReadings(v)
      PROVE  \/ r = Err /\ (~setup.parameters \/ ~(Size(v) >= LeastObserved))
             \/ r = Ok(v, TRUE) /\ setup.parameters /\ Size(v) >= LeastObserved
             \/ /\ ~(Size(v) >= LeastObserved) /\ setup.parameters
                /\ \E w \in -LowSpeed .. LowSpeed : r = Ok(w, FALSE)
  BY <1>3 DEF FluxReadings
<1>4. Size(v) \in Int /\ LeastObserved \in Int /\ v \in Int
  BY SpeedRange, ThresholdOrder DEF Size, LeastObserved
<1>5. HallReadings(v) \subseteq Results
  BY <1>1, <1>2, ResultKinds
<1>6. \A r \in HallReadings(v) : IsOk(r) => r.omega = v /\ r.right
  <2> TAKE r \in HallReadings(v)
  <2>1. CASE r = Ok(v, TRUE)
    BY <2>1, OkParts
  <2>2. CASE r = Err
    BY <2>2, ResultKinds
  <2> QED BY <1>2, <2>1, <2>2
<1>7. ASSUME NEW r \in FluxReadings(v)
      PROVE  /\ r \in Results
             /\ ~setup.parameters => ~IsOk(r)
             /\ setup.parameters /\ Size(v) >= LeastObserved => IsOk(r) /\ r.omega = v /\ r.right
             /\ IsOk(r) /\ Size(v) < LeastObserved => -LowSpeed <= r.omega /\ r.omega <= LowSpeed
  <2>1. CASE r = Err
    <3>1. r \in Results /\ ~IsOk(r)
      BY <2>1, ResultKinds
    <3>2. \A w, right : Err # Ok(w, right)
      BY DEF Err, Ok
    <3>3. ~(setup.parameters /\ Size(v) >= LeastObserved)
      BY <1>3, <2>1, <3>2
    <3> QED BY <3>1, <3>3
  <2>2. CASE r = Ok(v, TRUE) /\ setup.parameters /\ Size(v) >= LeastObserved
    <3>1. IsOk(r) /\ r.omega = v /\ r.right /\ r \in Results
      BY <1>1, <2>2, OkParts
    <3>2. ~(Size(v) < LeastObserved)
      BY <1>4, <2>2
    <3> QED BY <2>2, <3>1, <3>2
  <2>3. CASE ~(Size(v) >= LeastObserved) /\ setup.parameters /\ \E w \in -LowSpeed .. LowSpeed : r = Ok(w, FALSE)
    <3>1. PICK w \in -LowSpeed .. LowSpeed : r = Ok(w, FALSE)
      BY <2>3
    <3>2. IsOk(r) /\ r.omega = w /\ r \in Results
      BY <1>1, <3>1, OkParts
    <3>3. -LowSpeed <= w /\ w <= LowSpeed
      BY ThresholdOrder
    <3> QED BY <2>3, <3>2, <3>3
  <2> QED BY <1>3, <2>1, <2>2, <2>3
<1> QED BY <1>5, <1>6, <1>7

\* What a tick does while the drive conducts.
Conducting(s, hall, flux, locked, pull) ==
  /\ control' # "off" /\ control' = s.control /\ IsOk(s.used)
  /\ injecting' = Injects(control', s.used)
  /\ sal' = Estimated(s.sal, control', s.used, speed', locked, pull)
  /\ arb' \in UpdateSensorless(UpdateHall(arb, hall, timer.pattern), ReadSaliency(sal'), flux)

LEMMA TickParts ==
  ASSUME DriveTyped, Tick
  PROVE  LET s == PolaritySettled(Read(arb))
         IN  /\ speed' \in Speeds /\ speed - 1 <= speed' /\ speed' <= speed + 1
             /\ bench = "speeds" /\ UNCHANGED <<bench, hallVars, setup>>
             /\ \E hall \in HallReadings(speed') :
                  \/ control' = "off" /\ \E guess \in BOOLEAN : Parked(hall, guess)
                  \/ \E flux \in FluxReadings(speed'), locked \in BOOLEAN, pull \in {-1, 0, 1} :
                       /\ Conducting(s, hall, flux, locked, pull)
                       /\ s.sal.test.state = "Testing" /\ pull # 0 => pull = IF s.sal.right THEN 1 ELSE -1
<1> DEFINE s == PolaritySettled(Read(arb))
<1>1. PICK v \in Speeds \cap (speed - 1 .. speed + 1) :
        \E hall \in HallReadings(v), c \in Conducts(s) :
          /\ speed' = v
          /\ control' = c
          /\ IF c = "off" THEN \E guess \in BOOLEAN : Parked(hall, guess)
             ELSE \E flux \in FluxReadings(v), locked \in Locks(s.sal), pull \in Pulls(s.sal) :
                    /\ injecting' = Injects(c, s.used)
                    /\ sal' = Estimated(s.sal, c, s.used, v, locked, pull)
                    /\ arb' \in UpdateSensorless(UpdateHall(arb, hall, timer.pattern), ReadSaliency(sal'), flux)
  BY DEF Tick
<1>2. speed \in Int /\ v \in Int /\ speed - 1 <= v /\ v <= speed + 1
  BY <1>1, SpeedRange DEF DriveTyped
<1> HIDE DEF s
<1>3. PICK hall \in HallReadings(v), c \in Conducts(s) :
        /\ speed' = v
        /\ control' = c
        /\ IF c = "off" THEN \E guess \in BOOLEAN : Parked(hall, guess)
           ELSE \E flux \in FluxReadings(v), locked \in Locks(s.sal), pull \in Pulls(s.sal) :
                  /\ injecting' = Injects(c, s.used)
                  /\ sal' = Estimated(s.sal, c, s.used, v, locked, pull)
                  /\ arb' \in UpdateSensorless(UpdateHall(arb, hall, timer.pattern), ReadSaliency(sal'), flux)
  BY <1>1
<1>4. CASE c = "off"
  BY <1>2, <1>3, <1>4 DEF Tick, s
<1>5. CASE c # "off"
  <2>1. c = s.control /\ IsOk(s.used)
    BY <1>5 DEF Conducts
  <2>2. PICK flux \in FluxReadings(v), locked \in Locks(s.sal), pull \in Pulls(s.sal) :
               /\ injecting' = Injects(c, s.used)
               /\ sal' = Estimated(s.sal, c, s.used, v, locked, pull)
               /\ arb' \in UpdateSensorless(UpdateHall(arb, hall, timer.pattern), ReadSaliency(sal'), flux)
    BY <1>3, <1>5
  <2>3. locked \in BOOLEAN /\ pull \in {-1, 0, 1}
        /\ (s.sal.test.state = "Testing" /\ pull # 0 => pull = IF s.sal.right THEN 1 ELSE -1)
    BY DEF Locks, Pulls
  <2>4. Conducting(s, hall, flux, locked, pull)
    BY <1>3, <1>5, <2>1, <2>2 DEF Conducting
  <2> QED BY <1>2, <1>3, <2>3, <2>4 DEF Tick, s
<1> QED BY <1>4, <1>5

LEMMA ConductingOk ==
  ASSUME DriveTyped, speed' \in Speeds, NEW s, s = PolaritySettled(Read(arb)), NEW hall \in Results,
         NEW flux \in Results, NEW locked \in BOOLEAN, NEW pull \in {-1, 0, 1},
         Conducting(s, hall, flux, locked, pull)
  PROVE  /\ s.control \in Controls /\ SalOk(s.sal) /\ s.used \in Results /\ IsOk(s.used)
         /\ SalOk(sal') /\ arb' \in ArbType /\ ReadSaliency(sal') \in Results
         /\ injecting' \in BOOLEAN /\ control' \in Controls
<1>1. Read(arb) \in Results
  BY ReadKinds DEF DriveTyped
<1>2. s.control \in Controls /\ SalOk(s.sal) /\ s.used \in Results
  BY <1>1, SettledOk DEF DriveTyped
<1>3. SalOk(sal')
  BY <1>2, UpdatedOk DEF Conducting
<1>4. ReadSaliency(sal') \in Results
  BY <1>3, SaliencyReading
<1>5. arb' \in ArbType
  BY <1>4, ArbTyped DEF Conducting, DriveTyped
<1>6. injecting' \in BOOLEAN
  <2>1. control' \in {"testing", "torque", "safety"} /\ injecting' = Injects(control', s.used)
    BY <1>2 DEF Conducting, Controls
  <2>2. CASE control' = "testing"
    BY <2>1, <2>2 DEF Injects
  <2>3. CASE control' \in {"torque", "safety"}
    <3>1. injecting' = (Size(s.used.omega) < HighSpeed)
      BY <2>1, <2>3 DEF Injects
    <3> QED BY <3>1
  <2> QED BY <2>1, <2>2, <2>3
<1> QED BY <1>2, <1>3, <1>4, <1>5, <1>6 DEF Conducting

LEMMA TickTyped ==
  ASSUME DriveTyped, Tick PROVE DriveTyped'
<1> DEFINE s == PolaritySettled(Read(arb))
<1>1. speed' \in Speeds /\ bench' \in {"edges", "speeds"} /\ setup' \in Setups
  BY TickParts DEF DriveTyped
<1>2. PICK hall \in HallReadings(speed') :
        \/ control' = "off" /\ \E guess \in BOOLEAN : Parked(hall, guess)
        \/ \E flux \in FluxReadings(speed'), locked \in BOOLEAN, pull \in {-1, 0, 1} :
             Conducting(s, hall, flux, locked, pull)
  BY TickParts
<1>3. hall \in Results /\ FluxReadings(speed') \subseteq Results
  BY <1>1, ReadingsTyped
<1> HIDE DEF s
<1>4. CASE control' = "off" /\ \E guess \in BOOLEAN : Parked(hall, guess)
  <2>1. PICK guess \in BOOLEAN : Parked(hall, guess)
    BY <1>4
  <2> QED BY <1>1, <1>3, <1>4, <2>1, ParkedDrive DEF DriveTyped, Controls
<1>5. CASE \E flux \in FluxReadings(speed'), locked \in BOOLEAN, pull \in {-1, 0, 1} :
             Conducting(s, hall, flux, locked, pull)
  <2>1. PICK flux \in FluxReadings(speed'), locked \in BOOLEAN, pull \in {-1, 0, 1} :
               Conducting(s, hall, flux, locked, pull)
    BY <1>5
  <2> QED BY <1>1, <1>3, <2>1, ConductingOk DEF DriveTyped, s
<1> QED BY <1>2, <1>4, <1>5

-----------------------------------------------------------------------------
(***************************************************************************)
(* The first bench                                                         *)
(***************************************************************************)
HallTyped ==
  /\ rotor \in [pattern : Patterns, table : Tables]
  /\ timer \in [prev : Patterns \cup Glitches, pattern : Patterns \cup Glitches]
  /\ est \in [table : {NotCalibrated, rotor.table}, state : Modes,
              prev_pattern : Patterns \cup {0}, prev_dir : Directions]
  /\ truth \in [dir : Directions, run : 0 .. 2, gap : 0 .. 2, doubt : BOOLEAN]
  /\ timer.pattern \in {rotor.pattern} \cup Glitches

\* The direction of the last step that the timer shows, if it shows one.
Heading == Dir(rotor.table, timer.prev, timer.pattern)

\* A step that is shown is the last one, and what the estimator remembers of the step before it.
Remembers ==
  /\ Heading # 0 => truth.run > 0 /\ truth.dir = Heading
  /\ est.prev_pattern = 0 => est.state = "Stationary"
  /\ truth.gap = 0 => /\ est.prev_dir = Heading
                      /\ est.prev_pattern # 0 => timer.pattern = est.prev_pattern
  /\ truth.gap = 0 /\ ~truth.doubt /\ est.state = "Normal" /\ est.prev_dir # 0 => truth.run = 2
  /\ truth.gap = 1 /\ est.prev_pattern # 0 /\ Heading # 0 /\ Heading = est.prev_dir => truth.run = 2

HallRight == ~IsOk(arb.sensorless) /\ (IsOk(arb.hall) => arb.hall.right)

LEMMA RotorSectors ==
  ASSUME HallTyped PROVE Sectors(rotor.table) /\ rotor.pattern \in Patterns
BY TablesHaveSectors DEF HallTyped

LEMMA TruthParts ==
  ASSUME HallTyped
  PROVE  /\ truth = [dir |-> truth.dir, run |-> truth.run, gap |-> truth.gap, doubt |-> truth.doubt]
         /\ truth.dir \in Directions /\ truth.run \in 0 .. 2 /\ truth.gap \in 0 .. 2 /\ truth.doubt \in BOOLEAN
         /\ \A dir : Turned(dir) = [dir |-> dir, run |-> IF truth.run > 0 /\ truth.dir = dir THEN 2 ELSE 1,
                                    gap |-> AtMostTwo(truth.gap + 1), doubt |-> truth.doubt]
         /\ AtMostTwo(truth.gap + 1) \in {1, 2} /\ (AtMostTwo(truth.gap + 1) = 1 => truth.gap = 0)
<1>1. truth \in [dir : Directions, run : 0 .. 2, gap : 0 .. 2, doubt : BOOLEAN]
  BY DEF HallTyped
<1>2. AtMostTwo(truth.gap + 1) \in {1, 2} /\ (AtMostTwo(truth.gap + 1) = 1 => truth.gap = 0)
  BY <1>1 DEF AtMostTwo
<1>3. ASSUME NEW dir
      PROVE  Turned(dir) = [dir |-> dir, run |-> IF truth.run > 0 /\ truth.dir = dir THEN 2 ELSE 1,
                            gap |-> AtMostTwo(truth.gap + 1), doubt |-> truth.doubt]
  <2> DEFINE run == IF truth.run > 0 /\ truth.dir = dir THEN 2 ELSE 1
             gap == AtMostTwo(truth.gap + 1)
  <2>1. Turned(dir) = [truth EXCEPT !.dir = dir, !.run = run, !.gap = gap]
    BY DEF Turned
  <2> HIDE DEF run, gap
  <2>2. ASSUME NEW x, x = [truth EXCEPT !.dir = dir, !.run = run, !.gap = gap]
        PROVE  x = [dir |-> dir, run |-> run, gap |-> gap, doubt |-> truth.doubt]
    BY <1>1, <2>2
  <2> QED BY <2>1, <2>2 DEF run, gap
<1> QED BY <1>1, <1>2, <1>3

\* An edge, forward or back: the timer shows it, unless it was disturbed before.
LEMMA EdgeShown ==
  ASSUME HallTyped, NEW dir \in {1, -1}, Edge(dir)
  PROVE  /\ rotor' = [pattern |-> rotor'.pattern, table |-> rotor.table] /\ rotor'.pattern \in Patterns
         /\ timer' = [prev |-> timer.pattern, pattern |-> rotor'.pattern]
         /\ Heading' \in {0, dir}
<1> DEFINE t == rotor.table
           p == rotor.pattern
           q == Neighbour(dir)
<1>1. Sectors(t) /\ p \in Patterns
  BY RotorSectors
<1>2. rotor' = [pattern |-> q, table |-> t] /\ timer' = [prev |-> timer.pattern, pattern |-> q]
  BY DEF Edge, Captured, HallTyped
<1>3. q \in Patterns /\ p # q /\ ((dir = 1 /\ ForwardNext(t, p) = q) \/ (dir = -1 /\ ForwardNext(t, q) = p))
  <2>1. CASE dir = 1
    BY <1>1, <2>1, NoShortTurn DEF Neighbour
  <2>2. CASE dir = -1
    <3>1. q = CHOOSE x \in Patterns : ForwardNext(t, x) = p
      BY <2>2 DEF Neighbour
    <3>2. \E x \in Patterns : ForwardNext(t, x) = p
      BY <1>1, PreviousExists
    <3>3. q \in Patterns /\ ForwardNext(t, q) = p
      BY <3>1, <3>2
    <3> QED BY <1>1, <2>2, <3>3, NoShortTurn
  <2> QED BY <2>1, <2>2
<1>4. ~(ForwardNext(t, p) = q /\ ForwardNext(t, q) = p)
  BY <1>1, <1>3, NoShortTurn
<1> HIDE DEF q
<1>5. timer.pattern = p \/ timer.pattern \notin Patterns
  BY DEF HallTyped, Glitches, Patterns
<1>6. Heading' = Dir(t, timer.pattern, q)
  BY <1>2 DEF Heading
<1>7. Dir(t, timer.pattern, q) \in {0, dir}
  BY <1>1, <1>3, <1>4, <1>5 DEF Dir, Adjacent, Direction
<1> QED BY <1>2, <1>3, <1>6, <1>7

LEMMA EdgeRemembered ==
  ASSUME HallTyped, Remembers, HallRight, NEW dir \in {1, -1}, Edge(dir)
  PROVE  HallTyped' /\ Remembers' /\ HallRight'
<1>1. /\ rotor' = [pattern |-> rotor'.pattern, table |-> rotor.table] /\ rotor'.pattern \in Patterns
      /\ timer' = [prev |-> timer.pattern, pattern |-> rotor'.pattern]
      /\ Heading' \in {0, dir} /\ est' = est /\ arb' = arb
  BY EdgeShown DEF Edge
<1>2. truth' = [dir |-> dir, run |-> IF truth.run > 0 /\ truth.dir = dir THEN 2 ELSE 1,
                gap |-> AtMostTwo(truth.gap + 1), doubt |-> truth.doubt]
  BY TruthParts DEF Edge
<1>3. truth.run \in 0 .. 2 /\ truth.doubt \in BOOLEAN /\ AtMostTwo(truth.gap + 1) \in {1, 2}
      /\ (AtMostTwo(truth.gap + 1) = 1 => truth.gap = 0)
  BY TruthParts
<1>4. HallTyped'
  BY <1>1, <1>2, <1>3 DEF HallTyped, Directions
<1>5. truth'.dir = dir /\ truth'.run > 0 /\ truth'.gap # 0 /\ (truth'.gap = 1 => truth.gap = 0)
      /\ (truth.run > 0 /\ truth.dir = dir => truth'.run = 2)
  BY <1>2, <1>3
<1>6. Remembers'
  <2>1. Heading' # 0 => truth'.run > 0 /\ truth'.dir = Heading'
    BY <1>1, <1>5
  <2>2. truth'.gap = 1 /\ est'.prev_pattern # 0 /\ Heading' # 0 /\ Heading' = est'.prev_dir => truth'.run = 2
    BY <1>1, <1>5 DEF Remembers
  <2> QED BY <1>1, <1>5, <2>1, <2>2 DEF Remembers
<1> QED BY <1>1, <1>4, <1>6 DEF HallRight

LEMMA EdgesNext ==
  ASSUME HallTyped, Remembers, HallRight, DriveTyped, bench = "edges", Next, ~HallTick
  PROVE  HallTyped' /\ Remembers' /\ HallRight'
<1>0. ~Start /\ ~Stop /\ ~Tick
  BY DEF Start, Stop, Tick
<1>1. CASE Forward \/ Reverse
  BY <1>1, EdgeRemembered DEF Forward, Reverse
<1>2. ASSUME HallTyped', est' = est, arb' = arb, Heading' = 0, truth'.gap # 0
      PROVE  HallTyped' /\ Remembers' /\ HallRight'
  BY <1>2 DEF Remembers, HallRight
<1>3. CASE SkippedEdge
  <2> DEFINE t == rotor.table
             p == rotor.pattern
             q == ForwardNext(t, p)
             r == ForwardNext(t, q)
  <2>1. Sectors(t) /\ p \in Patterns
    BY RotorSectors
  <2>2. q \in Patterns /\ r \in Patterns /\ q # p /\ r # q /\ r # p /\ ForwardNext(t, r) # p
    BY <2>1, NoShortTurn
  <2>3. rotor' = [pattern |-> r, table |-> t] /\ timer' = [prev |-> timer.pattern, pattern |-> r]
    BY <1>3 DEF SkippedEdge, Neighbour, Captured, HallTyped
  <2>4. truth' = [truth EXCEPT !.dir = 1, !.run = 2, !.gap = AtMostTwo(truth.gap + 1)] /\ est' = est /\ arb' = arb
    BY <1>3 DEF SkippedEdge
  <2> DEFINE gap == AtMostTwo(truth.gap + 1)
  <2>5. gap \in {1, 2}
    BY TruthParts
  <2> HIDE DEF gap, q, r
  <2>6. truth' \in [dir : Directions, run : 0 .. 2, gap : 0 .. 2, doubt : BOOLEAN] /\ truth'.gap = gap
    <3>1. truth' = [dir |-> 1, run |-> 2, gap |-> gap, doubt |-> truth.doubt]
      BY <2>4 DEF HallTyped, gap
    <3> QED BY <2>5, <3>1 DEF HallTyped, Directions
  <2>7. timer.pattern = p \/ timer.pattern \notin Patterns
    BY DEF HallTyped, Glitches, Patterns
  <2>8. Dir(t, timer.pattern, r) = 0
    BY <2>2, <2>7 DEF Dir, Adjacent, q, r
  <2>9. HallTyped'
    BY <2>2, <2>3, <2>4, <2>6 DEF HallTyped
  <2> QED BY <1>2, <2>3, <2>4, <2>5, <2>6, <2>8, <2>9 DEF Heading
<1>4. CASE Glitch \/ GlitchEnds
  <2>1. /\ truth' = [truth EXCEPT !.gap = AtMostTwo(truth.gap + 1)] /\ est' = est /\ arb' = arb /\ rotor' = rotor
        /\ timer' = [prev |-> timer.pattern, pattern |-> timer'.pattern]
        /\ \/ timer'.pattern \in Glitches
           \/ timer.pattern \notin Patterns /\ timer'.pattern = rotor.pattern
    BY <1>4 DEF Glitch, GlitchEnds, Captured, HallTyped, Glitches, Patterns
  <2> DEFINE gap == AtMostTwo(truth.gap + 1)
  <2>2. gap \in {1, 2}
    BY TruthParts
  <2> HIDE DEF gap
  <2>3. truth' \in [dir : Directions, run : 0 .. 2, gap : 0 .. 2, doubt : BOOLEAN] /\ truth'.gap = gap
    BY <2>1, <2>2 DEF HallTyped, gap
  <2>4. Heading' = 0
    BY <2>1 DEF Heading, Dir, Adjacent, Glitches, Patterns
  <2>5. HallTyped'
    BY <2>1, <2>3 DEF HallTyped
  <2> QED BY <1>2, <2>1, <2>2, <2>3, <2>4, <2>5
<1>5. CASE CalibrationStarts \/ TableStored
  <2>1. /\ est' \in {[est EXCEPT !.table = NotCalibrated], [est EXCEPT !.table = rotor.table]}
        /\ UNCHANGED <<rotor, timer, truth, arb>>
    BY <1>5 DEF CalibrationStarts, TableStored, Invalidate, SetCalibration
  <2>2. /\ est' \in [table : {NotCalibrated, rotor.table}, state : Modes,
                     prev_pattern : Patterns \cup {0}, prev_dir : Directions]
        /\ est'.state = est.state /\ est'.prev_pattern = est.prev_pattern /\ est'.prev_dir = est.prev_dir
    BY <2>1 DEF HallTyped
  <2> QED BY <2>1, <2>2 DEF HallTyped, Remembers, HallRight, Heading
<1> QED BY <1>0, <1>1, <1>3, <1>4, <1>5 DEF Next

\* The memory holds what the tick has read; a speed is that of two edges in a row.
LEMMA SpeedIsProven ==
  ASSUME HallTyped, Remembers, Readable(est, timer.pattern), NEW state,
         state = NextState(est, rotor.table, timer.prev, timer.pattern)
  PROVE  /\ state \in Modes
         /\ state = "Normal" /\ Heading # 0 => Proven(Heading, Seen)
         /\ state = "Normal" /\ Heading # 0 /\ ~Seen.doubt => Seen.run = 2
<1> DEFINE t == rotor.table
           prev == timer.prev
           p == timer.pattern
<1>1. truth.gap \in 0 .. 2 /\ truth.run \in 0 .. 2 /\ truth.doubt \in BOOLEAN
  BY TruthParts
<1>2. p \in Patterns /\ Heading = Dir(t, prev, p)
  BY DEF Readable, Heading
<1>3. Seen.run = truth.run /\ Seen.dir = truth.dir
      /\ Seen.doubt = IF truth.gap = 2 THEN TRUE ELSE IF truth.gap = 1 THEN FALSE ELSE truth.doubt
  BY DEF Seen, HallTyped
<1>4. SUFFICES ASSUME state = "Normal", Heading # 0, ~Seen.doubt PROVE truth.run = 2 /\ truth.dir = Heading
  BY <1>1, <1>3 DEF Proven, NextState, Step, Modes, HallTyped
<1>5. Adjacent(t, prev, p)
  BY <1>2, <1>4 DEF Dir
<1>6. est.prev_dir = Heading /\ est.state # "Stationary" /\ (est.state = "Normal" \/ Base(est, t, prev, p) # p)
  BY <1>2, <1>4, <1>5 DEF NextState, Step, HallTyped, Modes
<1>7. est.prev_pattern # 0
  BY <1>6 DEF Remembers
<1>8. CASE truth.gap = 0
  <2>1. est.prev_pattern = p /\ ~truth.doubt
    BY <1>3, <1>4, <1>7, <1>8 DEF Remembers
  <2>2. est.state = "Normal"
    BY <1>6, <2>1 DEF Base
  <2> QED BY <1>4, <1>6, <1>8, <2>1, <2>2 DEF Remembers
<1>9. CASE truth.gap = 1
  BY <1>4, <1>6, <1>7, <1>9 DEF Remembers
<1>10. CASE truth.gap = 2
  BY <1>3, <1>4, <1>10
<1> QED BY <1>1, <1>8, <1>9, <1>10

LEMMA HallTickRemembered ==
  ASSUME HallTyped, Remembers, HallRight, DriveTyped, HallTick
  PROVE  HallTyped' /\ Remembers' /\ HallRight' /\ DriveTyped'
<1>0. ASSUME NEW hall \in Results, Parked(hall, FALSE) PROVE DriveTyped'
  <2>1. UNCHANGED <<bench, speed, setup, control>>
    BY DEF HallTick
  <2>2. injecting' = FALSE /\ SalOk(sal') /\ arb' \in ArbType
    BY <1>0, ParkedDrive DEF DriveTyped
  <2> QED BY <2>1, <2>2 DEF DriveTyped
<1>1. UNCHANGED <<rotor, timer>> /\ Heading' = Heading
  BY DEF HallTick, Heading
<1>2. CASE ~Readable(est, timer.pattern)
  <2>1. UNCHANGED <<est, truth>> /\ Parked(Err, FALSE)
    BY <1>2 DEF HallTick
  <2>2. ~IsOk(arb'.sensorless) /\ ~IsOk(arb'.hall)
    BY <2>1, ParkedDrive, ResultKinds DEF DriveTyped
  <2>3. DriveTyped'
    BY <1>0, <2>1, ResultKinds
  <2> QED BY <1>1, <2>1, <2>2, <2>3 DEF HallTyped, Remembers, HallRight
<1>3. CASE Readable(est, timer.pattern)
  <2> DEFINE p == timer.pattern
             t == rotor.table
             state == NextState(est, t, timer.prev, p)
             e(travelled) == GetEstimate(est, timer.prev, p, travelled)
  <2>1. PICK travelled \in Travels :
          /\ est' = e(travelled).est
          /\ truth' = Seen
          /\ Parked(Ok(e(travelled).omega, InSector(e(travelled).theta) /\ Proven(e(travelled).omega, Seen)), FALSE)
    BY <1>3 DEF HallTick
  <2>2. est.table = t /\ p \in Patterns /\ Sectors(t) /\ travelled \in Nat
    <3>1. est.table = t /\ p \in Patterns /\ Sectors(t)
      BY <1>3, RotorSectors DEF Readable, HallTyped
    <3>2. travelled \in Nat
      BY DEF Travels
    <3> QED BY <3>1, <3>2
  <2>3. /\ e(travelled).est = [est EXCEPT !.state = state, !.prev_pattern = p, !.prev_dir = Heading]
        /\ e(travelled).omega = IF state = "Normal" THEN Heading ELSE 0
    <3>1. /\ e(travelled).est = [est EXCEPT !.state = NextState(est, est.table, timer.prev, p), !.prev_pattern = p,
                                             !.prev_dir = Dir(est.table, timer.prev, p)]
          /\ e(travelled).omega = IF NextState(est, est.table, timer.prev, p) = "Normal"
                                  THEN Dir(est.table, timer.prev, p) ELSE 0
      BY DEF GetEstimate, NextState, Base, Dir
    <3> QED BY <2>2, <3>1 DEF Heading
  <2>4. InSector(e(travelled).theta)
    BY <2>2, EstimateInSector DEF InSector, HallTyped
  <2>5. state \in Modes /\ Heading \in Directions
    BY <1>3, <2>2, SpeedIsProven, DirectionTells DEF Heading, Directions
  <2>6. Proven(e(travelled).omega, Seen)
    BY <1>3, <2>3, SpeedIsProven DEF Proven
  <2> DEFINE omega == e(travelled).omega
             right == InSector(e(travelled).theta) /\ Proven(e(travelled).omega, Seen)
  <2>7. omega \in Reports
    BY <2>3, <2>5, ThresholdOrder DEF Directions, Reports
  <2>8. right = TRUE
    BY <2>4, <2>6
  <2> HIDE DEF omega, right
  <2>9. Parked(Ok(omega, right), FALSE) /\ Ok(omega, right) \in Results
    BY <2>1, <2>7, <2>8, OkParts DEF omega, right
  <2>10. HallRight'
    <3>1. arb'.hall = Ok(omega, right) /\ arb'.sensorless = None
      BY <2>9, ParkedDrive DEF DriveTyped
    <3>2. arb'.hall.right
      BY <2>8, <3>1, OkParts
    <3> QED BY <3>1, <3>2, ResultKinds DEF HallRight
  <2> HIDE DEF state
  <2>11. /\ est' = [est EXCEPT !.state = state, !.prev_pattern = p, !.prev_dir = Heading]
         /\ truth' = Seen
    BY <2>1, <2>3
  <2>12. /\ est' \in [table : {NotCalibrated, rotor.table}, state : Modes,
                      prev_pattern : Patterns \cup {0}, prev_dir : Directions]
         /\ est'.state = state /\ est'.prev_pattern = p /\ est'.prev_dir = Heading
    BY <2>2, <2>5, <2>11 DEF HallTyped
  <2>13. /\ truth' \in [dir : Directions, run : 0 .. 2, gap : 0 .. 2, doubt : BOOLEAN]
         /\ truth'.gap = 0 /\ truth'.run = truth.run /\ truth'.dir = truth.dir
    <3> DEFINE doubt == IF truth.gap = 2 THEN TRUE ELSE IF truth.gap = 1 THEN FALSE ELSE truth.doubt
    <3>1. doubt \in BOOLEAN
      BY DEF HallTyped
    <3>2. truth' = [truth EXCEPT !.gap = 0, !.doubt = doubt]
      BY <2>11 DEF Seen
    <3> HIDE DEF doubt
    <3>3. truth' = [dir |-> truth.dir, run |-> truth.run, gap |-> 0, doubt |-> doubt]
      BY <3>2 DEF HallTyped
    <3> QED BY <3>1, <3>3 DEF HallTyped
  <2>14. HallTyped'
    BY <1>1, <2>12, <2>13 DEF HallTyped
  <2>15. ~truth'.doubt /\ state = "Normal" /\ Heading # 0 => truth'.run = 2
    BY <1>3, <2>11, SpeedIsProven DEF state
  <2>16. Remembers'
    BY <1>1, <2>2, <2>12, <2>13, <2>15 DEF Remembers, Patterns
  <2>17. DriveTyped'
    BY <1>0, <2>9
  <2> QED BY <2>10, <2>14, <2>16, <2>17
<1> QED BY <1>2, <1>3

-----------------------------------------------------------------------------
(***************************************************************************)
(* The second bench                                                        *)
(***************************************************************************)
\* An injection that always shows the rotor.
Sees == setup.parameters /\ setup.signal = "always"
Tracking(s) == s.test.state \in {"Settling", "Testing", "Done"}

\* The speed that weights the next blend is where that of the rotor is.
FollowsAt(v, b) ==
  /\ Size(v) >= HighSpeed => Size(b) >= HighSpeed
  /\ Size(v) < LowSpeed => Size(b) <= LowSpeed
Follows == FollowsAt(speed, arb.blend_omega)

\* Of any drive.
Sourced ==
  /\ IsOk(arb.hall) => arb.hall.right /\ arb.hall.omega = speed
  /\ control = "torque" => sal.test.state = "Done"
  /\ ~setup.parameters => ~IsOk(arb.sensorless)
  /\ setup.signal # "always" /\ control = "torque" /\ IsOk(arb.sensorless) => arb.sensorless.right

\* Before the loop has seen the rotor: parked, or for the one tick that starts the injection.
Unlocked ==
  Sees /\ sal.test.state = "Init" =>
    /\ ~injecting => /\ arb.sensorless = None /\ ~IsOk(arb.hall) /\ sal.omega = 0
                     /\ arb.blend_omega = HighSpeed \/ (arb.blend_omega = 0 /\ speed = 0)
    /\ injecting =>
         /\ Follows
         /\ IsOk(arb.sensorless) /\ Size(arb.sensorless.omega) >= HighSpeed
              => arb.sensorless.right /\ arb.sensorless.omega = speed

\* From then on: the speeds are right, and the angle once the polarity is known.
Locked ==
  Sees /\ Tracking(sal) =>
    /\ IsOk(arb.sensorless) =>
         /\ arb.sensorless.omega = speed
         /\ sal.test.state = "Done" \/ Size(speed) > HighSpeed => arb.sensorless.right
    /\ injecting /\ IsOk(Read(arb)) => Follows
    /\ ~injecting /\ Size(speed) <= LowSpeed => Size(arb.blend_omega) <= LowSpeed
    /\ sal.test.state = "Done" /\ injecting /\ IsOk(Read(arb)) => sal.right
    /\ Verdict(sal.test) = "open" /\ ~sal.fault => IsOk(arb.sensorless)
    /\ sal.test.state = "Testing" /\ injecting => /\ sal.test.sum > 0 => sal.right
                                                  /\ sal.test.sum < 0 => ~sal.right

LEMMA SizeParts ==
  ASSUME NEW x \in Int
  PROVE  Size(x) \in Nat /\ (Size(x) = x \/ Size(x) = -x) /\ x <= Size(x) /\ -x <= Size(x)
BY DEF Size

LEMMA NearSizes ==
  ASSUME NEW x \in Int, NEW y \in Int, x - 1 <= y, y <= x + 1
  PROVE  Size(x) \in Nat /\ Size(y) \in Nat /\ Size(x) <= Size(y) + 1 /\ Size(y) <= Size(x) + 1
BY DEF Size

LEMMA ClampedFollows ==
  ASSUME NEW v \in Int
  PROVE  FollowsAt(v, Clamped(v)) /\ FollowsAt(v, v) /\ Size(v) \in Nat /\ Size(Clamped(v)) <= Size(v)
<1>1. CASE v > HighSpeed
  BY <1>1, ThresholdOrder DEF FollowsAt, Clamped, Size
<1>2. CASE v < -HighSpeed
  BY <1>2, ThresholdOrder DEF FollowsAt, Clamped, Size
<1>3. CASE -HighSpeed <= v /\ v <= HighSpeed
  BY <1>3, ThresholdOrder DEF FollowsAt, Clamped, Size
<1> QED BY <1>1, <1>2, <1>3, ThresholdOrder

\* The loop sees the rotor: its speed is the rotor's, whatever the flux estimator drifts to.
LEMMA TrackedBlend ==
  ASSUME NEW a \in ArbType, NEW v0 \in Int, NEW v \in Speeds, v0 - 1 <= v, v <= v0 + 1, setup.parameters,
         FollowsAt(v0, a.blend_omega), NEW low \in Results, IsOk(low), low.omega = Clamped(v),
         NEW flux \in FluxReadings(v), NEW blend, blend \in Blends(a, low, flux)
  PROVE  /\ IsOk(blend) /\ blend.omega = v
         /\ Size(v) > HighSpeed => blend.right
         /\ low.right => blend.right
<1> DEFINE b == a.blend_omega
<1>1. b \in Int /\ v \in Int
  BY SpeedRange, ThresholdOrder DEF ArbType, Reports
<1>2. /\ flux \in Results
      /\ Size(v) >= LeastObserved => IsOk(flux) /\ flux.omega = v /\ flux.right
      /\ IsOk(flux) /\ Size(v) < LeastObserved => -LowSpeed <= flux.omega /\ flux.omega <= LowSpeed
  BY ReadingsTyped
<1>3. IsOk(flux) => flux.omega \in Int
  BY <1>2, ResultKinds, ThresholdOrder DEF Reports
<1>4. FollowsAt(v0, b)
  OBVIOUS
<1>5. LeastObserved = LowSpeed - 1
  BY DEF LeastObserved
<1> HIDE DEF b
<1>6. Size(v) > HighSpeed => Weight(b) = 0
  BY <1>1, <1>4, WeightRange, ThresholdOrder DEF FollowsAt, Size
<1>7. Size(v) < LeastObserved => Weight(b) = BlendWidth
  BY <1>1, <1>4, <1>5, WeightRange, ThresholdOrder DEF FollowsAt, Size
<1>8. Size(v) <= HighSpeed => Clamped(v) = v
  BY <1>1, ClampedRange, ThresholdOrder DEF Size
<1>9. CASE IsOk(flux)
  <2>1. blend \in BlendBoth(b, low, flux)
    BY <1>9, BlendKinds DEF b
  <2>2. /\ IsOk(blend) /\ blend.omega \in Int
        /\ blend.right <=> (Weight(b) # 0 => low.right) /\ (Weight(b) # BlendWidth => flux.right)
        /\ \A lo, hi \in Int :
             /\ Weight(b) # 0 => lo <= low.omega /\ low.omega <= hi
             /\ Weight(b) # BlendWidth => lo <= flux.omega /\ flux.omega <= hi
             => lo <= blend.omega /\ blend.omega <= hi
    BY <1>1, <1>2, <1>9, <2>1, BlendOfBoth
  <2>3. Size(v) \in Int /\ LeastObserved \in Int /\ HighSpeed \in Int /\ LeastObserved < HighSpeed /\ BlendWidth # 0
    BY <1>1, <1>5, SizeParts, ThresholdOrder
  <2>4. Weight(b) # 0 => low.omega = v
    BY <1>6, <1>8, <2>3
  <2>5. Weight(b) # BlendWidth => flux.omega = v /\ flux.right
    BY <1>2, <1>7, <2>3
  <2>6. blend.omega = v
    <3>1. v <= blend.omega /\ blend.omega <= v
      BY <1>1, <2>2, <2>4, <2>5
    <3> QED BY <1>1, <2>2, <3>1
  <2>7. Size(v) > HighSpeed => blend.right
    BY <1>6, <2>2, <2>3, <2>5
  <2>8. low.right => blend.right
    BY <2>2, <2>5
  <2> QED BY <2>2, <2>6, <2>7, <2>8
<1>10. CASE ~IsOk(flux)
  <2>1. blend = LoneLow(low)
    BY <1>10, BlendKinds
  <2>2. ~(Size(v) >= LeastObserved)
    BY <1>2, <1>10
  <2>3. Size(v) < HighSpeed
    BY <1>1, <1>5, <2>2, SizeParts, ThresholdOrder
  <2>4. low.omega = v
    BY <1>1, <1>8, <2>3, SizeParts, ThresholdOrder
  <2> QED BY <1>1, <2>1, <2>3, <2>4, SizeParts, ThresholdOrder DEF LoneLow
<1> QED BY <1>9, <1>10

\* The flux estimator alone: in its range it is right, and out of it only at low speeds.
LEMMA LoneBlend ==
  ASSUME NEW a \in ArbType, NEW v \in Speeds, setup.parameters, NEW low \in Results, ~IsOk(low),
         NEW flux \in FluxReadings(v), NEW blend, blend \in Blends(a, low, flux)
  PROVE  /\ IsOk(blend) => blend.omega = v /\ blend.right
         /\ ~IsOk(blend) => Size(v) <= LowSpeed
<1>1. v \in Int /\ Size(v) \in Int /\ LeastObserved = LowSpeed - 1
  BY SpeedRange, SizeParts DEF LeastObserved
<1>2. /\ flux \in Results
      /\ Size(v) >= LeastObserved => IsOk(flux) /\ flux.omega = v /\ flux.right
      /\ IsOk(flux) /\ Size(v) < LeastObserved => -LowSpeed <= flux.omega /\ flux.omega <= LowSpeed
  BY ReadingsTyped
<1>3. CASE IsOk(flux)
  <2>1. blend = LoneHigh(flux) /\ flux.omega \in Int
    BY <1>2, <1>3, BlendKinds, ResultKinds, ThresholdOrder DEF Reports
  <2>2. CASE Size(flux.omega) > LowSpeed
    <3>1. ~(Size(v) < LeastObserved)
      BY <1>2, <1>3, <2>1, <2>2, ThresholdOrder DEF Size
    <3> QED BY <1>1, <1>2, <1>3, <2>1, <2>2, <3>1, ThresholdOrder DEF LoneHigh
  <2>3. CASE ~(Size(flux.omega) > LowSpeed)
    <3>1. ~IsOk(blend)
      BY <2>1, <2>3, ResultKinds DEF LoneHigh
    <3>2. Size(v) <= LowSpeed
      BY <1>1, <1>2, <2>1, <2>3, SizeParts, ThresholdOrder
    <3> QED BY <3>1, <3>2
  <2> QED BY <2>2, <2>3
<1>4. CASE ~IsOk(flux)
  <2>1. blend = None
    BY <1>4, BlendKinds
  <2> QED BY <1>1, <1>2, <1>4, <2>1, ResultKinds, ThresholdOrder
<1> QED BY <1>3, <1>4


-----------------------------------------------------------------------------
\* How far one tick takes the test.

LEMMA SlavedMoves ==
  ASSUME NEW s, SalOk(s)
  PROVE  /\ s.test.state \in {"Done", "Fault"} => SlavedTest(s) = s.test
         /\ s.test.state \in {"Init", "Settling", "Testing"} => SlavedTest(s).state \in {s.test.state, "Fault"}
         /\ s.test.state = "Testing" /\ SlavedTest(s).state = "Testing" => SlavedTest(s).sum = 0
<1> DEFINE test == s.test
           elapsed == test.elapsed + 1
<1>1. TestOk(test) /\ LockDwell \in Nat \ {0} /\ TestTicks \in Nat \ {0} /\ TestTimeout \in Nat
  BY SaliencyAssumption DEF SalOk
<1>2. test \in Tests /\ test.state \in {"Init", "Settling", "Testing", "Done", "Fault"}
  BY <1>1, TestParts DEF TestOk
<1>3. CASE test.state \in {"Done", "Fault"}
  BY <1>3 DEF SlavedTest, Verdict
<1>4. CASE test.state \in {"Init", "Settling", "Testing"}
  <2>1. SlavedTest(s) = StepTest(test, FALSE, FALSE, 0)
    BY <1>4 DEF SlavedTest, Verdict
  <2>2. elapsed \in 0 .. TestTimeout + 3
    BY <1>1, <1>2, <1>4, TestParts DEF TestOk
  <2>3. StepTest(test, FALSE, FALSE, 0) = Wait(test, elapsed, test.state, 0, 0)
    BY <1>1, <1>4 DEF StepTest, Elapsed
  <2> DEFINE state == test.state
  <2> HIDE DEF test, elapsed, state
  <2>4. SlavedTest(s) = IF elapsed > TestTimeout THEN [state |-> "Fault", ticks |-> 0, sum |-> 0, elapsed |-> elapsed]
                        ELSE [state |-> state, ticks |-> 0, sum |-> 0, elapsed |-> elapsed]
    <3>1. SlavedTest(s) = Wait(test, elapsed, state, 0, 0)
      BY <2>1, <2>3 DEF state
    <3> QED BY <1>2, <2>2, <3>1, WaitOk
  <2>5. SlavedTest(s).state \in {test.state, "Fault"} /\ SlavedTest(s).sum = 0
    BY <2>4 DEF state
  <2> QED BY <1>4, <2>5 DEF test
<1> QED BY <1>2, <1>3, <1>4

LEMMA ObservedMoves ==
  ASSUME NEW s, SalOk(s), NEW locked \in BOOLEAN, NEW pull \in {-1, 0, 1}
  PROVE  LET next == ObservedTest(s, locked, pull)
         IN  /\ s.test.state \in {"Done", "Fault"} => next = s.test
             /\ s.test.state = "Init" => next.state = "Settling"
             /\ s.test.state = "Settling" => /\ next.state \in {"Settling", "Testing", "Fault"}
                                             /\ next.state = "Testing" => next.sum = 0
             /\ s.test.state = "Testing" =>
                  /\ next.state \in {"Testing", "Done", "Fault"}
                  /\ next.state = "Testing" => /\ next.sum = s.test.sum + pull
                                               /\ ~TurnsOver(s.test, TRUE, pull)
                  /\ next.state = "Done" => /\ s.test.sum + pull # 0
                                            /\ TurnsOver(s.test, TRUE, pull) <=> s.test.sum + pull < 0
<1> DEFINE test == s.test
           elapsed == test.elapsed + 1
           next == ObservedTest(s, locked, pull)
           dwelt == IF locked THEN test.ticks + 1 ELSE 0
           ticks == test.ticks + 1
           sum == test.sum + pull
           Begin(state) == [state |-> state, ticks |-> 0, sum |-> 0, elapsed |-> elapsed]
<1>1. TestOk(test) /\ LockDwell \in Nat \ {0} /\ TestTicks \in Nat \ {0} /\ TestTimeout \in Nat
  BY SaliencyAssumption DEF SalOk
<1>2. test \in Tests /\ test.state \in {"Init", "Settling", "Testing", "Done", "Fault"}
      /\ test.ticks \in Int /\ test.sum \in Int
  BY <1>1, TestParts DEF TestOk
<1>3. CASE test.state \in {"Done", "Fault"}
  BY <1>3 DEF ObservedTest, Verdict
<1>4. CASE test.state \in {"Init", "Settling", "Testing"}
  <2>1. next = StepTest(test, TRUE, locked, pull)
    BY <1>4 DEF ObservedTest, Verdict
  <2>2. elapsed \in 0 .. TestTimeout + 3
    BY <1>1, <1>2, <1>4, TestParts DEF TestOk
  <2>3. CASE test.state = "Init"
    <3>1. next = Begin("Settling")
      BY <2>1, <2>3 DEF StepTest, Elapsed
    <3> QED BY <2>3, <3>1
  <2>4. CASE test.state = "Settling"
    <3>1. next = IF dwelt >= LockDwell THEN Begin("Testing") ELSE Wait(test, elapsed, "Settling", dwelt, 0)
      BY <2>1, <2>4 DEF StepTest, Elapsed
    <3> QED BY <1>2, <2>2, <2>4, <3>1, WaitOk
  <2>5. CASE test.state = "Testing"
    <3>1. next = IF ticks >= TestTicks THEN Begin(IF sum = 0 THEN "Fault" ELSE "Done")
                 ELSE Wait(test, elapsed, "Testing", ticks, sum)
      BY <2>1, <2>5 DEF StepTest, Elapsed
    <3>2. TurnsOver(test, TRUE, pull) <=> ticks >= TestTicks /\ sum < 0
      BY <2>5 DEF TurnsOver
    <3> DEFINE turns == TurnsOver(test, TRUE, pull)
    <3>3. sum \in Int
      BY <1>2
    <3> HIDE DEF next, sum, elapsed, ticks, turns
    <3>4. CASE ticks >= TestTicks
      <4>1. next.state = IF sum = 0 THEN "Fault" ELSE "Done"
        BY <3>1, <3>4
      <4>2. turns <=> sum < 0
        BY <3>2, <3>4 DEF turns
      <4> QED BY <2>5, <3>3, <4>1, <4>2 DEF next, sum, turns
    <3>5. CASE ~(ticks >= TestTicks)
      <4>1. \/ next.state = "Fault"
            \/ next.state = "Testing" /\ next.sum = sum
        BY <1>2, <2>2, <3>1, <3>5, WaitOk
      <4>2. ~turns
        BY <3>2, <3>5 DEF turns
      <4> QED BY <2>5, <4>1, <4>2 DEF next, sum, turns
    <3> QED BY <3>4, <3>5
  <2> QED BY <1>4, <2>3, <2>4, <2>5
<1> QED BY <1>2, <1>3, <1>4

LEMMA TestedMoves ==
  ASSUME NEW s, SalOk(s), s.test.state = "Testing", NEW locked \in BOOLEAN, NEW pull \in {-1, 0, 1}
  PROVE  LET next == ObservedTest(s, locked, pull)
         IN  /\ next.state = "Testing" => /\ next.sum = s.test.sum + pull
                                          /\ ~TurnsOver(s.test, TRUE, pull)
             /\ next.state = "Done" => /\ s.test.sum + pull # 0
                                       /\ TurnsOver(s.test, TRUE, pull) <=> s.test.sum + pull < 0
BY ObservedMoves

\* The iron pulls towards the right pole, so the sum of the pulls tells which one the loop is at.
LEMMA PullsAgree ==
  ASSUME NEW s, SalOk(s), s.test.state = "Testing", NEW v \in Int, Size(v) <= TopTracked,
         NEW locked \in BOOLEAN, NEW pull \in {-1, 0, 1},
         pull # 0 => pull = IF s.right THEN 1 ELSE -1,
         s.test.sum > 0 => s.right, s.test.sum < 0 => ~s.right
  PROVE  LET next == ObservedTest(s, locked, pull)
         IN  /\ next.state = "Done" => ObservedRight(s, v, pull)
             /\ next.state = "Testing" => /\ next.sum > 0 => ObservedRight(s, v, pull)
                                          /\ next.sum < 0 => ~ObservedRight(s, v, pull)
<1> DEFINE next == ObservedTest(s, locked, pull)
           sum == s.test.sum + pull
           turns == TurnsOver(s.test, TRUE, pull)
           right == ObservedRight(s, v, pull)
<1>1. s.test.sum \in Int /\ s.right \in BOOLEAN
  BY TestParts, SaliencyAssumption DEF SalOk
<1>2. Verdict(s.test) = "open"
  BY DEF Verdict
<1>3. sum \in Int /\ (sum > 0 => s.right) /\ (sum < 0 => ~s.right)
  BY <1>1
<1>4. right <=> IF turns THEN ~s.right ELSE s.right
  BY <1>2 DEF ObservedRight
<1>5. /\ next.state = "Testing" => next.sum = sum /\ ~turns
      /\ next.state = "Done" => sum # 0 /\ (turns <=> sum < 0)
  BY TestedMoves
<1> HIDE DEF next, sum, turns, right
<1>6. next.state = "Done" => right
  BY <1>3, <1>4, <1>5
<1>7. next.state = "Testing" => (next.sum > 0 => right) /\ (next.sum < 0 => ~right)
  BY <1>3, <1>4, <1>5
<1> QED BY <1>6, <1>7 DEF next, right

-----------------------------------------------------------------------------
\* A tick while the drive conducts, from a state of the invariant.
Drives(s, hall, flux, locked, pull) ==
  /\ DriveTyped /\ Sourced /\ Unlocked /\ Locked
  /\ speed' \in Speeds /\ speed - 1 <= speed' /\ speed' <= speed + 1 /\ setup' = setup
  /\ s = PolaritySettled(Read(arb))
  /\ hall \in HallReadings(speed') /\ flux \in FluxReadings(speed')
  /\ locked \in BOOLEAN /\ pull \in {-1, 0, 1}
  /\ s.sal.test.state = "Testing" /\ pull # 0 => pull = IF s.sal.right THEN 1 ELSE -1
  /\ Conducting(s, hall, flux, locked, pull)

LEMMA DrivesParts ==
  ASSUME NEW s, NEW hall, NEW flux, NEW locked, NEW pull, Drives(s, hall, flux, locked, pull)
  PROVE  /\ s.control \in Controls /\ SalOk(s.sal) /\ s.used \in Results /\ IsOk(s.used)
         /\ SalOk(sal') /\ arb \in ArbType /\ arb' \in ArbType /\ ReadSaliency(sal') \in Results
         /\ hall \in Results /\ flux \in Results
         /\ speed \in Int /\ speed' \in Int /\ speed' \in Speeds /\ arb.blend_omega \in Int
         /\ arb'.hall = hall /\ arb'.sensorless \in Results
         /\ arb'.sensorless \in Blends(arb, ReadSaliency(sal'), flux)
         /\ arb'.blend_omega = IF IsOk(arb'.sensorless) THEN Clamped(arb'.sensorless.omega)
                               ELSE IF arb'.sensorless = None THEN IF IsOk(hall) THEN hall.omega ELSE HighSpeed
                               ELSE arb.blend_omega
<1> DEFINE v == speed'
           low == ReadSaliency(sal')
<1>1. DriveTyped /\ v \in Speeds /\ hall \in HallReadings(v) /\ flux \in FluxReadings(v)
  BY DEF Drives
<1>2. hall \in Results /\ flux \in Results
  BY <1>1, ReadingsTyped
<1>3. speed \in Int /\ v \in Int
  BY <1>1, SpeedRange DEF DriveTyped
<1>4. /\ s.control \in Controls /\ SalOk(s.sal) /\ s.used \in Results /\ IsOk(s.used)
      /\ SalOk(sal') /\ arb' \in ArbType /\ low \in Results
  BY <1>1, <1>2, ConductingOk DEF Drives
<1>5. arb \in ArbType /\ arb' \in UpdateSensorless(UpdateHall(arb, hall, timer.pattern), low, flux)
  BY <1>1 DEF Drives, DriveTyped, Conducting
<1> HIDE DEF low
<1>6. /\ arb'.hall = hall /\ arb'.sensorless \in Blends(arb, low, flux)
      /\ arb'.blend_omega = IF IsOk(arb'.sensorless) THEN Clamped(arb'.sensorless.omega)
                            ELSE IF arb'.sensorless = None THEN IF IsOk(hall) THEN hall.omega ELSE HighSpeed
                            ELSE arb.blend_omega
  BY <1>5, Arbitrated
<1>7. arb'.sensorless \in Results /\ arb.blend_omega \in Int
  BY <1>4, <1>5, ThresholdOrder DEF ArbType, Reports
<1> QED BY <1>1, <1>2, <1>3, <1>4, <1>5, <1>6, <1>7 DEF low

\* What the drive goes by is right where it has to be.
LEMMA ReadIsRight ==
  ASSUME DriveTyped, Sourced, Unlocked, Locked, Sees, NEW r, r = Read(arb), IsOk(r)
  PROVE  /\ r \in Results /\ r.omega \in Int
         /\ sal.test.state = "Init" => injecting /\ (TooFast(r) => r.omega = speed /\ r.right)
         /\ Tracking(sal) => r.omega = speed /\ (sal.test.state = "Done" \/ TooFast(r) => r.right)
<1>1. \/ r = arb.hall /\ IsOk(arb.hall)
      \/ r = arb.sensorless /\ IsOk(arb.sensorless)
  BY ReadKinds DEF DriveTyped
<1>2. r \in Results /\ r.omega \in Int
  BY ReadKinds, ResultKinds, ThresholdOrder DEF DriveTyped, Reports
<1>3. r = arb.hall /\ IsOk(arb.hall) => r.omega = speed /\ r.right
  BY DEF Sourced
<1>4. TooFast(r) => Size(r.omega) > HighSpeed /\ Size(r.omega) >= HighSpeed
  BY <1>2, SizeParts, ThresholdOrder DEF TooFast
<1>5. CASE sal.test.state = "Init"
  <2>1. injecting
    BY <1>1, <1>5, ResultKinds DEF Unlocked
  <2>2. r = arb.sensorless /\ TooFast(r) => r.omega = speed /\ r.right
    BY <1>1, <1>4, <1>5, <2>1 DEF Unlocked
  <2> QED BY <1>1, <1>2, <1>3, <1>5, <2>1, <2>2 DEF Tracking
<1>6. CASE Tracking(sal)
  <2>1. IsOk(arb.sensorless) => arb.sensorless.omega = speed
                                /\ (sal.test.state = "Done" \/ Size(speed) > HighSpeed => arb.sensorless.right)
    BY <1>6 DEF Locked
  <2> QED BY <1>1, <1>2, <1>3, <1>4, <1>6, <2>1 DEF Tracking
<1> QED BY <1>2, <1>5, <1>6

\* What the tick starts from, once foc_step has settled the test.
LEMMA SettledRight ==
  ASSUME Sees, NEW s, NEW hall, NEW flux, NEW locked, NEW pull, Drives(s, hall, flux, locked, pull)
  PROVE  /\ s.sal.test.state = "Fault" \/ sal.test.state # "Fault"
         /\ s.sal.test.state = "Init" => /\ s.sal = sal
                                         /\ ~injecting => control' = "testing" /\ s.used = ReadSaliency(sal)
         /\ Tracking(s.sal) /\ ~Tracking(sal) => injecting /\ s.sal.test.state = "Done"
         /\ s.sal.test.state \in {"Settling", "Testing"} => s.sal = sal
         /\ s.sal.test.state = "Done" =>
              /\ s.used = Read(arb) /\ IsOk(Read(arb)) /\ control' # "testing"
              /\ s.used.right /\ s.used.omega = speed
              /\ s.sal = sal \/ (TooFast(s.used) /\ s.sal.right)
         /\ Tracking(s.sal) /\ control' # "testing" => s.used = Read(arb) /\ s.used.omega = speed
         /\ Tracking(s.sal) /\ control' = "testing" => /\ s.sal = sal /\ s.used = ReadSaliency(sal)
                                                       /\ Verdict(sal.test) = "open" /\ ~TooFast(Read(arb))
<1> DEFINE r == Read(arb)
<1>1. DriveTyped /\ Sourced /\ Unlocked /\ Locked /\ s = PolaritySettled(r)
      /\ IsOk(s.used) /\ control' = s.control /\ SalOk(sal) /\ control \in Controls
  BY DEF Drives, Conducting, DriveTyped
<1>2. r \in Results
  BY <1>1, ReadKinds DEF DriveTyped
<1>3. IsOk(r) => /\ r.omega \in Int
                 /\ sal.test.state = "Init" => injecting /\ (TooFast(r) => r.omega = speed /\ r.right)
                 /\ Tracking(sal) => r.omega = speed /\ (sal.test.state = "Done" \/ TooFast(r) => r.right)
  BY <1>1, ReadIsRight
<1>4. sal.test.state \in {"Init", "Settling", "Testing", "Done", "Fault"}
      /\ (Verdict(sal.test) = "open" <=> sal.test.state \in {"Init", "Settling", "Testing"})
  BY <1>1, TestParts DEF SalOk
<1> DEFINE reset == ResetSaliency(r, FALSE)
<1>5. IsOk(r) => reset.test.state = "Done" /\ reset.right = r.right
  BY <1>2, SeededSaliency
<1>6. control = "torque" => sal.test.state = "Done"
  BY <1>1 DEF Sourced
<1>7. \/ control # "testing" /\ s = [control |-> control, sal |-> sal, used |-> r]
      \/ /\ control = "testing" /\ Verdict(sal.test) = "open" /\ TooFast(r)
         /\ s = [control |-> "torque", sal |-> reset, used |-> r]
      \/ /\ control = "testing" /\ Verdict(sal.test) = "open" /\ ~TooFast(r)
         /\ s = [control |-> "testing", sal |-> sal, used |-> ReadSaliency(sal)]
      \/ /\ control = "testing" /\ sal.test.state = "Done"
         /\ s = [control |-> "torque", sal |-> sal, used |-> r]
      \/ /\ control = "testing" /\ sal.test.state = "Fault"
         /\ s = [control |-> "safety", sal |-> sal, used |-> r]
  BY <1>1, <1>2, Settles
<1> HIDE DEF r, reset
<1>8. CASE control # "testing" /\ s = [control |-> control, sal |-> sal, used |-> r]
  BY <1>1, <1>3, <1>4, <1>8 DEF Tracking, r
<1>9. CASE /\ control = "testing" /\ Verdict(sal.test) = "open" /\ TooFast(r)
           /\ s = [control |-> "torque", sal |-> reset, used |-> r]
  <2>1. IsOk(r)
    BY <1>9 DEF TooFast
  <2>2. r.omega = speed /\ r.right /\ (sal.test.state = "Init" => injecting)
    BY <1>3, <1>4, <1>9, <2>1 DEF Tracking
  <2>3. s.sal = reset /\ s.used = r /\ control' = "torque" /\ s.sal.test.state = "Done" /\ s.sal.right
    <3>1. s.sal = reset /\ s.used = r /\ s.control = "torque"
      BY <1>9
    <3>2. reset.right
      BY <1>5, <2>1, <2>2
    <3>3. s.sal.right
      BY <3>1, <3>2
    <3> QED BY <1>1, <1>5, <2>1, <3>1, <3>3
  <2>4. ~Tracking(sal) => injecting
    BY <1>4, <1>9, <2>2 DEF Tracking
  <2> HIDE <1>7
  <2> QED BY <1>4, <1>9, <2>1, <2>2, <2>3, <2>4 DEF Tracking, r
<1>10. CASE /\ control = "testing" /\ Verdict(sal.test) = "open" /\ ~TooFast(r)
            /\ s = [control |-> "testing", sal |-> sal, used |-> ReadSaliency(sal)]
  BY <1>1, <1>3, <1>4, <1>10 DEF Tracking, r
<1>11. CASE /\ control = "testing" /\ sal.test.state = "Done"
            /\ s = [control |-> "torque", sal |-> sal, used |-> r]
  BY <1>1, <1>3, <1>4, <1>11 DEF Tracking, r
<1>12. CASE /\ control = "testing" /\ sal.test.state = "Fault"
            /\ s = [control |-> "safety", sal |-> sal, used |-> r]
  BY <1>1, <1>4, <1>12 DEF Tracking, r
<1> QED BY <1>7, <1>8, <1>9, <1>10, <1>11, <1>12

\* A finished test stays finished.
LEMMA FinishedTest ==
  ASSUME NEW s, SalOk(s), s.test.state \in {"Done", "Fault"}, NEW c, NEW used, NEW v,
         NEW locked \in BOOLEAN, NEW pull \in {-1, 0, 1}
  PROVE  /\ Estimated(s, c, used, v, locked, pull).test = s.test
         /\ ~Observes(c) => Estimated(s, c, used, v, locked, pull).fault
<1>1. AbortTest(s.test) = s.test /\ SlavedTest(s) = s.test /\ ObservedTest(s, locked, pull) = s.test
  BY SlavedMoves, ObservedMoves DEF AbortTest, Verdict
<1> DEFINE x == Estimated(s, c, used, v, locked, pull)
<1>2. CASE ~setup.parameters
  <2>1. x = [fault |-> TRUE, omega |-> s.omega, right |-> s.right, test |-> AbortTest(s.test)]
    BY <1>2, UpdateWays
  <2> HIDE DEF x
  <2> QED BY <1>1, <2>1 DEF x
<1>3. CASE Observes(c)
  <2>1. x = [fault |-> FALSE, omega |-> Clamped(v), right |-> ObservedRight(s, v, pull),
             test |-> ObservedTest(s, locked, pull)]
    BY <1>3, UpdateWays
  <2> HIDE DEF x
  <2> QED BY <1>1, <1>3, <2>1 DEF x
<1>4. CASE setup.parameters /\ ~Observes(c)
  <2> DEFINE fault == SlavedTest(s).state # "Init"
  <2>1. x = [fault |-> fault, omega |-> used.omega, right |-> used.right, test |-> SlavedTest(s)]
    BY <1>4, UpdateWays
  <2>2. fault = TRUE
    BY <1>1
  <2> HIDE DEF x, fault
  <2>3. x.test = s.test /\ x.fault
    BY <1>1, <2>1, <2>2
  <2> QED BY <2>3 DEF x
<1> QED BY <1>2, <1>3, <1>4

LEMMA SourcedNext ==
  ASSUME NEW s, NEW hall, NEW flux, NEW locked, NEW pull, Drives(s, hall, flux, locked, pull)
  PROVE  Sourced'
<1> DEFINE v == speed'
           low == ReadSaliency(sal')
           blend == arb'.sensorless
           x == s.sal
           used == s.used
<1>1. /\ s.control \in Controls /\ SalOk(x) /\ used \in Results /\ SalOk(sal') /\ low \in Results
      /\ hall \in Results /\ flux \in Results /\ v \in Speeds /\ arb \in ArbType /\ arb'.hall = hall
      /\ blend \in Blends(arb, low, flux)
  BY DrivesParts
<1>2. /\ setup' = setup /\ hall \in HallReadings(v) /\ flux \in FluxReadings(v) /\ locked \in BOOLEAN
      /\ pull \in {-1, 0, 1} /\ control' = s.control
      /\ sal' = Estimated(x, control', used, v, locked, pull)
      /\ SalOk(sal) /\ control \in Controls /\ Sourced /\ s = PolaritySettled(Read(arb))
  BY DEF Drives, Conducting, DriveTyped
<1>3. IsOk(hall) => hall.right /\ hall.omega = v
  BY <1>1, <1>2, ReadingsTyped
<1>4. control' = "torque" => x.test.state = "Done"
  <2>1. Read(arb) \in Results
    BY <1>1, ReadKinds
  <2> DEFINE r == Read(arb)
  <2>2. control = "torque" => sal.test.state = "Done"
    BY <1>2 DEF Sourced
  <2>3. TooFast(r) => ResetSaliency(r, FALSE).test.state = "Done"
    BY <2>1, SeededSaliency DEF TooFast
  <2>4. \/ control # "testing" /\ s = [control |-> control, sal |-> sal, used |-> r]
        \/ TooFast(r) /\ s = [control |-> "torque", sal |-> ResetSaliency(r, FALSE), used |-> r]
        \/ s = [control |-> "testing", sal |-> sal, used |-> ReadSaliency(sal)]
        \/ sal.test.state = "Done" /\ s = [control |-> "torque", sal |-> sal, used |-> r]
        \/ s = [control |-> "safety", sal |-> sal, used |-> r]
    BY <1>2, <2>1, Settles
  <2> DEFINE reset == ResetSaliency(r, FALSE)
             reading == ReadSaliency(sal)
  <2>5. ASSUME s.control = "torque" PROVE s.sal.test.state = "Done"
    <3> HIDE DEF r, x, reset, reading
    <3>1. CASE control # "testing" /\ s = [control |-> control, sal |-> sal, used |-> r]
      BY <2>2, <2>5, <3>1
    <3>2. CASE TooFast(r) /\ s = [control |-> "torque", sal |-> reset, used |-> r]
      BY <2>3, <2>5, <3>2 DEF reset
    <3>3. CASE sal.test.state = "Done" /\ s = [control |-> "torque", sal |-> sal, used |-> r]
      BY <3>3
    <3>4. ~(s = [control |-> "testing", sal |-> sal, used |-> reading])
          /\ ~(s = [control |-> "safety", sal |-> sal, used |-> r])
      BY <2>5
    <3> QED BY <2>4, <3>1, <3>2, <3>3, <3>4 DEF reset, reading
  <2> QED BY <1>2, <2>5 DEF x
<1> HIDE DEF x, used
<1>5. control' = "torque" => sal'.test.state = "Done" /\ (~Observes(control') => sal'.fault)
  BY <1>1, <1>2, <1>4, FinishedTest
<1>6. ~setup.parameters => ~IsOk(blend)
  <2>1. ASSUME ~setup.parameters PROVE ~IsOk(blend)
    <3> HIDE DEF v, low, blend
    <3>0. sal' = Estimated(x, control', used, v, locked, pull) /\ SalOk(x)
      BY <1>1, <1>2
    <3>1. sal' = [fault |-> TRUE, omega |-> x.omega, right |-> x.right, test |-> AbortTest(x.test)]
      BY <2>1, <3>0, UpdateWays
    <3> USE DEF v, low, blend
    <3>2. ~IsOk(low)
      BY <1>1, <3>1, SaliencyReading
    <3>3. ~IsOk(flux)
      BY <1>1, <1>2, <2>1, ReadingsTyped
    <3>4. blend = None
      BY <1>1, <3>2, <3>3, BlendKinds
    <3> QED BY <3>4, ResultKinds
  <2> QED BY <2>1
<1>7. setup.signal # "always" /\ control' = "torque" /\ IsOk(blend) => blend.right
  <2>1. ASSUME setup.signal # "always", control' = "torque", IsOk(blend) PROVE blend.right
    <3>1. setup.parameters
      BY <1>6, <2>1
    <3>2. ~Observes(control')
      BY <2>1 DEF Observes, Normal
    <3>3. ~IsOk(low)
      BY <1>1, <1>5, <2>1, <3>2, SaliencyReading
    <3> HIDE DEF blend, low
    <3> QED BY <1>1, <1>2, <2>1, <3>1, <3>3, LoneBlend
  <2> QED BY <2>1
<1> QED BY <1>1, <1>2, <1>3, <1>5, <1>6, <1>7 DEF Sourced

\* With the injection seen, this tick's speed is the rotor's, and the test comes to the right pole.
LEMMA ObservedLocks ==
  ASSUME Sees, injecting, NEW s, NEW hall, NEW flux, NEW locked, NEW pull, Drives(s, hall, flux, locked, pull),
         s.sal.test.state # "Fault"
  PROVE  Unlocked' /\ Locked'
<1> DEFINE v == speed'
           low == ReadSaliency(sal')
           blend == arb'.sensorless
           b == arb'.blend_omega
           x == s.sal
           used == s.used
           test == ObservedTest(x, locked, pull)
           right == ObservedRight(x, v, pull)
<1>1. /\ s.control \in Controls /\ SalOk(x) /\ used \in Results /\ IsOk(used) /\ SalOk(sal') /\ low \in Results
      /\ hall \in Results /\ flux \in Results /\ v \in Speeds /\ v \in Int /\ speed \in Int
      /\ arb \in ArbType /\ blend \in Blends(arb, low, flux)
      /\ b = IF IsOk(blend) THEN Clamped(blend.omega)
             ELSE IF blend = None THEN IF IsOk(hall) THEN hall.omega ELSE HighSpeed ELSE arb.blend_omega
  BY DrivesParts
<1>2. /\ speed - 1 <= v /\ v <= speed + 1 /\ setup' = setup /\ flux \in FluxReadings(v)
      /\ locked \in BOOLEAN /\ pull \in {-1, 0, 1} /\ control' = s.control /\ control' # "off"
      /\ sal' = Estimated(x, control', used, v, locked, pull) /\ injecting' = Injects(control', used)
      /\ x.test.state = "Testing" /\ pull # 0 => pull = IF x.right THEN 1 ELSE -1
      /\ DriveTyped /\ Sourced /\ Unlocked /\ Locked
  BY DEF Drives, Conducting
<1>3. setup.parameters /\ Observes(control')
  BY DEF Sees, Observes, Normal
<1>4. sal' = [fault |-> FALSE, omega |-> Clamped(v), right |-> right, test |-> test]
  <2>1. sal' = Estimated(x, control', used, v, locked, pull) /\ SalOk(x)
    BY <1>1, <1>2
  <2> HIDE DEF x, used, v
  <2> QED BY <1>3, <2>1, UpdateWays DEF test, right
<1> HIDE DEF test, right
<1>5. sal'.test = test /\ (sal'.right <=> right) /\ ~sal'.fault /\ sal'.omega = Clamped(v)
  BY <1>4
<1>6. IsOk(low) /\ low.omega = Clamped(v) /\ (low.right <=> right)
  BY <1>1, <1>5, SaliencyReading
<1>7. /\ SalOk(sal) /\ sal.test.state \in {"Init", "Settling", "Testing", "Done", "Fault"}
      /\ x.test.state \in {"Init", "Settling", "Testing", "Done"}
  BY <1>1, <1>2, TestParts DEF SalOk, DriveTyped
<1>8. /\ sal.test.state # "Fault"
      /\ x.test.state \in {"Settling", "Testing"} => x = sal
      /\ x.test.state = "Done" => IsOk(Read(arb)) /\ (x = sal \/ x.right)
      /\ Tracking(x) /\ control' # "testing" => used = Read(arb) /\ used.omega = speed
      /\ Tracking(x) /\ control' = "testing" => /\ x = sal /\ used = ReadSaliency(sal)
                                                /\ Verdict(sal.test) = "open" /\ ~TooFast(Read(arb))
      /\ x.test.state = "Init" => x = sal
  BY SettledRight
<1>9. Tracking(x) => IsOk(Read(arb))
  <2>1. ASSUME Tracking(x), control' = "testing" PROVE IsOk(Read(arb))
    <3>1. IsOk(arb.sensorless)
      <4>1. ~sal.fault
        BY <1>1, <1>7, <1>8, <2>1, SaliencyReading
      <4> QED BY <1>2, <1>8, <2>1, <4>1 DEF Locked
    <3> QED BY <1>1, <3>1, ReadKinds
  <2> QED BY <1>1, <1>8, <2>1
<1>10. Tracking(sal) => Tracking(x) \/ x.test.state = "Init"
  BY <1>7 DEF Tracking
<1>11. Follows
  <2>1. CASE sal.test.state = "Init"
    BY <1>2, <2>1 DEF Unlocked
  <2>2. CASE Tracking(sal)
    <3>1. Tracking(x)
      BY <1>8, <1>10, <2>2 DEF Tracking
    <3> QED BY <1>2, <1>9, <2>2, <3>1 DEF Locked
  <2> QED BY <1>7, <1>8, <2>1, <2>2 DEF Tracking
<1>12. /\ IsOk(blend) /\ blend.omega = v
       /\ Size(v) > HighSpeed => blend.right
       /\ right => blend.right
  <2> HIDE DEF low, blend, v
  <2> QED BY <1>1, <1>2, <1>3, <1>6, <1>11, TrackedBlend DEF Follows
<1>13. b = Clamped(v)
  BY <1>1, <1>12
<1>14. Tracking(x) /\ injecting' => Size(v) <= TopTracked
  <2>1. ASSUME Tracking(x), control' = "testing" PROVE Size(v) <= TopTracked
    <3>1. Read(arb).omega = speed
      BY <1>2, <1>8, <1>9, <2>1, ReadIsRight
    <3>2. ~(Size(speed) > HighSpeed)
      BY <1>8, <1>9, <2>1, <3>1 DEF TooFast
    <3> QED BY <1>1, <1>2, <3>2, ThresholdOrder DEF Size, TopTracked
  <2>2. ASSUME Tracking(x), control' # "testing", injecting' PROVE Size(v) <= TopTracked
    <3>1. control' \in {"torque", "safety"}
      BY <1>1, <1>2, <2>2 DEF Controls
    <3>2. Size(used.omega) < HighSpeed
      BY <1>2, <2>2, <3>1 DEF Injects
    <3>3. Size(speed) < HighSpeed
      BY <1>8, <2>2, <3>2
    <3> QED BY <1>1, <1>2, <3>3, ThresholdOrder DEF Size, TopTracked
  <2> QED BY <2>1, <2>2
<1>15. /\ test.state # "Init"
       /\ test.state \in {"Testing", "Done"} => Tracking(x)
       /\ test.state = "Done" => x.test.state \in {"Testing", "Done"}
       /\ test.state = "Testing" => x.test.state \in {"Settling", "Testing"}
       /\ x.test.state = "Settling" /\ test.state = "Testing" => test.sum = 0
       /\ x.test.state = "Init" => test.state = "Settling"
  BY <1>1, <1>2, <1>7, ObservedMoves DEF Tracking, test
<1>16. x.test.state = "Testing" /\ Size(v) <= TopTracked =>
         /\ test.state = "Done" => right
         /\ test.state = "Testing" => (test.sum > 0 => right) /\ (test.sum < 0 => ~right)
  <2>1. ASSUME x.test.state = "Testing", Size(v) <= TopTracked
        PROVE  /\ test.state = "Done" => right
               /\ test.state = "Testing" => (test.sum > 0 => right) /\ (test.sum < 0 => ~right)
    <3>1. x = sal
      BY <1>8, <2>1
    <3>2. (x.test.sum > 0 => x.right) /\ (x.test.sum < 0 => ~x.right)
      BY <1>2, <2>1, <3>1 DEF Locked, Tracking
    <3>3. pull # 0 => pull = IF x.right THEN 1 ELSE -1
      BY <1>2, <2>1
    <3> HIDE DEF x, v
    <3> QED BY <1>1, <1>2, <2>1, <3>2, <3>3, PullsAgree DEF test, right
  <2> QED BY <2>1
<1>17. x.test.state = "Done" /\ Size(v) <= TopTracked => right
  <2>1. ASSUME x.test.state = "Done", Size(v) <= TopTracked PROVE right
    <3>1. x.right
      BY <1>2, <1>8, <2>1 DEF Locked, Tracking
    <3> QED BY <2>1, <3>1 DEF right, ObservedRight, Verdict
  <2> QED BY <2>1
<1>18. test.state = "Done" /\ Size(v) <= TopTracked => right
  BY <1>15, <1>16, <1>17
<1>19. v \in Int /\ Size(v) \in Nat /\ Size(Clamped(v)) <= Size(v) /\ FollowsAt(v, Clamped(v))
  BY <1>1, ClampedFollows
<1>20. Unlocked'
  BY <1>5, <1>15 DEF Unlocked
<1>21. Locked'
  <2>1. IsOk(blend) => blend.omega = v /\ (test.state = "Done" \/ Size(v) > HighSpeed => blend.right)
    BY <1>12, <1>18, <1>19, ThresholdOrder DEF TopTracked
  <2>2. FollowsAt(v, b)
    BY <1>13, <1>19
  <2>3. Size(v) <= LowSpeed => Size(b) <= LowSpeed
    <3>1. Size(b) \in Int
      BY <1>1, <1>13, ClampedRange, SizeParts
    <3> QED BY <1>13, <1>19, <3>1, ThresholdOrder
  <2>4. test.state = "Done" /\ injecting' => right
    BY <1>14, <1>15, <1>18
  <2>5. test.state = "Testing" /\ injecting' => (test.sum > 0 => right) /\ (test.sum < 0 => ~right)
    <3>1. ASSUME test.state = "Testing", injecting' PROVE (test.sum > 0 => right) /\ (test.sum < 0 => ~right)
      <4>1. CASE x.test.state = "Settling"
        BY <1>15, <3>1, <4>1
      <4>2. CASE x.test.state = "Testing"
        BY <1>14, <1>15, <1>16, <3>1, <4>2
      <4> QED BY <1>15, <3>1, <4>1, <4>2
    <3> QED BY <3>1
  <2> QED BY <1>5, <1>12, <2>1, <2>2, <2>3, <2>4, <2>5 DEF Locked, Follows
<1> QED BY <1>20, <1>21

\* The tick that starts the injection: the estimators are as they were parked.
LEMMA StartLocks ==
  ASSUME Sees, ~injecting, NEW s, NEW hall, NEW flux, NEW locked, NEW pull, Drives(s, hall, flux, locked, pull),
         s.sal.test.state = "Init"
  PROVE  Unlocked' /\ Locked'
<1> DEFINE v == speed'
           low == ReadSaliency(sal')
           blend == arb'.sensorless
           b == arb'.blend_omega
           test == SlavedTest(sal)
           used == s.used
<1>1. /\ used \in Results /\ IsOk(used) /\ SalOk(sal') /\ low \in Results
      /\ flux \in Results /\ v \in Speeds /\ v \in Int /\ speed \in Int
      /\ arb \in ArbType /\ blend \in Blends(arb, low, flux) /\ arb.blend_omega \in Int
      /\ IsOk(blend) => b = Clamped(blend.omega)
  BY DrivesParts
<1>2. s.sal = sal /\ control' = "testing" /\ used = ReadSaliency(sal)
  BY SettledRight
<1>3. /\ speed - 1 <= v /\ v <= speed + 1 /\ setup' = setup /\ flux \in FluxReadings(v)
      /\ sal' = Estimated(sal, control', used, v, locked, pull) /\ injecting' = Injects(control', used)
      /\ SalOk(sal) /\ Unlocked
  BY <1>2 DEF Drives, Conducting, DriveTyped
<1>4. setup.parameters /\ ~Observes(control')
  BY DEF Sees, Observes
<1> DEFINE fault == test.state # "Init"
<1>5. sal' = [fault |-> fault, omega |-> used.omega, right |-> used.right, test |-> test]
  <2> HIDE DEF v, used
  <2> QED BY <1>3, <1>4, UpdateWays DEF test
<1>6. injecting'
  BY <1>2, <1>3 DEF Injects
<1>7. arb.blend_omega = HighSpeed \/ (arb.blend_omega = 0 /\ speed = 0)
  BY <1>2, <1>3 DEF Unlocked
<1>8. used.omega = 0
  BY <1>1, <1>2, <1>3, SaliencyReading DEF Unlocked
<1>9. test.state \in {"Init", "Fault"}
  BY <1>2, <1>3, SlavedMoves
<1> HIDE DEF test
<1>10. ~Tracking(sal')
  BY <1>5, <1>9 DEF Tracking
<1>11. ASSUME test.state = "Init"
       PROVE  /\ FollowsAt(v, b)
              /\ IsOk(blend) /\ Size(blend.omega) >= HighSpeed => blend.right /\ blend.omega = v
  <2>1. IsOk(low) /\ low.omega = 0
    BY <1>1, <1>5, <1>8, <1>11, SaliencyReading
  <2> HIDE DEF low, v, blend
  <2>2. /\ setup.parameters /\ Size(v) >= LeastObserved => IsOk(flux) /\ flux.omega = v /\ flux.right
        /\ IsOk(flux) /\ Size(v) < LeastObserved => -LowSpeed <= flux.omega /\ flux.omega <= LowSpeed
        /\ IsOk(flux) => flux.omega \in Int
    BY <1>1, <1>3, ReadingsTyped, ResultKinds, ThresholdOrder DEF Reports
  <2>3. Size(v) \in Nat /\ LeastObserved = LowSpeed - 1 /\ FollowsAt(v, Clamped(v))
    BY <1>1, SizeParts, ClampedFollows DEF LeastObserved
  <2>4. Clamped(0) = 0 /\ Size(0) = 0
    BY ThresholdOrder DEF Clamped, Size
  <2>5. CASE ~IsOk(flux)
    <3>1. blend = low
      BY <1>1, <2>1, <2>4, <2>5, BlendKinds, ThresholdOrder DEF LoneLow
    <3>2. Size(v) < LowSpeed /\ Size(v) < HighSpeed
      BY <1>4, <2>2, <2>3, <2>5, ThresholdOrder
    <3> QED BY <1>1, <2>1, <2>3, <2>4, <3>1, <3>2, ThresholdOrder DEF FollowsAt, blend
  <2>6. CASE IsOk(flux)
    <3> DEFINE old == arb.blend_omega
    <3>1. blend \in BlendBoth(old, low, flux)
      BY <1>1, <2>1, <2>6, BlendKinds
    <3>2. /\ IsOk(blend) /\ blend.omega \in Int
          /\ blend.right <=> (Weight(old) # 0 => low.right) /\ (Weight(old) # BlendWidth => flux.right)
          /\ \A lo, hi \in Int :
               /\ Weight(old) # 0 => lo <= low.omega /\ low.omega <= hi
               /\ Weight(old) # BlendWidth => lo <= flux.omega /\ flux.omega <= hi
               => lo <= blend.omega /\ blend.omega <= hi
      BY <1>1, <2>1, <2>6, <3>1, BlendOfBoth
    <3>3. b = Clamped(blend.omega)
      BY <1>1, <3>2 DEF blend
    <3>4. CASE old = HighSpeed
      <4>1. Weight(old) = 0 /\ BlendWidth # 0
        BY <3>4, WeightRange, ThresholdOrder DEF Size
      <4>2. blend.omega = flux.omega /\ (blend.right <=> flux.right)
        <5>1. flux.omega <= blend.omega /\ blend.omega <= flux.omega
          BY <2>2, <2>6, <3>2, <4>1
        <5> QED BY <2>2, <2>6, <3>2, <4>1, <5>1
      <4>3. CASE Size(v) >= LeastObserved
        BY <1>4, <2>2, <2>3, <3>3, <4>2, <4>3
      <4>4. CASE ~(Size(v) >= LeastObserved)
        <5>1. -LowSpeed <= flux.omega /\ flux.omega <= LowSpeed /\ flux.omega \in Int
          BY <2>2, <2>3, <2>6, <4>4, ThresholdOrder
        <5>2. Size(flux.omega) <= LowSpeed /\ Clamped(flux.omega) = flux.omega
          BY <5>1, ThresholdOrder DEF Size, Clamped
        <5>3. Size(v) < HighSpeed /\ ~(Size(flux.omega) >= HighSpeed)
          BY <2>3, <4>4, <5>1, <5>2, SizeParts, ThresholdOrder
        <5> QED BY <2>3, <3>3, <4>2, <5>2, <5>3, ThresholdOrder DEF FollowsAt
      <4> QED BY <4>3, <4>4
    <3>5. CASE old = 0 /\ speed = 0
      <4>1. Weight(old) = BlendWidth /\ BlendWidth # 0
        BY <2>4, <3>5, WeightRange, ThresholdOrder
      <4>2. blend.omega = 0
        <5>1. 0 <= blend.omega /\ blend.omega <= 0
          BY <2>1, <3>2, <4>1
        <5> QED BY <3>2, <5>1
      <4>3. Size(v) <= 1
        BY <1>1, <1>3, <2>4, <3>5, NearSizes DEF v
      <4> QED BY <2>3, <2>4, <3>3, <4>2, <4>3, ThresholdOrder DEF FollowsAt
    <3> QED BY <1>7, <3>4, <3>5
  <2> QED BY <2>5, <2>6 DEF v, blend
<1>12. Unlocked'
  BY <1>5, <1>6, <1>11 DEF Unlocked, Follows
<1>13. Locked'
  BY <1>10 DEF Locked
<1> QED BY <1>12, <1>13

\* Slaved to the feedback in use, the loop is ready to take over.
LEMMA SlavedLocks ==
  ASSUME Sees, ~injecting, NEW s, NEW hall, NEW flux, NEW locked, NEW pull, Drives(s, hall, flux, locked, pull),
         Tracking(s.sal)
  PROVE  Unlocked' /\ Locked'
<1> DEFINE v == speed'
           low == ReadSaliency(sal')
           blend == arb'.sensorless
           b == arb'.blend_omega
           x == s.sal
           test == SlavedTest(x)
           used == s.used
<1>1. /\ s.control \in Controls /\ SalOk(x) /\ used \in Results /\ IsOk(used) /\ SalOk(sal') /\ low \in Results
      /\ hall \in Results /\ v \in Speeds /\ v \in Int /\ speed \in Int
      /\ arb \in ArbType /\ blend \in Blends(arb, low, flux) /\ blend \in Results /\ arb'.hall = hall
      /\ b = IF IsOk(blend) THEN Clamped(blend.omega)
             ELSE IF blend = None THEN IF IsOk(hall) THEN hall.omega ELSE HighSpeed ELSE arb.blend_omega
  BY DrivesParts
<1>2. /\ Tracking(sal)
      /\ x.test.state = "Done" => used.right
      /\ control' # "testing" => used.omega = speed
  BY SettledRight
<1>3. /\ speed - 1 <= v /\ v <= speed + 1 /\ setup' = setup /\ hall \in HallReadings(v) /\ flux \in FluxReadings(v)
      /\ control' = s.control /\ control' # "off"
      /\ sal' = Estimated(x, control', used, v, locked, pull) /\ injecting' = Injects(control', used)
      /\ Locked
  BY DEF Drives, Conducting
<1>4. setup.parameters /\ ~Observes(control')
  BY DEF Sees, Observes
<1> DEFINE fault == test.state # "Init"
<1>5. sal' = [fault |-> fault, omega |-> used.omega, right |-> used.right, test |-> test]
  <2> HIDE DEF x, v, used
  <2> QED BY <1>1, <1>3, <1>4, UpdateWays DEF test
<1>6. test.state \in {x.test.state, "Fault"} /\ (test.state = "Testing" => test.sum = 0)
  BY <1>1, SlavedMoves DEF Tracking
<1>7. fault = TRUE
  BY <1>6 DEF Tracking
<1> HIDE DEF test, fault
<1>8. sal'.fault /\ sal'.test = test /\ (sal'.right <=> used.right)
  BY <1>5, <1>7
<1>9. ~IsOk(low)
  BY <1>1, <1>8, SaliencyReading
<1>10. /\ IsOk(blend) => blend.omega = v /\ blend.right
       /\ ~IsOk(blend) => Size(v) <= LowSpeed
  <2> HIDE DEF low, blend, v
  <2> QED BY <1>1, <1>3, <1>4, <1>9, LoneBlend
<1>11. IsOk(hall) => hall.omega = v
  BY <1>1, <1>3, ReadingsTyped
<1>12. FollowsAt(v, Clamped(v)) /\ FollowsAt(v, v) /\ Size(v) \in Nat /\ Size(Clamped(v)) <= Size(v)
  BY <1>1, ClampedFollows
<1>13. ~injecting' => Size(v) > LowSpeed
  <2>1. ASSUME ~injecting' PROVE Size(v) > LowSpeed
    <3>1. control' \in {"torque", "safety"}
      BY <1>1, <1>3, <2>1 DEF Controls, Injects
    <3>2. ~(Size(speed) < HighSpeed)
      BY <1>2, <1>3, <2>1, <3>1 DEF Injects
    <3> QED BY <1>1, <1>3, <3>2, ThresholdOrder DEF Size
  <2> QED BY <2>1
<1>14. IsOk(Read(arb')) => FollowsAt(v, b)
  <2>1. ASSUME IsOk(Read(arb')) PROVE FollowsAt(v, b)
    <3>1. CASE IsOk(blend)
      BY <1>1, <1>10, <1>12, <3>1
    <3>2. CASE blend = None
      <4>1. IsOk(hall)
        BY <1>1, <2>1, <3>2, ResultKinds DEF Read
      <4> QED BY <1>1, <1>11, <1>12, <3>2, <4>1, ResultKinds
    <3>3. CASE ~IsOk(blend) /\ blend # None
      <4>1. b = arb.blend_omega /\ Size(v) <= LowSpeed
        BY <1>1, <1>10, <3>3
      <4>2. Size(v) < LowSpeed => Size(speed) <= LowSpeed
        BY <1>1, <1>3, NearSizes, ThresholdOrder
      <4>3. Size(v) < LowSpeed => Size(b) <= LowSpeed
        BY <1>2, <1>3, <4>1, <4>2 DEF Locked
      <4> QED BY <1>12, <4>1, <4>3, ThresholdOrder DEF FollowsAt
    <3> QED BY <3>1, <3>2, <3>3
  <2> QED BY <2>1
<1>15. Unlocked'
  BY <1>6, <1>8 DEF Unlocked, Tracking
<1>16. Locked'
  <2>1. injecting' /\ IsOk(Read(arb))' => Follows'
    BY <1>14 DEF Follows
  <2>2. ~injecting' /\ Size(v) <= LowSpeed => Size(b) <= LowSpeed
    BY <1>12, <1>13, ThresholdOrder
  <2>3. sal'.test.state = "Done" => sal'.right
    BY <1>2, <1>6, <1>8
  <2>4. sal'.test.state = "Testing" => ~(sal'.test.sum > 0) /\ ~(sal'.test.sum < 0)
    BY <1>6, <1>8
  <2> QED BY <1>8, <1>10, <2>1, <2>2, <2>3, <2>4 DEF Locked
<1> QED BY <1>15, <1>16

LEMMA FaultLocks ==
  ASSUME NEW s, NEW hall, NEW flux, NEW locked, NEW pull, Drives(s, hall, flux, locked, pull),
         s.sal.test.state = "Fault"
  PROVE  Unlocked' /\ Locked'
<1> DEFINE x == s.sal
           used == s.used
<1>1. SalOk(x) /\ locked \in BOOLEAN /\ pull \in {-1, 0, 1}
      /\ sal' = Estimated(x, control', used, speed', locked, pull)
  BY DrivesParts DEF Drives, Conducting
<1>2. sal'.test = x.test
  <2> HIDE DEF used
  <2>1. x.test.state \in {"Done", "Fault"}
    OBVIOUS
  <2> HIDE DEF x
  <2> QED BY <1>1, <2>1, FinishedTest
<1> QED BY <1>2 DEF Unlocked, Locked, Tracking

\* Not conducting, nothing is injected and no estimate but that of the hall sensors is kept.
LEMMA ParkedKeeps ==
  ASSUME DriveTyped, speed' \in Speeds, setup' = setup, control' = "off",
         NEW hall \in HallReadings(speed'), NEW guess \in BOOLEAN, Parked(hall, guess)
  PROVE  Sourced' /\ Unlocked' /\ Locked'
<1> DEFINE v == speed'
<1>1. hall \in Results /\ (IsOk(hall) => hall.right /\ hall.omega = v)
  BY ReadingsTyped
<1>2. /\ injecting' = FALSE /\ sal' = ResetSaliency(hall, guess) /\ arb'.hall = hall /\ arb'.sensorless = None
      /\ arb'.blend_omega = IF IsOk(hall) THEN hall.omega ELSE HighSpeed
  BY <1>1, ParkedDrive DEF DriveTyped
<1>3. /\ sal'.test.state = IF IsOk(hall) THEN "Done" ELSE "Init"
      /\ ~IsOk(hall) => sal'.omega = 0
  <2>1. sal'.test.state = IF IsOk(hall) THEN "Done" ELSE "Init"
    BY <1>1, <1>2, SeededSaliency
  <2>2. ~IsOk(hall) => sal'.omega = 0
    BY <1>2 DEF ResetSaliency
  <2> QED BY <2>1, <2>2
<1>4. ~IsOk(arb'.sensorless)
  BY <1>2, ResultKinds
<1>5. Sourced'
  BY <1>1, <1>2, <1>4 DEF Sourced
<1>6. Unlocked'
  BY <1>2, <1>3 DEF Unlocked
<1>7. Locked'
  BY <1>1, <1>2, <1>3, <1>4 DEF Locked, Tracking, Verdict
<1> QED BY <1>5, <1>6, <1>7

LEMMA TickKeeps ==
  ASSUME DriveTyped, Sourced, Unlocked, Locked, Tick
  PROVE  Sourced' /\ Unlocked' /\ Locked'
<1> DEFINE s == PolaritySettled(Read(arb))
<1>1. /\ speed' \in Speeds /\ speed - 1 <= speed' /\ speed' <= speed + 1 /\ setup' = setup
      /\ \E hall \in HallReadings(speed') :
           \/ control' = "off" /\ \E guess \in BOOLEAN : Parked(hall, guess)
           \/ \E flux \in FluxReadings(speed'), locked \in BOOLEAN, pull \in {-1, 0, 1} :
                /\ Conducting(s, hall, flux, locked, pull)
                /\ s.sal.test.state = "Testing" /\ pull # 0 => pull = IF s.sal.right THEN 1 ELSE -1
  BY TickParts
<1> HIDE DEF s
<1>2. PICK hall \in HallReadings(speed') :
        \/ control' = "off" /\ \E guess \in BOOLEAN : Parked(hall, guess)
        \/ \E flux \in FluxReadings(speed'), locked \in BOOLEAN, pull \in {-1, 0, 1} :
             /\ Conducting(s, hall, flux, locked, pull)
             /\ s.sal.test.state = "Testing" /\ pull # 0 => pull = IF s.sal.right THEN 1 ELSE -1
  BY <1>1
<1>3. CASE control' = "off" /\ \E guess \in BOOLEAN : Parked(hall, guess)
  <2>1. PICK guess \in BOOLEAN : Parked(hall, guess)
    BY <1>3
  <2> QED BY <1>1, <1>3, <2>1, ParkedKeeps
<1>4. CASE \E flux \in FluxReadings(speed'), locked \in BOOLEAN, pull \in {-1, 0, 1} :
             /\ Conducting(s, hall, flux, locked, pull)
             /\ s.sal.test.state = "Testing" /\ pull # 0 => pull = IF s.sal.right THEN 1 ELSE -1
  <2>1. PICK flux \in FluxReadings(speed'), locked \in BOOLEAN, pull \in {-1, 0, 1} :
               /\ Conducting(s, hall, flux, locked, pull)
               /\ s.sal.test.state = "Testing" /\ pull # 0 => pull = IF s.sal.right THEN 1 ELSE -1
    BY <1>4
  <2>2. Drives(s, hall, flux, locked, pull)
    BY <1>1, <2>1 DEF Drives, s
  <2>3. Sourced'
    BY <2>2, SourcedNext
  <2>4. s.sal.test.state \in {"Init", "Settling", "Testing", "Done", "Fault"}
    BY <2>2, DrivesParts, TestParts DEF SalOk
  <2>5. CASE ~Sees
    <3>1. ~Sees'
      BY <1>1, <2>5 DEF Sees
    <3> QED BY <2>3, <3>1 DEF Unlocked, Locked
  <2>6. CASE s.sal.test.state = "Fault"
    BY <2>2, <2>3, <2>6, FaultLocks
  <2>7. CASE Sees /\ injecting /\ s.sal.test.state # "Fault"
    BY <2>2, <2>3, <2>7, ObservedLocks
  <2>8. CASE Sees /\ ~injecting /\ s.sal.test.state = "Init"
    BY <2>2, <2>3, <2>8, StartLocks
  <2>9. CASE Sees /\ ~injecting /\ Tracking(s.sal)
    BY <2>2, <2>3, <2>9, SlavedLocks
  <2> QED BY <2>4, <2>5, <2>6, <2>7, <2>8, <2>9 DEF Tracking
<1> QED BY <1>2, <1>3, <1>4

-----------------------------------------------------------------------------
(***************************************************************************)
(* The invariant                                                           *)
(***************************************************************************)
EdgesInv == bench = "edges" => Remembers /\ HallRight /\ control = "off"
SpeedsInv == bench = "speeds" => Sourced /\ Unlocked /\ Locked
Inv == DriveTyped /\ HallTyped /\ EdgesInv /\ SpeedsInv

LEMMA NewEstimator ==
  ASSUME NEW t \in Tables
  PROVE  LET e == NewHallEstimator
             c == SetCalibration(NewHallEstimator, t)
             Estimators == [table : {NotCalibrated, t}, state : Modes,
                            prev_pattern : Patterns \cup {0}, prev_dir : Directions]
         IN  /\ e \in Estimators /\ c \in Estimators
             /\ e.prev_pattern = 0 /\ e.prev_dir = 0 /\ e.state = "Stationary"
             /\ c.prev_pattern = 0 /\ c.prev_dir = 0 /\ c.state = "Stationary"
BY DEF NewHallEstimator, SetCalibration, Modes, Directions

LEMMA InitInv ==
  ASSUME Init PROVE Inv
<1>1. DriveTyped
  <2>1. speed \in Speeds
    <3>1. 0 \in Speeds
      BY ThresholdOrder DEF Speeds
    <3> QED BY <3>1 DEF Init
  <2>2. control \in Controls /\ injecting \in BOOLEAN /\ bench \in {"edges", "speeds"} /\ setup \in Setups
    BY DEF Init, Controls
  <2>3. SalOk(sal)
    BY SeededSaliency, ResultKinds DEF Init
  <2>4. arb \in ArbType
    BY ThresholdOrder, ResultKinds DEF Init, NewArbitrator, ArbType, Reports
  <2> QED BY <2>1, <2>2, <2>3, <2>4 DEF DriveTyped
<1>2. rotor \in [pattern : Patterns, table : Tables] /\ rotor.table \in Tables /\ rotor.pattern \in Patterns
      /\ timer = [prev |-> 0, pattern |-> rotor.pattern]
      /\ truth = [dir |-> 0, run |-> 0, gap |-> 0, doubt |-> FALSE]
      /\ est \in {NewHallEstimator, SetCalibration(NewHallEstimator, rotor.table)}
  BY DEF Init
<1>3. /\ est \in [table : {NotCalibrated, rotor.table}, state : Modes,
                  prev_pattern : Patterns \cup {0}, prev_dir : Directions]
      /\ est.prev_pattern = 0 /\ est.prev_dir = 0 /\ est.state = "Stationary"
  <2> DEFINE t == rotor.table
  <2> HIDE DEF t
  <2>1. t \in Tables /\ est \in {NewHallEstimator, SetCalibration(NewHallEstimator, t)}
    BY <1>2 DEF t
  <2> QED BY <2>1, NewEstimator DEF t
<1>4. HallTyped
  BY <1>2, <1>3 DEF HallTyped, Directions, Glitches
<1>5. EdgesInv
  <2>1. Heading = 0
    BY <1>2 DEF Heading, Dir, Adjacent, Patterns
  <2>2. Remembers
    BY <1>2, <1>3, <2>1 DEF Remembers
  <2>3. HallRight /\ control = "off"
    BY ResultKinds DEF Init, NewArbitrator, HallRight
  <2> QED BY <2>2, <2>3 DEF EdgesInv
<1>6. SpeedsInv
  <2>1. /\ ~IsOk(arb.hall) /\ ~IsOk(arb.sensorless) /\ arb.sensorless = None /\ arb.blend_omega = 0
        /\ speed = 0 /\ control = "off" /\ injecting = FALSE
    BY ResultKinds DEF Init, NewArbitrator
  <2>2. sal.test.state = "Init" /\ sal.omega = 0
    BY ResultKinds DEF Init, ResetSaliency, ResetTest
  <2> QED BY <2>1, <2>2 DEF SpeedsInv, Sourced, Unlocked, Locked, Tracking
<1> QED BY <1>1, <1>4, <1>5, <1>6 DEF Inv

\* A step of the second bench that is no tick changes the control only, and not to torque.
LEMMA ControlKeeps ==
  ASSUME Inv, bench = "speeds", UNCHANGED <<bench, hallVars, speed, setup, injecting, sal, arb>>,
         control' \in Controls, control' # "torque"
  PROVE  Inv'
<1>1. UNCHANGED <<bench, rotor, timer, est, truth, speed, setup, injecting, sal, arb>>
  BY DEF hallVars
<1>2. DriveTyped' /\ HallTyped' /\ EdgesInv'
  BY <1>1 DEF Inv, DriveTyped, HallTyped, EdgesInv
<1>3. Sourced' /\ Unlocked' /\ Locked'
  BY <1>1 DEF Inv, SpeedsInv, Sourced, Unlocked, Locked, Tracking, Sees, Follows
<1> QED BY <1>2, <1>3 DEF Inv, SpeedsInv

LEMMA NextInv ==
  ASSUME Inv, [Next]_vars PROVE Inv'
<1>1. CASE UNCHANGED vars
  <2>1. UNCHANGED <<bench, rotor, timer, est, truth, speed, setup, control, injecting, sal, arb>>
    BY <1>1 DEF vars, hallVars, driveVars
  <2>2. DriveTyped' /\ HallTyped' /\ EdgesInv'
    BY <2>1 DEF Inv, DriveTyped, HallTyped, EdgesInv, Remembers, HallRight, Heading
  <2>3. SpeedsInv'
    BY <2>1 DEF Inv, SpeedsInv, Sourced, Unlocked, Locked, Tracking, Sees, Follows
  <2> QED BY <2>2, <2>3 DEF Inv
<1>2. CASE Next /\ bench = "edges" /\ ~HallTick
  <2>1. UNCHANGED <<bench, speed, setup, control, injecting, sal, arb>>
    BY <1>2 DEF Next, Forward, Reverse, Edge, SkippedEdge, Glitch, GlitchEnds, CalibrationStarts, TableStored,
                Start, Stop, Tick, driveVars
  <2>2. HallTyped' /\ Remembers' /\ HallRight'
    BY <1>2, <2>1, EdgesNext DEF Inv, EdgesInv
  <2>3. DriveTyped'
    BY <2>1 DEF Inv, DriveTyped
  <2> QED BY <1>2, <2>1, <2>2, <2>3 DEF Inv, EdgesInv, SpeedsInv
<1>3. CASE HallTick
  <2>1. bench = "edges" /\ UNCHANGED <<bench, speed, setup, control>>
    BY <1>3 DEF HallTick
  <2>2. HallTyped' /\ Remembers' /\ HallRight' /\ DriveTyped'
    BY <1>3, <2>1, HallTickRemembered DEF Inv, EdgesInv
  <2> QED BY <2>1, <2>2 DEF Inv, EdgesInv, SpeedsInv
<1>4. CASE Start
  BY <1>4, ControlKeeps DEF Start, Controls
<1>5. CASE Stop
  BY <1>5, ControlKeeps DEF Stop, Controls
<1>6. CASE Tick
  <2>1. bench = "speeds" /\ UNCHANGED <<bench, rotor, timer, est, truth>>
    BY <1>6 DEF Tick, hallVars
  <2>2. DriveTyped'
    BY <1>6, TickTyped DEF Inv
  <2>3. Sourced' /\ Unlocked' /\ Locked'
    BY <1>6, <2>1, TickKeeps DEF Inv, SpeedsInv
  <2> QED BY <2>1, <2>2, <2>3 DEF Inv, HallTyped, EdgesInv, SpeedsInv
<1>7. CASE Next /\ bench = "speeds"
  BY <1>3, <1>4, <1>5, <1>6, <1>7 DEF Next, Forward, Reverse, Edge, SkippedEdge, Glitch, GlitchEnds,
                                      CalibrationStarts, TableStored
<1>8. bench \in {"edges", "speeds"}
  BY DEF Inv, DriveTyped
<1> QED BY <1>1, <1>2, <1>3, <1>7, <1>8

LEMMA TypeFromInv ==
  ASSUME Inv PROVE TypeOK
<1>1. est \in [table : Tables \cup {NotCalibrated}, state : Modes,
               prev_pattern : Patterns \cup {0}, prev_dir : Directions]
  BY DEF Inv, HallTyped
<1> QED BY <1>1 DEF Inv, HallTyped, DriveTyped, SalOk, ArbType, TypeOK

LEMMA TracksFromInv ==
  ASSUME Inv PROVE FeedbackTracks
<1> DEFINE r == Read(arb)
<1>1. IsOk(r) => \/ r = arb.hall /\ IsOk(arb.hall)
                 \/ r = arb.sensorless /\ IsOk(arb.sensorless)
  BY ReadKinds DEF Inv, DriveTyped
<1>2. bench \in {"edges", "speeds"} /\ setup.parameters \in BOOLEAN
  BY DEF Inv, DriveTyped, Setups
<1>3. CASE bench = "edges"
  BY <1>1, <1>3 DEF Inv, EdgesInv, HallRight, FeedbackTracks, HallTracks, SensorlessTracks
<1>4. CASE bench = "speeds"
  <2>1. HallTracks
    BY <1>4 DEF HallTracks
  <2>2. ASSUME control = "torque", IsOk(r) PROVE r.right
    <3>1. sal.test.state = "Done" /\ Sourced /\ Locked
      BY <1>4, <2>2 DEF Inv, SpeedsInv, Sourced
    <3>2. r = arb.hall /\ IsOk(arb.hall) => r.right
      BY <3>1 DEF Sourced
    <3>3. r = arb.sensorless /\ IsOk(arb.sensorless) => r.right
      <4>1. CASE Sees
        BY <3>1, <4>1 DEF Locked, Tracking
      <4>2. CASE ~Sees
        BY <1>2, <2>2, <3>1, <4>2 DEF Sourced, Sees
      <4> QED BY <4>1, <4>2
    <3> QED BY <1>1, <2>2, <3>2, <3>3
  <2> QED BY <2>1, <2>2 DEF FeedbackTracks, SensorlessTracks
<1> QED BY <1>2, <1>3, <1>4

LEMMA AlwaysInv == Spec => []Inv
<1>1. Init => Inv
  BY InitInv
<1>2. Inv /\ [Next]_vars => Inv'
  BY NextInv
<1> QED BY <1>1, <1>2, PTL DEF Spec

\* Every variable has its type: the records of the estimators, the readings of the arbitrator within
\* the speeds that there are, and the counters of the polarity test (SaliencyPolarityTest).
THEOREM RotorTyped == Spec => []TypeOK
<1>1. Inv => TypeOK
  BY TypeFromInv
<1> QED BY <1>1, AlwaysInv, PTL

\* What FeedbackArbitrator::read hands to foc_step follows the rotor, on both benches: an estimate has
\* no weight where it is wrong, and the hall sensors report no speed that two edges do not show.
THEOREM FeedbackAlwaysTracks == Spec => []FeedbackTracks
<1>1. Inv => FeedbackTracks
  BY TracksFromInv
<1> QED BY <1>1, AlwaysInv, PTL
=============================================================================
