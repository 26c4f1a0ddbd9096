-------------------------- MODULE TestRunnerProofs --------------------------
(***************************************************************************)
(* Theorems about TestRunner for every number of tests.                    *)
(***************************************************************************)
EXTENDS TestRunner, FiniteSetTheorems, TLAPS

\* The process of test i exists.
HasChild == pc \in {"arm", "wait", "disarm", "kill"}
Between == pc \in {"next", "end"}

\* Where the runner is, and which process it knows.
Position ==
    /\ ~Between => i \in Tests
    /\ HasChild => childPid = i
    /\ armed => pc \in {"wait", "disarm"}

\* Nothing has happened to the tests that were not begun.
Untouched ==
    \A t \in Tests :
        /\ t >= i => verdict[t] = "none"
        /\ t > i \/ (t = i /\ ~HasChild) =>
              child[t] = "none" /\ how[t] = "none" /\ program[t] = "none"

\* What a process says of how it ended; only the present test's may be alive, and
\* one the runner kills is reported as a timeout.
Processes ==
    \A t \in Tests :
        /\ child[t] \in Alive => t = i /\ HasChild
        /\ child[t] \in Alive \cup {"dying"} => how[t] = "none"
        /\ child[t] \in {"zombie", "reaped"} => how[t] # "none"
        /\ child[t] = "dying" \/ how[t] = "killed" =>
              verdict[t] = "timeout" \/ (t = i /\ HasChild /\ pc # "arm" /\ sent)

\* What the runner has learnt from waitpid.
Learnt ==
    pc \in {"disarm", "kill"} =>
        /\ passed => how[i] = "exit0"
        /\ ~sent => child[i] = "reaped" /\ (how[i] = "exit0" => passed)

\* A program runs on only when its test was killed.
Programs ==
    \A t \in Tests :
        program[t] = "running" => child[t] \in {"forked", "dying"} \/ how[t] = "killed"

Judged == {t \in Tests : verdict[t] # "none"}
Good == {t \in Tests : verdict[t] = "pass"}

\* The test that runs is counted as failed in advance; a wanted test the loop has
\* gone past has a verdict.
Counts ==
    /\ stats.ran = Cardinality(Judged) + (IF Between THEN 0 ELSE 1)
    /\ stats.passed = Cardinality(Good)
    /\ stats.failed = stats.ran - stats.passed
    /\ options.errors = 1 => stats.failed \in IF Between THEN {0, 1} ELSE {1}
    /\ pc = "end" => ~MoreToRun
    /\ \A t \in options.wanted : t < i => verdict[t] # "none"

\* TypeOK, but that the statistics are integers: CountBounds bounds them.
Types ==
    /\ options \in [wanted : SUBSET Tests, errors : {0, 1}]
    /\ pc \in {"next", "fork", "arm", "wait", "disarm", "kill", "inline",
               "end", "aborted", "exited"}
    /\ i \in 1 .. NumTests + 1 /\ childPid \in Tests \cup {NoChild, ForkError}
    /\ sent \in BOOLEAN /\ armed \in BOOLEAN /\ passed \in BOOLEAN
    /\ stats \in [ran : Int, passed : Int, failed : Int]
    /\ verdict \in [Tests -> {"none", "pass", "fail", "timeout"}]
    /\ child \in [Tests -> Alive \cup {"none", "dying", "zombie", "reaped"}]
    /\ how \in [Tests -> {"none", "exit0", "exit1", "signal", "killed"}]
    /\ program \in [Tests -> {"none", "running", "ended"}]

\* The inductive invariant.
Inv ==
    /\ Types /\ Position /\ Untouched /\ Processes /\ Learnt /\ Programs /\ Counts
    /\ VerdictsTrue

-----------------------------------------------------------------------------
(* Counting verdicts                                                       *)

LEMMA TestsFinite == IsFiniteSet(Tests) /\ Cardinality(Tests) = NumTests
BY RunnerConstants, FS_Interval DEF Tests

\* There are no more passed tests than judged ones, and no more of these than tests
\* the loop has gone past.
LEMMA CountBounds ==
    ASSUME Types, Position, Untouched
    PROVE  /\ IsFiniteSet(Judged) /\ Cardinality(Judged) \in Nat
           /\ IsFiniteSet(Good) /\ Cardinality(Good) \in Nat
           /\ Cardinality(Good) <= Cardinality(Judged)
           /\ Cardinality(Judged) = Cardinality(Good) => Judged = Good
           /\ Cardinality(Judged) <= IF Between THEN NumTests ELSE NumTests - 1
<1>1. Judged \in SUBSET Tests /\ Good \in SUBSET Judged
  BY DEF Judged, Good
<1>2. IsFiniteSet(Judged) /\ Cardinality(Judged) <= NumTests
  BY <1>1, TestsFinite, FS_Subset
<1>3. IsFiniteSet(Good) /\ Cardinality(Good) <= Cardinality(Judged)
      /\ (Cardinality(Judged) = Cardinality(Good) => Judged = Good)
  BY <1>1, <1>2, FS_Subset
<1>4. Cardinality(Judged) \in Nat /\ Cardinality(Good) \in Nat
  BY <1>2, <1>3, FS_CardinalityType
<1>5. ASSUME ~Between PROVE Cardinality(Judged) <= NumTests - 1
  <2>1. i \in Tests /\ Judged \in SUBSET (Tests \ {i})
    BY <1>5 DEF Position, Untouched, Judged, Types
  <2>2. IsFiniteSet(Tests \ {i}) /\ Cardinality(Tests \ {i}) = NumTests - 1
    BY <2>1, TestsFinite, FS_RemoveElement
  <2> QED BY <2>1, <2>2, FS_Subset
<1> QED BY <1>2, <1>3, <1>4, <1>5

\* A verdict on the present test is one more, and nothing else.
LEMMA OneMore ==
    ASSUME Types, Position, Untouched, ~Between,
           NEW result \in {"pass", "fail", "timeout"},
           verdict' = [verdict EXCEPT ![i] = result]
    PROVE  /\ Cardinality(Judged') = Cardinality(Judged) + 1
           /\ Cardinality(Good') = Cardinality(Good) + IF result = "pass" THEN 1 ELSE 0
<1>1. i \in Tests /\ i \notin Judged /\ i \notin Good
  BY DEF Position, Untouched, Judged, Good, Types
<1>2. Judged' = Judged \cup {i}
  BY <1>1 DEF Judged, Types
<1>3. Good' = IF result = "pass" THEN Good \cup {i} ELSE Good
  BY <1>1 DEF Good, Types
<1>4. IsFiniteSet(Judged) /\ IsFiniteSet(Good) /\ Cardinality(Good) \in Nat
  BY CountBounds
<1>5. Cardinality(Judged \cup {i}) = Cardinality(Judged) + 1
  BY <1>1, <1>4, FS_AddElement
<1>6. Cardinality(Good \cup {i}) = Cardinality(Good) + 1
  BY <1>1, <1>4, FS_AddElement
<1> QED BY <1>2, <1>3, <1>4, <1>5, <1>6

\* The statistics stay within their types.
LEMMA TypesImply == ASSUME Inv PROVE TypeOK
<1>1. /\ Cardinality(Judged) \in Nat /\ Cardinality(Good) \in Nat
      /\ Cardinality(Good) <= Cardinality(Judged)
      /\ Cardinality(Judged) <= IF Between THEN NumTests ELSE NumTests - 1
  BY CountBounds DEF Inv
<1>2. stats.ran \in 0 .. NumTests /\ stats.passed \in 0 .. NumTests /\ stats.failed \in 0 .. NumTests
  BY <1>1, RunnerConstants DEF Inv, Counts
<1>3. stats \in [ran : 0 .. NumTests, passed : 0 .. NumTests, failed : 0 .. NumTests]
  BY <1>2 DEF Inv, Types
<1> QED BY <1>3 DEF Inv, Types, TypeOK

-----------------------------------------------------------------------------
(* The invariant                                                           *)

LEMMA InitInv == Init => Inv
<1> SUFFICES ASSUME Init PROVE Inv OBVIOUS
<1>1. Judged = {} /\ Good = {}
  BY DEF Init, Judged, Good
<1>2. Types
  <2>1. stats \in [ran : Int, passed : Int, failed : Int]
    BY DEF Init
  <2>2. i \in 1 .. NumTests + 1 /\ childPid \in Tests \cup {NoChild, ForkError}
    BY RunnerConstants DEF Init
  <2> QED BY <2>1, <2>2 DEF Init, Types
<1>5. Position /\ Untouched /\ Processes /\ Learnt /\ Programs /\ VerdictsTrue
  BY RunnerConstants DEF Init, Position, Untouched, Processes, Learnt, Programs,
     VerdictsTrue, Between, HasChild, Alive
<1>3. Cardinality(Judged) = 0 /\ Cardinality(Good) = 0
  BY <1>1, FS_EmptySet
<1>4. Counts
  BY <1>3 DEF Init, Counts, Between, Tests
<1> QED BY <1>2, <1>4, <1>5 DEF Inv

LEMMA NextInv == Inv /\ [Next]_vars => Inv'
<1> SUFFICES ASSUME Inv, [Next]_vars PROVE Inv' OBVIOUS
<1> USE DEF Inv, Tests
<1>1. CASE SkipTest
  <2>1. Types' /\ Position' /\ Learnt'
    BY <1>1, RunnerConstants DEF SkipTest, testVars, Types, Position, Learnt,
       HasChild, Between, MoreToRun
  <2>2. Untouched' /\ Processes' /\ Programs'
    BY <1>1 DEF SkipTest, testVars, Untouched, Processes, Programs, Types, HasChild
  <2>3. VerdictsTrue'
    BY <1>1 DEF SkipTest, testVars, VerdictsTrue
  <2>4. Counts'
    BY <1>1 DEF SkipTest, Counts, Types, Between, Judged, Good
  <2> QED BY <2>1, <2>2, <2>3, <2>4
<1>2. CASE RunOneTest
  <2>1. Types'
    <3>1. stats' = [ran |-> stats.ran + 1, passed |-> stats.passed, failed |-> stats.failed + 1]
      BY <1>2 DEF RunOneTest, Types
    <3>2. stats' \in [ran : Int, passed : Int, failed : Int]
      BY <3>1 DEF Types
    <3>3. child' \in [Tests -> Alive \cup {"none", "dying", "zombie", "reaped"}]
      BY <1>2 DEF RunOneTest, testVars, Types
    <3> QED BY <1>2, <3>2 DEF RunOneTest, testVars, Types
  <2>2. Position' /\ Learnt'
    BY <1>2 DEF RunOneTest, Types, Position, Learnt, HasChild
  <2>3. Untouched' /\ Processes' /\ Programs'
    BY <1>2 DEF RunOneTest, testVars, Untouched, Processes, Programs, HasChild
  <2>4. VerdictsTrue'
    BY <1>2 DEF RunOneTest, testVars, VerdictsTrue
  <2>5. Counts'
    <3>1. Judged' = Judged /\ Good' = Good
      BY <1>2 DEF RunOneTest, Judged, Good
    <3>2. /\ Cardinality(Judged) \in Nat /\ Cardinality(Good) \in Nat
          /\ Cardinality(Good) <= Cardinality(Judged)
      BY CountBounds
    <3>3. /\ stats'.ran = stats.ran + 1 /\ stats'.passed = stats.passed
          /\ stats'.failed = stats.failed + 1
      BY <1>2 DEF RunOneTest
    <3>4. Between /\ ~Between' /\ pc' # "end" /\ UNCHANGED <<options, i, verdict>> /\ MoreToRun
      BY <1>2 DEF RunOneTest, Between
    <3> QED BY <3>1, <3>2, <3>3, <3>4 DEF Counts, MoreToRun
  <2> QED BY <2>1, <2>2, <2>3, <2>4, <2>5
<1>3. CASE AssertionFails
  <2>1. Types' /\ Position' /\ Learnt'
    BY <1>3 DEF AssertionFails, testVars, Types, Position, Learnt, HasChild, Between
  <2>2. Untouched' /\ Processes' /\ Programs'
    BY <1>3 DEF AssertionFails, testVars, Untouched, Processes, Programs, HasChild
  <2>3. VerdictsTrue'
    BY <1>3 DEF AssertionFails, testVars, VerdictsTrue
  <2>4. Counts'
    BY <1>3 DEF AssertionFails, Counts, Between, Judged, Good
  <2> QED BY <2>1, <2>2, <2>3, <2>4
<1>4. CASE Fork
  <2>1. Types' /\ Position' /\ Learnt'
    BY <1>4 DEF Fork, Types, Position, Learnt, Between, Alive
  <2>2. Untouched' /\ Processes' /\ Programs'
    BY <1>4 DEF Fork, Untouched, Processes, Programs, HasChild
  <2>3. VerdictsTrue'
    BY <1>4 DEF Fork, VerdictsTrue
  <2>4. Counts'
    BY <1>4 DEF Fork, Counts, Between, Judged, Good
  <2> QED BY <2>1, <2>2, <2>3, <2>4
<1>5. CASE ForkFails
  <2>1. Types' /\ Position' /\ Learnt'
    BY <1>5 DEF ForkFails, testVars, Types, Position, Learnt, HasChild, Between
  <2>2. Untouched' /\ Processes' /\ Programs'
    BY <1>5 DEF ForkFails, testVars, Untouched, Processes, Programs, HasChild
  <2>3. VerdictsTrue'
    BY <1>5 DEF ForkFails, testVars, VerdictsTrue
  <2>4. Counts'
    BY <1>5 DEF ForkFails, Counts, Between, Judged, Good
  <2> QED BY <2>1, <2>2, <2>3, <2>4
<1>6. CASE Arm
  <2>1. Types' /\ Position' /\ Learnt'
    BY <1>6 DEF Arm, testVars, Types, Position, Learnt, HasChild, Between
  <2>2. Untouched' /\ Processes' /\ Programs'
    BY <1>6 DEF Arm, testVars, Untouched, Processes, Programs, HasChild
  <2>3. VerdictsTrue'
    BY <1>6 DEF Arm, testVars, VerdictsTrue
  <2>4. Counts'
    BY <1>6 DEF Arm, Counts, Between, Judged, Good
  <2> QED BY <2>1, <2>2, <2>3, <2>4
<1>7. CASE Reap
  <2>1. Types' /\ Position' /\ Learnt'
    BY <1>7 DEF Reap, Types, Position, Learnt, HasChild, Between
  <2>2. Untouched' /\ Processes' /\ Programs'
    BY <1>7 DEF Reap, Untouched, Processes, Programs, HasChild, Alive
  <2>3. VerdictsTrue'
    BY <1>7 DEF Reap, VerdictsTrue
  <2>4. Counts'
    BY <1>7 DEF Reap, Counts, Between, Judged, Good
  <2> QED BY <2>1, <2>2, <2>3, <2>4
<1>8. CASE Disarm
  <2>1. Types' /\ Position' /\ Learnt'
    BY <1>8 DEF Disarm, testVars, Types, Position, Learnt, HasChild, Between
  <2>2. Untouched' /\ Processes' /\ Programs'
    BY <1>8 DEF Disarm, testVars, Untouched, Processes, Programs, HasChild
  <2>3. VerdictsTrue'
    BY <1>8 DEF Disarm, testVars, VerdictsTrue
  <2>4. Counts'
    BY <1>8 DEF Disarm, Counts, Between, Judged, Good
  <2> QED BY <2>1, <2>2, <2>3, <2>4
<1>9. CASE Return
  <2>1. Types'
    <3>1. \/ stats' = stats
          \/ stats' = [ran |-> stats.ran, passed |-> stats.passed + 1, failed |-> stats.failed - 1]
      BY <1>9 DEF Return, Types, Counted
    <3>2. stats' \in [ran : Int, passed : Int, failed : Int]
      BY <3>1 DEF Types
    <3>3. child' \in [Tests -> Alive \cup {"none", "dying", "zombie", "reaped"}]
      BY <1>9 DEF Return, Types, Killed
    <3> QED BY <1>9, <3>2, <3>3, RunnerConstants DEF Return, Types, Position, Between,
       Counted, Verdict
  <2>2. Position' /\ Learnt'
    BY <1>9 DEF Return, Position, Learnt, HasChild, Between, Counted
  <2>3. Untouched' /\ Processes' /\ Programs'
    BY <1>9 DEF Return, Untouched, Processes, Programs, Types, Position, Learnt,
       Alive, Killed, Counted, Verdict
  <2>4. VerdictsTrue'
    BY <1>9 DEF Return, VerdictsTrue, Untouched, Processes, Learnt, Types, Counted,
       Verdict
  <2>5. Counts'
    <3>1. PICK result \in {"pass", "fail", "timeout"} : Counted(result)
      BY <1>9 DEF Return, Verdict
    <3>2. ~Between /\ pc' = "next" /\ UNCHANGED options
      BY <1>9 DEF Return, Between, Counted
    <3>3. verdict' = [verdict EXCEPT ![i] = result] /\ i' = i + 1
      BY <3>1 DEF Counted
    <3>4. /\ Cardinality(Judged') = Cardinality(Judged) + 1
          /\ Cardinality(Good') = Cardinality(Good) + IF result = "pass" THEN 1 ELSE 0
      BY <3>2, <3>3, OneMore
    <3>5. /\ stats'.ran = stats.ran
          /\ stats'.passed = stats.passed + IF result = "pass" THEN 1 ELSE 0
          /\ stats'.failed = stats.failed - IF result = "pass" THEN 1 ELSE 0
      BY <3>1 DEF Counted, Types
    <3>6. \A t \in options'.wanted : t < i' => verdict'[t] # "none"
      BY <3>2, <3>3 DEF Counts, Types
    <3>7. Cardinality(Judged) \in Nat /\ Cardinality(Good) \in Nat
      BY CountBounds
    <3> QED BY <3>2, <3>4, <3>5, <3>6, <3>7 DEF Counts, Between
  <2> QED BY <2>1, <2>2, <2>3, <2>4, <2>5
<1>10. CASE InlineReturns
  <2>1. Types'
    <3>1. \/ stats' = stats
          \/ stats' = [ran |-> stats.ran, passed |-> stats.passed + 1, failed |-> stats.failed - 1]
      BY <1>10 DEF InlineReturns, Types, Counted
    <3>2. stats' \in [ran : Int, passed : Int, failed : Int]
      BY <3>1 DEF Types
    <3>3. child' \in [Tests -> Alive \cup {"none", "dying", "zombie", "reaped"}]
      BY <1>10 DEF InlineReturns, Types
    <3> QED BY <1>10, <3>2, RunnerConstants DEF InlineReturns, Types, Position,
       Between, Counted
  <2>2. Position' /\ Learnt'
    BY <1>10 DEF InlineReturns, Position, Learnt, HasChild, Between, Counted
  <2>3. Untouched' /\ Processes' /\ Programs'
    BY <1>10 DEF InlineReturns, Untouched, Processes, Programs, Types, HasChild, Counted
  <2>4. VerdictsTrue'
    BY <1>10 DEF InlineReturns, VerdictsTrue, Types, Counted
  <2>5. Counts'
    <3>1. PICK result \in {"pass", "fail", "timeout"} : Counted(result)
      BY <1>10 DEF InlineReturns
    <3>2. ~Between /\ pc' = "next" /\ UNCHANGED options
      BY <1>10 DEF InlineReturns, Between, Counted
    <3>3. verdict' = [verdict EXCEPT ![i] = result] /\ i' = i + 1
      BY <3>1 DEF Counted
    <3>4. /\ Cardinality(Judged') = Cardinality(Judged) + 1
          /\ Cardinality(Good') = Cardinality(Good) + IF result = "pass" THEN 1 ELSE 0
      BY <3>2, <3>3, OneMore
    <3>5. /\ stats'.ran = stats.ran
          /\ stats'.passed = stats.passed + IF result = "pass" THEN 1 ELSE 0
          /\ stats'.failed = stats.failed - IF result = "pass" THEN 1 ELSE 0
      BY <3>1 DEF Counted, Types
    <3>6. \A t \in options'.wanted : t < i' => verdict'[t] # "none"
      BY <3>2, <3>3 DEF Counts, Types
    <3>7. Cardinality(Judged) \in Nat /\ Cardinality(Good) \in Nat
      BY CountBounds
    <3> QED BY <3>2, <3>4, <3>5, <3>6, <3>7 DEF Counts, Between
  <2> QED BY <2>1, <2>2, <2>3, <2>4, <2>5
<1>11. CASE InlineExits
  <2>1. Types' /\ Position' /\ Learnt'
    BY <1>11 DEF InlineExits, testVars, Types, Position, Learnt, HasChild, Between
  <2>2. Untouched' /\ Processes' /\ Programs'
    BY <1>11 DEF InlineExits, testVars, Untouched, Processes, Programs, HasChild
  <2>3. VerdictsTrue'
    BY <1>11 DEF InlineExits, testVars, VerdictsTrue
  <2>4. Counts'
    BY <1>11 DEF InlineExits, Counts, Between, Judged, Good
  <2> QED BY <2>1, <2>2, <2>3, <2>4
<1>12. CASE Finish
  <2>1. Types' /\ Position' /\ Learnt'
    BY <1>12 DEF Finish, testVars, Types, Position, Learnt, HasChild, Between
  <2>2. Untouched' /\ Processes' /\ Programs'
    BY <1>12 DEF Finish, testVars, Untouched, Processes, Programs, HasChild
  <2>3. VerdictsTrue'
    BY <1>12 DEF Finish, testVars, VerdictsTrue
  <2>4. Counts'
    BY <1>12 DEF Finish, Counts, Between, MoreToRun, Judged, Good
  <2> QED BY <2>1, <2>2, <2>3, <2>4
<1>13. CASE Alarm
  <2>1. i \in Tests /\ childPid = i /\ HasChild /\ HasChild' /\ sent' = TRUE /\ pc # "arm" /\ pc' # "arm"
    BY <1>13 DEF Alarm, Position, HasChild, Between, TimeoutKill, NoChild
  <2>2. child' = IF child[i] \in Alive THEN [child EXCEPT ![i] = "dying"] ELSE child
    <3>1. childPid # NoChild
      BY <2>1 DEF NoChild
    <3>2. child' = Killed(i)
      BY <1>13, <2>1, <3>1 DEF Alarm, TimeoutKill
    <3> QED BY <2>1, <3>2 DEF Killed
  <2>3. /\ passed' => passed /\ pc' = pc
        /\ pc \in {"wait", "disarm"} /\ pc' \in {"wait", "disarm"} /\ UNCHANGED <<options, i, childPid, stats, verdict, how, program>>
        /\ pc = "disarm" => passed' = passed /\ pc' = pc
    BY <1>13 DEF Alarm, Position
  <2>4. Types'
    BY <1>13, <2>1, <2>2 DEF Types, Alarm
  <2>5. Position'
    BY <2>1, <2>3 DEF Position
  <2>6. Untouched'
    BY <2>1, <2>2, <2>3 DEF Untouched
  <2>7. Processes'
    BY <2>1, <2>2, <2>3 DEF Processes
  <2>8. Learnt'
    BY <2>1, <2>3 DEF Learnt
  <2>9. Programs'
    BY <2>2, <2>3 DEF Programs
  <2>10. Counts'
    BY <2>3 DEF Counts, Between, Judged, Good
  <2>11. VerdictsTrue'
    BY <2>3 DEF VerdictsTrue
  <2> QED BY <2>4, <2>5, <2>6, <2>7, <2>8, <2>9, <2>10, <2>11
<1>14. ASSUME NEW t \in Tests, ForkProgram(t) PROVE Inv'
  <2>1. Types' /\ Position' /\ Learnt'
    BY <1>14 DEF ForkProgram, runnerVars, Types, Position, Processes, Learnt, Alive
  <2>2. Untouched' /\ Processes' /\ Programs'
    BY <1>14 DEF ForkProgram, runnerVars, Untouched, Processes, Programs, Types,
       HasChild
  <2>3. VerdictsTrue'
    BY <1>14 DEF ForkProgram, runnerVars, VerdictsTrue
  <2>4. Counts'
    BY <1>14 DEF ForkProgram, runnerVars, Counts, Between, MoreToRun, Judged, Good
  <2> QED BY <2>1, <2>2, <2>3, <2>4
<1>15. ASSUME NEW t \in Tests, NoProgram(t) PROVE Inv'
  <2>1. Types' /\ Position' /\ Learnt'
    BY <1>15 DEF NoProgram, runnerVars, Types, Position, Processes, Learnt, Alive
  <2>2. Untouched' /\ Processes' /\ Programs'
    BY <1>15 DEF NoProgram, runnerVars, Untouched, Processes, Programs, Types, HasChild
  <2>3. VerdictsTrue'
    BY <1>15 DEF NoProgram, runnerVars, VerdictsTrue
  <2>4. Counts'
    BY <1>15 DEF NoProgram, runnerVars, Counts, Between, MoreToRun, Judged, Good
  <2> QED BY <2>1, <2>2, <2>3, <2>4
<1>16. ASSUME NEW t \in Tests, ProgramEnds(t) PROVE Inv'
  <2>1. Types' /\ Position' /\ Learnt'
    BY <1>16 DEF ProgramEnds, runnerVars, Types, Position, Learnt, HasChild, Between
  <2>2. Untouched' /\ Processes' /\ Programs'
    BY <1>16 DEF ProgramEnds, runnerVars, Untouched, Processes, Programs, HasChild
  <2>3. VerdictsTrue'
    BY <1>16 DEF ProgramEnds, runnerVars, VerdictsTrue
  <2>4. Counts'
    BY <1>16 DEF ProgramEnds, runnerVars, Counts, Between, MoreToRun, Judged, Good
  <2> QED BY <2>1, <2>2, <2>3, <2>4
<1>17. ASSUME NEW t \in Tests, ProgramWaitedFor(t) PROVE Inv'
  <2>1. Types' /\ Position' /\ Learnt'
    BY <1>17 DEF ProgramWaitedFor, runnerVars, Types, Position, Processes, Learnt, Alive
  <2>2. Untouched' /\ Processes' /\ Programs'
    BY <1>17 DEF ProgramWaitedFor, runnerVars, Untouched, Processes, Programs, Types,
       HasChild
  <2>3. VerdictsTrue'
    BY <1>17 DEF ProgramWaitedFor, runnerVars, VerdictsTrue
  <2>4. Counts'
    BY <1>17 DEF ProgramWaitedFor, runnerVars, Counts, Between, MoreToRun, Judged, Good
  <2> QED BY <2>1, <2>2, <2>3, <2>4
<1>18. ASSUME NEW t \in Tests, TestEnds(t) PROVE Inv'
  <2>1. Types' /\ Position' /\ Learnt'
    BY <1>18 DEF TestEnds, runnerVars, Types, Position, Processes, Learnt
  <2>2. Untouched' /\ Processes' /\ Programs'
    BY <1>18 DEF TestEnds, runnerVars, Untouched, Processes, Programs, Types,
       HasChild, Alive
  <2>3. VerdictsTrue'
    BY <1>18 DEF TestEnds, runnerVars, VerdictsTrue, Processes, Types
  <2>4. Counts'
    BY <1>18 DEF TestEnds, runnerVars, Counts, Between, MoreToRun, Judged, Good
  <2> QED BY <2>1, <2>2, <2>3, <2>4
<1>19. ASSUME NEW t \in Tests, Die(t) PROVE Inv'
  <2>1. Types' /\ Position' /\ Learnt'
    BY <1>19 DEF Die, runnerVars, Types, Position, Processes, Learnt, HasChild, Between
  <2>2. Untouched' /\ Processes' /\ Programs'
    BY <1>19 DEF Die, runnerVars, Untouched, Processes, Programs, Types, HasChild, Alive
  <2>3. VerdictsTrue'
    BY <1>19 DEF Die, runnerVars, VerdictsTrue, Processes
  <2>4. Counts'
    BY <1>19 DEF Die, runnerVars, Counts, Between, MoreToRun, Judged, Good
  <2> QED BY <2>1, <2>2, <2>3, <2>4
<1>20. CASE UNCHANGED vars
  BY <1>20 DEF Types, Position, Untouched, Processes, Learnt, Programs, Counts,
     VerdictsTrue, vars, runnerVars, testVars, Between, HasChild, Judged, Good, MoreToRun
<1> QED BY <1>1, <1>2, <1>3, <1>4, <1>5, <1>6, <1>7, <1>8, <1>9, <1>10, <1>11, <1>12,
   <1>13, <1>14, <1>15, <1>16, <1>17, <1>18, <1>19, <1>20 DEF Next, RunnerStep, TestStep,
   Rest

LEMMA InvHolds == Spec => []Inv
BY InitInv, NextInv, PTL DEF Spec

-----------------------------------------------------------------------------
(* What follows                                                            *)

\* The types of the variables, the bounds of the statistics included.
THEOREM TypeCorrect == Spec => []TypeOK
BY InvHolds, TypesImply, PTL

\* Whenever the alarm goes off, a test is reported as passed only if it ended with 0,
\* and as failed only if it ended by itself with another value or by a signal.
THEOREM VerdictsAreTrue == Spec => []VerdictsTrue
<1>1. Inv => VerdictsTrue
  BY DEF Inv
<1> QED BY <1>1, InvHolds, PTL

\* The statistics count the verdicts, and a run that ends with success has run every
\* wanted test, each of which ended with 0.
THEOREM ResultsAreTrue == Spec => []ResultsTrue
<1>1. ASSUME Inv PROVE ResultsTrue
  <2>1. Between =>
           /\ stats.ran = Cardinality(Judged) /\ stats.passed = Cardinality(Good)
           /\ stats.failed = stats.ran - stats.passed
    <3>1. Cardinality(Judged) \in Nat
      BY <1>1, CountBounds DEF Inv
    <3> QED BY <1>1, <3>1 DEF Inv, Counts
  <2>2. ASSUME pc = "end", stats.passed = stats.ran, NEW t \in options.wanted
        PROVE  how[t] = "exit0"
    <3>1. Judged = Good
      BY <1>1, <2>1, <2>2, CountBounds DEF Inv, Between
    <3>2. stats.failed = 0
      BY <1>1, <2>1, <2>2 DEF Inv, Types, Between
    <3>3. i > NumTests
      BY <1>1, <2>2, RunnerConstants DEF Inv, Types, Counts, MoreToRun
    <3>4. t \in Tests
      BY <1>1 DEF Inv, Types
    <3>5. verdict[t] # "none"
      BY <1>1, <3>3, RunnerConstants DEF Inv, Types, Counts, Tests
    <3> QED BY <1>1, <3>1, <3>4, <3>5 DEF Inv, VerdictsTrue, Judged, Good
  <2> QED BY <2>1, <2>2 DEF ResultsTrue, Between, Judged, Good
<1> QED BY <1>1, InvHolds, PTL

\* Without -f no test is run while the program of another, killed one still runs.
THEOREM ProgramsAreApart == Spec => []ProgramsApart
<1>1. ASSUME Inv PROVE ProgramsApart
  <2> SUFFICES ASSUME options.errors = 1, NEW t \in Tests, NEW u \in Tests,
                      child[t] \in Alive, program[u] = "running"
               PROVE  t = u
    BY DEF ProgramsApart
  <2>1. t = i /\ ~Between
    BY <1>1 DEF Inv, Processes, HasChild, Between
  <2>2. stats.failed = 1
    BY <1>1, <2>1 DEF Inv, Counts
  <2>3. Cardinality(Judged) = Cardinality(Good)
    BY <1>1, <2>1, CountBounds DEF Inv, Counts
  <2>4. verdict[u] # "timeout"
    BY <1>1, <2>3, CountBounds DEF Inv, Judged, Good
  <2> QED BY <1>1, <2>4 DEF Inv, Programs, Processes, Alive
<1> QED BY <1>1, InvHolds, PTL
=============================================================================
