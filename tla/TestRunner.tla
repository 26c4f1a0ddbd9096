----------------------------- MODULE TestRunner ------------------------------
(***************************************************************************)
(* testrunner.c, of which totw_p4 and totw_p5 have a copy each: a runner   *)
(* that forks a process for each test, kills it when an alarm goes off,    *)
(* and counts verdicts.  A test of totw_p4 forks the program it tests once *)
(* more and waits for it (run_test of lab4_tests.c).                       *)
(*                                                                         *)
(* The runner has one thread; the handler of SIGALRM runs between any two  *)
(* of its steps while the alarm is armed.  What a test checks is left out: *)
(* it ends with 0, with another value, by a signal, or never.              *)
(***************************************************************************)
EXTENDS Integers, FiniteSets

CONSTANT NumTests
ASSUME RunnerConstants == NumTests \in Nat

Tests == 1 .. NumTests
NoChild == 0
ForkError == -1

VARIABLES
    options,    \* wanted: the tests the target names; errors: max_errors_before_quit
    pc,         \* the runner
    i,          \* the test run_testrunner is at
    childPid,   \* child_pid; a child is named by its test
    sent,       \* sent_child_timeout_kill_signal
    armed,      \* the alarm is set
    passed,     \* passed of invoke_test_with_timelimit
    stats,      \* ran, passed, failed
    verdict,    \* what was printed of each test
    child,      \* the process of each test
    how,        \* how each test ended
    program     \* the process a test of totw_p4 forks

runnerVars == <<options, pc, i, childPid, sent, armed, passed, stats, verdict>>
testVars == <<child, how, program>>
vars == <<runnerVars, testVars>>

\* -f<n> sets max_errors_before_quit to atoi("f<n>"), which is 0: no maximum.
Init ==
    /\ options \in [wanted : SUBSET Tests, errors : {0, 1}]
    /\ pc = "next" /\ i = 1 /\ childPid = NoChild
    /\ sent = FALSE /\ armed = FALSE /\ passed = FALSE
    /\ stats = [ran |-> 0, passed |-> 0, failed |-> 0]
    /\ verdict = [t \in Tests |-> "none"]
    /\ child = [t \in Tests |-> "none"] /\ how = [t \in Tests |-> "none"]
    /\ program = [t \in Tests |-> "none"]

Alive == {"started", "forked", "checking"}

\* kill(pid, SIGKILL); a pid that has been reaped names no process any more.
Killed(t) ==
    IF t \in Tests /\ child[t] \in Alive THEN [child EXCEPT ![t] = "dying"] ELSE child

-----------------------------------------------------------------------------
(* The runner                                                              *)

\* The condition of the for loop of run_testrunner.
MoreToRun == i <= NumTests /\ (options.errors < 1 \/ stats.failed # options.errors)

SkipTest ==
    /\ pc = "next" /\ MoreToRun /\ i \notin options.wanted
    /\ i' = i + 1
    /\ UNCHANGED <<options, pc, childPid, sent, armed, passed, stats, verdict, testVars>>

\* run_one_test counts the test as failed until it has passed.
RunOneTest ==
    /\ pc = "next" /\ MoreToRun /\ i \in options.wanted
    /\ stats' = [stats EXCEPT !.ran = @ + 1, !.failed = @ + 1]
    /\ pc' = "fork"
    /\ UNCHANGED <<options, i, childPid, sent, armed, passed, verdict, testVars>>

\* assert(!child_pid) at the head of invoke_test_with_timelimit.
AssertionFails ==
    /\ pc = "fork" /\ childPid # NoChild
    /\ pc' = "aborted"
    /\ UNCHANGED <<options, i, childPid, sent, armed, passed, stats, verdict, testVars>>

Fork ==
    /\ pc = "fork" /\ childPid = NoChild
    /\ childPid' = i
    /\ child' = [child EXCEPT ![i] = "started"]
    /\ pc' = "arm"
    /\ UNCHANGED <<options, i, sent, armed, passed, stats, verdict, how, program>>

\* The test is called in the runner's own process, and child_pid keeps its -1.
ForkFails ==
    /\ pc = "fork" /\ childPid = NoChild
    /\ childPid' = ForkError
    /\ pc' = "inline"
    /\ UNCHANGED <<options, i, sent, armed, passed, stats, verdict, testVars>>

Arm ==
    /\ pc = "arm"
    /\ sent' = FALSE /\ armed' = TRUE
    /\ pc' = "wait"
    /\ UNCHANGED <<options, i, childPid, passed, stats, verdict, testVars>>

\* waitpid returns the child; it passes if it exited with 0.
Reap ==
    /\ pc = "wait" /\ child[childPid] = "zombie"
    /\ child' = [child EXCEPT ![childPid] = "reaped"]
    /\ passed' = (how[childPid] = "exit0")
    /\ pc' = "disarm"
    /\ UNCHANGED <<options, i, childPid, sent, armed, stats, verdict, how, program>>

\* Mutant of Disarm: alarm(0) is missing.
DisarmNothing ==
    /\ pc = "disarm"
    /\ pc' = "kill"
    /\ UNCHANGED <<options, i, childPid, sent, armed, passed, stats, verdict, testVars>>

Disarm ==
    /\ pc = "disarm"
    /\ armed' = FALSE
    /\ pc' = "kill"
    /\ UNCHANGED <<options, i, childPid, sent, passed, stats, verdict, testVars>>

\* Mutant of Verdict: a test that was killed counts as passed.
VerdictLenient == IF sent \/ passed THEN "pass" ELSE "fail"

Verdict == IF sent THEN "timeout" ELSE IF passed THEN "pass" ELSE "fail"

\* Mutant of Counted: a timeout counts neither as passed nor as failed.
CountedUnlessKilled(result) ==
    /\ verdict' = [verdict EXCEPT ![i] = result]
    /\ stats' = CASE result = "pass" -> [stats EXCEPT !.failed = @ - 1, !.passed = @ + 1]
                 [] result = "timeout" -> [stats EXCEPT !.failed = @ - 1]
                 [] OTHER -> stats
    /\ i' = i + 1
    /\ pc' = "next"

\* run_one_test takes back the failure it had counted; the loop goes on.
Counted(result) ==
    /\ verdict' = [verdict EXCEPT ![i] = result]
    /\ stats' = IF result = "pass"
                THEN [stats EXCEPT !.failed = @ - 1, !.passed = @ + 1] ELSE stats
    /\ i' = i + 1
    /\ pc' = "next"

Return ==
    /\ pc = "kill"
    /\ child' = Killed(childPid) /\ childPid' = NoChild
    /\ Counted(Verdict)
    /\ UNCHANGED <<options, sent, armed, passed, how, program>>

\* A test in the runner's process returns 0 or 1, or ends the runner with itself:
\* quit_if calls exit.
InlineReturns ==
    /\ pc = "inline"
    /\ \E result \in {"pass", "fail"} :
          /\ how' = [how EXCEPT ![i] = IF result = "pass" THEN "exit0" ELSE "exit1"]
          /\ Counted(result)
    /\ UNCHANGED <<options, childPid, sent, armed, passed, child, program>>

InlineExits ==
    /\ pc = "inline"
    /\ pc' = "exited"
    /\ UNCHANGED <<options, i, childPid, sent, armed, passed, stats, verdict, testVars>>

Finish ==
    /\ pc = "next" /\ ~MoreToRun
    /\ pc' = "end"
    /\ UNCHANGED <<options, i, childPid, sent, armed, passed, stats, verdict, testVars>>

RunnerStep ==
    \/ SkipTest \/ RunOneTest \/ AssertionFails \/ Fork \/ ForkFails \/ Arm \/ Reap
    \/ Disarm \/ Return \/ InlineReturns \/ InlineExits \/ Finish

Over == pc \in {"end", "aborted", "exited"}

\* Mutant of TimeoutKill: nobody is killed.
TimeoutKillNobody == UNCHANGED child /\ sent' = TRUE

TimeoutKill == child' = Killed(childPid) /\ sent' = TRUE

\* kill_child_signal_handler.  action.sa_flags is never set: if it happens not to
\* hold SA_RESTART, the handler makes waitpid return -1, with which no test passes.
Alarm ==
    /\ armed /\ ~Over
    /\ armed' = FALSE
    /\ IF childPid = NoChild THEN UNCHANGED <<child, sent>> ELSE TimeoutKill
    /\ \/ UNCHANGED <<pc, passed>>
       \/ pc = "wait" /\ pc' = "disarm" /\ passed' = FALSE
    /\ UNCHANGED <<options, i, childPid, stats, verdict, how, program>>

-----------------------------------------------------------------------------
(* The process of a test                                                   *)

\* run_test of totw_p4 forks the program and waits for it.
ForkProgram(t) ==
    /\ child[t] = "started"
    /\ child' = [child EXCEPT ![t] = "forked"]
    /\ program' = [program EXCEPT ![t] = "running"]
    /\ UNCHANGED <<runnerVars, how>>

\* A test of totw_p5 is checked in its own process, as one of totw_p4 is whose fork
\* failed: it then reads the output another program may have left.
NoProgram(t) ==
    /\ child[t] = "started"
    /\ child' = [child EXCEPT ![t] = "checking"]
    /\ UNCHANGED <<runnerVars, how, program>>

ProgramEnds(t) ==
    /\ program[t] = "running"
    /\ program' = [program EXCEPT ![t] = "ended"]
    /\ UNCHANGED <<runnerVars, child, how>>

ProgramWaitedFor(t) ==
    /\ child[t] = "forked" /\ program[t] = "ended"
    /\ child' = [child EXCEPT ![t] = "checking"]
    /\ UNCHANGED <<runnerVars, how, program>>

TestEnds(t) ==
    /\ child[t] = "checking"
    /\ \E h \in {"exit0", "exit1", "signal"} : how' = [how EXCEPT ![t] = h]
    /\ child' = [child EXCEPT ![t] = "zombie"]
    /\ UNCHANGED <<runnerVars, program>>

\* SIGKILL reaches the process of the test, and not the program it has forked.
Die(t) ==
    /\ child[t] = "dying"
    /\ child' = [child EXCEPT ![t] = "zombie"]
    /\ how' = [how EXCEPT ![t] = "killed"]
    /\ UNCHANGED <<runnerVars, program>>

TestStep(t) ==
    ForkProgram(t) \/ NoProgram(t) \/ ProgramEnds(t) \/ ProgramWaitedFor(t) \/ TestEnds(t)

Rest == Over /\ UNCHANGED vars

Next == RunnerStep \/ Alarm \/ (\E t \in Tests : TestStep(t) \/ Die(t)) \/ Rest

Spec == Init /\ [][Next]_vars

\* The runner is scheduled, time passes, and SIGKILL is obeyed.  Tests may hang.
FairSpec ==
    /\ Spec
    /\ WF_vars(RunnerStep) /\ WF_vars(Alarm)
    /\ \A t \in Tests : WF_vars(Die(t))

-----------------------------------------------------------------------------
(* Correctness                                                             *)

\* The types of the variables.
TypeOK ==
    /\ options \in [wanted : SUBSET Tests, errors : {0, 1}]
    /\ pc \in {"next", "fork", "arm", "wait", "disarm", "kill", "inline",
               "end", "aborted", "exited"}
    /\ i \in 1 .. NumTests + 1 /\ childPid \in Tests \cup {NoChild, ForkError}
    /\ sent \in BOOLEAN /\ armed \in BOOLEAN /\ passed \in BOOLEAN
    /\ stats \in [ran : 0 .. NumTests, passed : 0 .. NumTests, failed : 0 .. NumTests]
    /\ verdict \in [Tests -> {"none", "pass", "fail", "timeout"}]
    /\ child \in [Tests -> Alive \cup {"none", "dying", "zombie", "reaped"}]
    /\ how \in [Tests -> {"none", "exit0", "exit1", "signal", "killed"}]
    /\ program \in [Tests -> {"none", "running", "ended"}]

\* Wherever the alarm strikes, a test is reported as passed only if it ended with 0,
\* and as failed only if it ended by itself: the runner never kills a test, or the
\* next one, and calls that a failure of the test.
VerdictsTrue ==
    \A t \in Tests :
        /\ verdict[t] = "pass" => how[t] = "exit0"
        /\ verdict[t] = "fail" => how[t] \in {"exit1", "signal"}

\* The statistics count each test once, as what was printed of it; and run_testrunner
\* returns 0 (all that ran have passed, some target matched) only if every wanted
\* test has run and ended with 0: the early exit from the loop hides none.
ResultsTrue ==
    /\ pc \in {"next", "end"} =>
          /\ stats.ran = Cardinality({t \in Tests : verdict[t] # "none"})
          /\ stats.passed = Cardinality({t \in Tests : verdict[t] = "pass"})
          /\ stats.failed = stats.ran - stats.passed
    /\ (pc = "end" /\ stats.passed = stats.ran /\ options.wanted # {}) =>
          \A t \in options.wanted : how[t] = "exit0"

\* Without -f, no program that outlived its test still runs, and writes smp4.out,
\* while another test is being run: the kill does not reach it, but ends the run.
ProgramsApart ==
    options.errors = 1 =>
        \A t, u \in Tests : child[t] \in Alive /\ program[u] = "running" => t = u

\* The run ends although tests may hang, whenever the alarm goes off and whether or
\* not it interrupts waitpid; a test in the runner's own process has no alarm.
RunnerEnds == <>(Over \/ pc = "inline")
=============================================================================
