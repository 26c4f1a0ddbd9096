-------------------------------- MODULE Shell --------------------------------
(***************************************************************************)
(* totw_p2: the shell of shell.c, which forks a child for each command of  *)
(* a line and waits for all of them.  A child whose execvp fails returns   *)
(* from run_cmd into main's own loop, so a process that runs main is a     *)
(* record with its copy of main's variables, whichever process it is.      *)
(*                                                                         *)
(* A command is what becomes of it: a program, a name that execvp does not *)
(* find, exit (or quit), or blanks only.  The text of a line, the prompt   *)
(* and the command-line arguments are left out.                            *)
(***************************************************************************)
EXTENDS Integers, Sequences, FiniteSets, SequencesExt

CONSTANTS
    MaxLines,       \* bound: the lines of the input
    MaxCommands,    \* bound: the commands of a line
    Codes           \* the wait statuses a program may end with

Shell == 1                                  \* the process started by the user
Pids == 1 .. 1 + MaxLines * MaxCommands     \* the processes the system has room for
Junk == -2                                  \* stands for an int of malloc'ed memory not yet set
Aborted == 6                                \* wait status of abort() and of a
Segfault == 11                              \* bad access
ASSUME ShellConstants ==
    /\ MaxLines \in Nat /\ MaxCommands \in Nat
    /\ Codes \subseteq Nat /\ 0 \in Codes

Commands == {"program", "unknown", "exit", "blank"}
Lines == UNION {[1 .. n -> Commands] : n \in 0 .. MaxCommands}

VARIABLES
    input,      \* lines: what the file holds or the user types; cut: a file whose
                \* last line has no newline
    procs,      \* each process
    reports     \* the error lines printed: who, on which pid, with which status

vars == <<input, procs, reports>>

\* A process that runs main: pc, line (how many it has read), i, pids[], should_run
\* and status.  Of any process: its parent, the command it was forked for, and the
\* wait status it ended with.
NoProc ==
    [pc |-> "none", parent |-> 0, job |-> <<0, 0>>, code |-> 0,
     line |-> 0, i |-> 1, pids |-> <<>>, run |-> TRUE, status |-> 0]

Init ==
    /\ input \in [lines : UNION {[1 .. n -> Lines] : n \in 0 .. MaxLines}, cut : BOOLEAN]
    /\ procs = [p \in Pids |-> IF p = Shell THEN [NoProc EXCEPT !.pc = "read"] ELSE NoProc]
    /\ reports = {}

At(p, pc) == procs[p].pc = pc
Line(p) == input.lines[procs[p].line]
Ended(p) == procs[p].pc \in {"dead", "reaped"}

\* The lines that are read: fget_input drops the characters before an EOF.
Readable == Len(input.lines) - (IF input.cut /\ input.lines # <<>> THEN 1 ELSE 0)

-----------------------------------------------------------------------------
(* main, run by the shell and by the children whose execvp failed          *)

\* The head of the while loop, and a line read and split at its semicolons.
ReadLine(p) ==
    /\ At(p, "read") /\ procs[p].run /\ procs[p].line < Readable
    /\ LET n == Len(input.lines[procs[p].line + 1])
       IN  procs' = [procs EXCEPT ![p] =
                        [@ EXCEPT !.pc = "start", !.line = procs[p].line + 1, !.i = 1,
                                  !.pids = [k \in 1 .. n |-> Junk]]]
    /\ UNCHANGED <<input, reports>>

\* Mutant of ReadEof: NULL does not end the loop.
ReadEofOn(p) ==
    /\ At(p, "read") /\ procs[p].run /\ procs[p].line = Readable
    /\ UNCHANGED vars

ReadEof(p) ==
    /\ At(p, "read") /\ procs[p].run /\ procs[p].line = Readable
    /\ procs' = [procs EXCEPT ![p].run = FALSE]
    /\ UNCHANGED <<input, reports>>

\* in and pids are freed in the loop and again after it.  Once a line has been read
\* the second free of pids is undefined: the allocator aborts, or exit(0) is reached.
Leave(p) ==
    /\ At(p, "read") /\ ~procs[p].run
    /\ \E code \in IF procs[p].line > 0 THEN {0, Aborted} ELSE {0} :
          procs' = [procs EXCEPT ![p].pc = "dead", ![p].code = code]
    /\ UNCHANGED <<input, reports>>

\* pids[i] = value; -1 ends the while loop after this line.
Stored(p, value) ==
    [procs EXCEPT ![p] =
        [@ EXCEPT !.i = procs[p].i + 1, !.pids[procs[p].i] = value,
                  !.run = procs[p].run /\ value # -1]]

Starting(p, command) ==
    /\ At(p, "start") /\ procs[p].i <= Len(procs[p].pids)
    /\ Line(p)[procs[p].i] = command

\* Mutant of Exit: exit is stored but the loop goes on.
ExitUnheard(p) ==
    /\ Starting(p, "exit")
    /\ procs' = [Stored(p, -1) EXCEPT ![p].run = procs[p].run]
    /\ UNCHANGED <<input, reports>>

Exit(p) ==
    /\ Starting(p, "exit")
    /\ procs' = Stored(p, -1)
    /\ UNCHANGED <<input, reports>>

\* args[0] is NULL, and strncmp reads it.
Blank(p) ==
    /\ Starting(p, "blank")
    /\ procs' = [procs EXCEPT ![p].pc = "dead", ![p].code = Segfault]
    /\ UNCHANGED <<input, reports>>

\* fork() copies the process; the child is in run_cmd, before execvp.
Fork(p) ==
    /\ Starting(p, "program") \/ Starting(p, "unknown")
    /\ \E q \in Pids :
          /\ At(q, "none") /\ \A r \in Pids : r < q => ~At(r, "none")
          /\ procs' = [Stored(p, q) EXCEPT ![q] =
                          [procs[p] EXCEPT !.pc = "exec", !.parent = p,
                                           !.job = <<procs[p].line, procs[p].i>>]]
    /\ UNCHANGED <<input, reports>>

\* run_cmd returns fork's -1, which main takes for exit.
ForkFails(p) ==
    /\ Starting(p, "program") \/ Starting(p, "unknown")
    /\ procs' = Stored(p, -1)
    /\ UNCHANGED <<input, reports>>

\* Mutants of AllStarted: the second loop begins one place before the array, or
\* where the first one ended.
AllStartedBefore(p) ==
    /\ At(p, "start") /\ procs[p].i > Len(procs[p].pids)
    /\ procs' = [procs EXCEPT ![p].pc = "wait", ![p].i = 0]
    /\ UNCHANGED <<input, reports>>

AllStartedOnly(p) ==
    /\ At(p, "start") /\ procs[p].i > Len(procs[p].pids)
    /\ procs' = [procs EXCEPT ![p].pc = "wait"]
    /\ UNCHANGED <<input, reports>>

AllStarted(p) ==
    /\ At(p, "start") /\ procs[p].i > Len(procs[p].pids)
    /\ procs' = [procs EXCEPT ![p].pc = "wait", ![p].i = 1]
    /\ UNCHANGED <<input, reports>>

\* What waitpid(pid) can return to p: a child it has, any of them for 0 and -1.
Waitable(p, pid) ==
    {q \in Pids : procs[q].parent = p /\ ~At(q, "reaped") /\ (pid > 0 => q = pid)}

\* The value read from pids[i]: memory not set may hold anything.
PidsRead(p) ==
    LET v == procs[p].pids[procs[p].i] IN IF v = Junk THEN {-1, 0} \cup Pids ELSE {v}

\* After waitpid, main prints status if it is not 0, also when waitpid failed and
\* left in it what an earlier call had stored.
WaitedFor(p, pid, q, status) ==
    /\ procs' = [r \in Pids |->
                    IF r = p THEN [procs[p] EXCEPT !.i = @ + 1, !.status = status]
                    ELSE IF r = q THEN [procs[r] EXCEPT !.pc = "reaped"]
                    ELSE procs[r]]
    /\ reports' = IF status = 0 THEN reports
                  ELSE reports \cup {[by |-> p, on |-> pid, status |-> status]}

Waiting(p) == At(p, "wait") /\ procs[p].i <= Len(procs[p].pids)

\* Mutant of Unforked: the test is missing, and waitpid is given the -1.
UnforkedNever(pid) == FALSE

\* An exit, or a fork that failed: main's loop continues with the next.
Unforked(pid) == pid < 0

SkipUnforked(p) ==
    /\ Waiting(p)
    /\ \E pid \in PidsRead(p) : Unforked(pid)
    /\ procs' = [procs EXCEPT ![p].i = @ + 1]
    /\ UNCHANGED <<input, reports>>

\* ECHILD: p has no such child.
WaitFails(p) ==
    /\ Waiting(p)
    /\ \E pid \in PidsRead(p) :
          /\ ~Unforked(pid) /\ Waitable(p, pid) = {}
          /\ WaitedFor(p, pid, 0, procs[p].status)
    /\ UNCHANGED input

WaitReturns(p) ==
    /\ Waiting(p)
    /\ \E pid \in PidsRead(p) :
          /\ ~Unforked(pid)
          /\ \E q \in Waitable(p, pid) : At(q, "dead") /\ WaitedFor(p, pid, q, procs[q].code)
    /\ UNCHANGED input

\* Back to the head of the while loop.
LineDone(p) ==
    /\ At(p, "wait") /\ procs[p].i > Len(procs[p].pids)
    /\ procs' = [procs EXCEPT ![p].pc = "read"]
    /\ UNCHANGED <<input, reports>>

MainStep(p) ==
    \/ ReadLine(p) \/ ReadEof(p) \/ Leave(p)
    \/ Exit(p) \/ Blank(p) \/ Fork(p) \/ ForkFails(p) \/ AllStarted(p)
    \/ SkipUnforked(p) \/ WaitFails(p) \/ WaitReturns(p) \/ LineDone(p)

-----------------------------------------------------------------------------
(* A child in run_cmd, and the program it becomes                          *)

CommandOf(p) == input.lines[procs[p].job[1]][procs[p].job[2]]

\* Mutant of ExecFails: main does not leave its for loop in the child.
ExecFailsOn(p) ==
    /\ At(p, "exec") /\ CommandOf(p) = "unknown"
    /\ procs' = [procs EXCEPT ![p] =
                    [@ EXCEPT !.pc = "start", !.run = FALSE, !.i = procs[p].i + 1,
                              !.pids[procs[p].i] = 0]]
    /\ UNCHANGED <<input, reports>>

\* run_cmd returns 0, fork's value in the child: main breaks out of its for loop.
ExecFails(p) ==
    /\ At(p, "exec") /\ CommandOf(p) = "unknown"
    /\ procs' = [procs EXCEPT ![p] =
                    [@ EXCEPT !.pc = "wait", !.run = FALSE, !.i = 1, !.pids[procs[p].i] = 0]]
    /\ UNCHANGED <<input, reports>>

Exec(p) ==
    /\ At(p, "exec") /\ CommandOf(p) = "program"
    /\ procs' = [procs EXCEPT ![p].pc = "program"]
    /\ UNCHANGED <<input, reports>>

ProgramEnds(p) ==
    /\ At(p, "program")
    /\ \E code \in Codes : procs' = [procs EXCEPT ![p].pc = "dead", ![p].code = code]
    /\ UNCHANGED <<input, reports>>

ChildStep(p) == ExecFails(p) \/ Exec(p) \/ ProgramEnds(p)

Rest == (\A p \in Pids : At(p, "none") \/ Ended(p)) /\ UNCHANGED vars

Next == (\E p \in Pids : MainStep(p) \/ ChildStep(p)) \/ Rest

\* Every process is scheduled, and programs end by themselves.
Spec == Init /\ [][Next]_vars
FairSpec == Spec /\ \A p \in Pids : WF_vars(MainStep(p)) /\ WF_vars(ChildStep(p))

-----------------------------------------------------------------------------
(* Correctness                                                             *)

Children == {p \in Pids \ {Shell} : ~At(p, "none")}

\* The types of the variables.
TypeOK ==
    /\ input.lines \in Seq(Lines) /\ input.cut \in BOOLEAN
    /\ \A p \in Pids :
          /\ procs[p].pc \in {"none", "read", "start", "wait", "exec", "program", "dead", "reaped"}
          /\ procs[p].parent \in 0 .. p - 1
          /\ procs[p].code \in Codes \cup {0, Aborted, Segfault}
          /\ procs[p].line \in 0 .. Len(input.lines)
          /\ procs[p].i \in 1 .. Len(procs[p].pids) + 1
          /\ \A k \in DOMAIN procs[p].pids : procs[p].pids[k] \in Pids \cup {-1, 0, Junk}
    /\ reports \subseteq [by : Pids, on : Pids \cup {0}, status : Nat]

\* README:34-36, commands of a line run concurrently and "the shell will not accept
\* new input until all have terminated"; each is started at most once, in order.
CommandCount == Cardinality(Children)
Batches == INSTANCE JobBatches
    WITH Jobs <- (1 .. MaxLines) \X (1 .. MaxCommands),
         started <- [k \in 1 .. CommandCount |-> procs[k + 1].job],
         live <- {procs[p].job : p \in {q \in Children : ~Ended(q)}}
BatchSpec == Batches!BatchSpec

\* A child that runs on in main after a failed execvp does none of the shell's work:
\* it reads no line, forks nothing and takes no other process's wait status.
OnlyShellServes ==
    \A p \in Children :
        /\ procs[p].parent = Shell
        /\ At(p, "read") => ~procs[p].run
        /\ procs[p].line = procs[p].job[1] /\ ~At(p, "start")

\* The error lines of the shell itself are the commands that ended with a status
\* other than 0, each under its own pid: a failed fork or an exit among them does
\* not shift them.  (Those of a failed child may be left over from the shell.)  And
\* the shell has waited for every process it forked when it reads the next line and
\* when it exits: none is left as a zombie.
ReportsTrue ==
    /\ {[on |-> r.on, status |-> r.status] : r \in {s \in reports : s.by = Shell}}
        = {[on |-> p, status |-> procs[p].code] :
              p \in {q \in Children : At(q, "reaped") /\ procs[q].code # 0}}
    /\ (At(Shell, "read") \/ (At(Shell, "dead") /\ procs[Shell].code # Segfault)) =>
          \A p \in Children : At(p, "reaped")

\* README:31-38, the shell exits only when the input has ended, a line it has read
\* holds exit, or a fork has failed; and it reads no line after one with an exit.
Refused(p) == -1 \in ToSet(procs[p].pids)
StopsWhenTold ==
    /\ (At(Shell, "dead") /\ procs[Shell].code # Segfault) =>
          procs[Shell].line = Readable \/ Refused(Shell)
    /\ \A k \in 1 .. procs[Shell].line - 1 : "exit" \notin ToSet(input.lines[k])

\* The shell comes to its end: no child makes it wait for ever, and no child that
\* runs main waits for the others.
Ends == <>(At(Shell, "dead") /\ \A p \in Children : Ended(p))
=============================================================================
