----------------------------- MODULE ShellProofs -----------------------------
(***************************************************************************)
(* Theorems about Shell for every bound on the input and every set of      *)
(* wait statuses.                                                          *)
(***************************************************************************)
EXTENDS Shell, FiniteSetTheorems, NaturalsInduction, SequenceTheorems,
        WellFoundedInduction, TLAPS

Pcs == {"none", "read", "start", "wait", "exec", "program", "dead", "reaped"}
Statuses == Codes \cup {0, Aborted, Segfault}
Places == Pids \cup {-1, 0, Junk}           \* what an element of pids may hold
Pairs == Nat \X Nat
Process ==
    [pc : Pcs, parent : {0, Shell}, job : Pairs, code : Statuses, line : Nat,
     i : Nat, pids : Seq(Places), run : BOOLEAN, status : Nat]
Report == [by : Pids, on : Pids \cup {0}, status : Nat]

\* Where the cursors of a process are.
Bounded(p) ==
    /\ procs[p].line <= Len(input.lines)
    /\ procs[p].i \in 1 .. Len(procs[p].pids) + 1

Types ==
    /\ input.lines \in Seq(Lines) /\ Len(input.lines) <= MaxLines /\ input.cut \in BOOLEAN
    /\ procs \in [Pids -> Process]
    /\ \A p \in Pids : Bounded(p)
    /\ reports \subseteq Report

\* The processes that exist are the first ones.
Numbered == \A p, q \in Pids : At(p, "none") /\ p < q => At(q, "none")

\* The shell's own process, which is not a child of anybody here.
ShellRuns ==
    /\ procs[Shell].parent = 0
    /\ procs[Shell].pc \in {"read", "start", "wait", "dead"}
    /\ At(Shell, "start") \/ At(Shell, "wait") => procs[Shell].line > 0
    /\ procs[Shell].line > 0 => Len(procs[Shell].pids) = Len(Line(Shell))

\* A process that does not exist has no parent; a child keeps the line it was forked
\* in, starts nothing and has left main's while loop.
ChildRuns(p) ==
    /\ procs[p].parent = Shell /\ procs[p].line = procs[p].job[1]
    /\ ~At(p, "start")
    /\ At(p, "read") \/ At(p, "wait") => ~procs[p].run

ChildrenRun ==
    /\ \A p \in Pids : At(p, "none") => procs[p].parent = 0
    /\ \A p \in Children : ChildRuns(p)

\* The job of a child is the place its pid has in the shell's array.
Placed(p) ==
    /\ procs[p].job[1] \in 1 .. procs[Shell].line
    /\ procs[p].job[2] \in 1 .. MaxCommands
    /\ procs[p].job[1] = procs[Shell].line =>
          /\ procs[p].job[2] \in 1 .. Len(procs[Shell].pids)
          /\ procs[Shell].pids[procs[p].job[2]] = p
          /\ At(Shell, "start") => procs[p].job[2] < procs[Shell].i

\* A place of the array holds the child forked for it, or -1.
Holds(k) ==
    LET v == procs[Shell].pids[k]
    IN  v = -1 \/ (v \in Children /\ procs[v].job = <<procs[Shell].line, k>>)

Slots ==
    At(Shell, "start") \/ At(Shell, "wait") =>
        \A k \in 1 .. Len(procs[Shell].pids) :
            IF At(Shell, "start") /\ k >= procs[Shell].i THEN procs[Shell].pids[k] = Junk
            ELSE Holds(k)

Before(a, b) == a[1] < b[1] \/ (a[1] = b[1] /\ a[2] < b[2])
Ordered == \A p, q \in Children : p < q => Before(procs[p].job, procs[q].job)

\* The children the shell has waited for: those of the earlier lines, and those of
\* this line that its second loop has passed.
WaitedOn(p) ==
    \/ procs[p].job[1] < procs[Shell].line
    \/ At(Shell, "read")
    \/ At(Shell, "wait") /\ procs[p].job[2] < procs[Shell].i
    \/ At(Shell, "dead") /\ procs[Shell].code # Segfault
ReapedInOrder == \A p \in Children : At(p, "reaped") <=> WaitedOn(p)

\* The error lines of the shell.
ShellReports ==
    \A r \in reports :
        r.by = Shell => r.on \in Children /\ At(r.on, "reaped")
                        /\ r.status = procs[r.on].code /\ r.status # 0
Reported ==
    \A p \in Children :
        At(p, "reaped") /\ procs[p].code # 0 =>
            \E r \in reports : r.by = Shell /\ r.on = p /\ r.status = procs[p].code

\* Why the while loop ends, and that it ends after a line with an exit.
NoExit(k) == \A n \in 1 .. Len(input.lines[k]) : input.lines[k][n] # "exit"
Stops ==
    /\ At(Shell, "dead") /\ procs[Shell].code # Segfault => ~procs[Shell].run
    /\ ~procs[Shell].run => procs[Shell].line = Readable \/ Refused(Shell)
    /\ \A k \in 1 .. procs[Shell].line - 1 : NoExit(k)
ExitHeard ==
    procs[Shell].run /\ procs[Shell].line > 0 /\ ~At(Shell, "dead") =>
        \A n \in 1 .. Len(procs[Shell].pids) :
            (At(Shell, "start") /\ n >= procs[Shell].i) \/ Line(Shell)[n] # "exit"

IInv ==
    /\ Types /\ Numbered /\ ShellRuns /\ ChildrenRun
    /\ \A p \in Children : Placed(p)
    /\ Slots /\ Ordered /\ ReapedInOrder
    /\ ShellReports /\ Reported /\ Stops /\ ExitHeard

-----------------------------------------------------------------------------
(* Lemmas                                                                  *)

LEMMA PidsAreNumbers ==
    /\ MaxLines \in Nat /\ MaxCommands \in Nat /\ MaxLines * MaxCommands \in Nat
    /\ Pids \subseteq Nat \ {0} /\ Shell \in Pids
    /\ Children \subseteq Pids /\ Shell \notin Children
    /\ \A p \in Pids : p # Shell => p > Shell
    /\ Statuses \subseteq Nat
<1>1. MaxLines \in Nat /\ MaxCommands \in Nat /\ Codes \subseteq Nat
  BY ShellConstants
<1>2. MaxLines * MaxCommands \in Nat
  BY <1>1
<1>3. PICK m \in Nat : m = MaxLines * MaxCommands
  BY <1>2
<1>4. Pids = 1 .. 1 + m
  BY <1>3 DEF Pids
<1> QED
  BY <1>1, <1>2, <1>4 DEF Shell, Children, Statuses, Aborted, Segfault

\* Lines are sequences of commands.
LEMMA LineTyped ==
    ASSUME Types, NEW k \in 1 .. Len(input.lines)
    PROVE  input.lines[k] \in Seq(Commands) /\ Len(input.lines[k]) \in 0 .. MaxCommands
<1>1. input.lines[k] \in Lines
  BY ElementOfSeq DEF Types
<1>2. PICK n \in 0 .. MaxCommands : input.lines[k] \in [1 .. n -> Commands]
  BY <1>1 DEF Lines
<1>3. n \in Nat
  BY <1>2, PidsAreNumbers
<1> QED BY <1>2, <1>3

LEMMA ReadableBound ==
    ASSUME Types
    PROVE  Readable \in 0 .. Len(input.lines)
<1>1. Len(input.lines) \in Nat /\ (input.lines # <<>> => Len(input.lines) > 0)
      /\ input.cut \in BOOLEAN
  BY EmptySeq, LenProperties DEF Types
<1>2. CASE input.cut /\ input.lines # <<>>
  BY <1>1, <1>2 DEF Readable
<1>3. CASE ~(input.cut /\ input.lines # <<>>)
  <2>1. Readable = Len(input.lines) - 0
    BY <1>3, Zenon DEF Readable
  <2> QED BY <1>1, <2>1
<1> QED BY <1>2, <1>3

\* What writing one process leaves alone.
LEMMA Written ==
    ASSUME procs \in [Pids -> Process], NEW p \in Pids, NEW new \in Process,
           procs' = [procs EXCEPT ![p] = new]
    PROVE  /\ procs' \in [Pids -> Process] /\ procs'[p] = new
           /\ \A q \in Pids : q # p => procs'[q] = procs[q]
OBVIOUS

\* A child that goes on by itself: no action of a child needs more than this.
LEMMA ChildGoesOn ==
    ASSUME IInv, NEW p \in Children, ~At(p, "reaped"), input' = input,
           procs' \in [Pids -> Process],
           \A q \in Pids : q # p => procs'[q] = procs[q],
           procs'[p].parent = procs[p].parent, procs'[p].job = procs[p].job,
           procs'[p].line = procs[p].line,
           procs'[p].i \in 1 .. Len(procs'[p].pids) + 1,
           procs'[p].pc \notin {"none", "start", "reaped"},
           procs'[p].pc \in {"read", "wait"} => ~procs'[p].run,
           reports \subseteq reports', reports' \subseteq Report,
           \A r \in reports' : r.by = Shell => r \in reports
    PROVE  IInv'
<1>1. p \in Pids /\ p # Shell /\ Shell \in Pids /\ procs[p].pc # "none"
  BY PidsAreNumbers DEF Children, At
<1>2. procs'[Shell] = procs[Shell] /\ Children' = Children
  BY <1>1 DEF Children, At
<1>3. /\ \A q \in Pids : procs'[q].job = procs[q].job /\ procs'[q].line = procs[q].line
         /\ procs'[q].parent = procs[q].parent
      /\ \A q \in Pids : At(q, "none")' = At(q, "none") /\ At(q, "reaped")' = At(q, "reaped")
      /\ \A q \in Pids, c \in Pcs : q # p => At(q, c)' = At(q, c)
  BY <1>1 DEF At
<1>4. Types'
  BY <1>1 DEF IInv, Types, Bounded
<1>5. Numbered' /\ Ordered'
  BY <1>2, <1>3, PidsAreNumbers DEF IInv, Numbered, Ordered
<1>6. ShellRuns'
  BY <1>2 DEF IInv, ShellRuns, At, Line
<1>7. ChildrenRun'
  BY <1>1, <1>2, <1>3 DEF IInv, ChildrenRun, ChildRuns, At, Pcs, Children
<1>8. \A q \in Children' : Placed(q)'
  BY <1>2, <1>3, PidsAreNumbers DEF IInv, Placed, At
<1>9. Slots'
  <2>1. \A q \in Children : procs'[q].job = procs[q].job
    BY <1>3, PidsAreNumbers
  <2> QED BY <1>2, <2>1 DEF IInv, Slots, Holds, At
<1>10. ReapedInOrder'
  <2>1. \A q \in Children : procs'[q].job = procs[q].job /\ (At(q, "reaped")' <=> At(q, "reaped"))
    BY <1>3, PidsAreNumbers
  <2>2. \A q \in Children : WaitedOn(q)' <=> WaitedOn(q)
    BY <1>2, <2>1 DEF WaitedOn, At
  <2> QED BY <1>2, <2>1, <2>2 DEF IInv, ReapedInOrder
<1>11. \A q \in Children : At(q, "reaped") => procs'[q] = procs[q]
  BY PidsAreNumbers
<1>12. ShellReports'
  BY <1>2, <1>11 DEF IInv, ShellReports, At
<1>13. Reported'
  <2>1. \A q \in Children : At(q, "reaped")' = At(q, "reaped")
    BY <1>3, PidsAreNumbers
  <2> QED BY <1>2, <1>11, <2>1 DEF IInv, Reported
<1>14. Stops' /\ ExitHeard'
  BY <1>2 DEF IInv, Stops, ExitHeard, NoExit, Readable, Refused, At, Line
<1> QED BY <1>4, <1>5, <1>6, <1>7, <1>8, <1>9, <1>10, <1>12, <1>13, <1>14 DEF IInv

\* A step of the shell that leaves its children and the printed lines alone.
LEMMA ShellAlone ==
    ASSUME IInv, UNCHANGED <<input, reports>>, procs' \in [Pids -> Process],
           \A q \in Pids : q # Shell => procs'[q] = procs[q],
           procs'[Shell].pc # "none"
    PROVE  /\ Children' = Children
           /\ \A q \in Children : procs'[q] = procs[q]
           /\ Numbered' /\ ChildrenRun' /\ Ordered' /\ ShellReports' /\ Reported'
<1>1. Shell \in Pids /\ procs[Shell].pc # "none"
  BY PidsAreNumbers DEF IInv, ShellRuns
<1>2. Children' = Children /\ \A q \in Children : procs'[q] = procs[q]
  BY <1>1 DEF Children, At
<1>3. Numbered'
  BY <1>1 DEF IInv, Numbered, At
<1>4. ChildrenRun'
  BY <1>1, <1>2 DEF IInv, ChildrenRun, ChildRuns, At
<1>5. Ordered'
  BY <1>2 DEF IInv, Ordered
<1>6. ShellReports' /\ Reported'
  BY <1>2 DEF IInv, ShellReports, Reported, At
<1> QED BY <1>2, <1>3, <1>4, <1>5, <1>6

\* The invariant but for what such a step preserves.
ShellOwn ==
    /\ Types /\ ShellRuns /\ (\A p \in Children : Placed(p))
    /\ Slots /\ ReapedInOrder /\ Stops /\ ExitHeard

LEMMA ShellStep ==
    ASSUME IInv, UNCHANGED <<input, reports>>, procs' \in [Pids -> Process],
           \A q \in Pids : q # Shell => procs'[q] = procs[q],
           procs'[Shell].pc # "none", ShellOwn'
    PROVE  IInv'
BY ShellAlone DEF IInv, ShellOwn

-----------------------------------------------------------------------------
(* The actions of the shell                                                *)

LEMMA ReadLineStep == IInv /\ ReadLine(Shell) => IInv'
<1> SUFFICES ASSUME IInv, ReadLine(Shell) PROVE IInv'
  OBVIOUS
<1> DEFINE s == procs[Shell]
           n == Len(input.lines[s.line + 1])
           unset == [k \in 1 .. n |-> Junk]
           after == s.line + 1
           new == [s EXCEPT !.pc = "start", !.line = after, !.i = 1, !.pids = unset]
<1>1. Shell \in Pids /\ s \in Process /\ s.line \in Nat /\ s.run /\ s.pc = "read" /\ s.parent = 0
  BY PidsAreNumbers DEF IInv, Types, ReadLine, At, Process, ShellRuns
<1>2. s.line < Readable /\ s.line + 1 \in 1 .. Len(input.lines)
  BY <1>1, ReadableBound DEF ReadLine, IInv
<1>3. n \in 0 .. MaxCommands /\ n \in Nat
  BY <1>2, LineTyped, PidsAreNumbers DEF IInv
<1>4. unset \in Seq(Places) /\ Len(unset) = n /\ \A k \in 1 .. n : unset[k] = Junk
  BY <1>3 DEF Places
<1>5. procs' = [procs EXCEPT ![Shell] = new] /\ UNCHANGED <<input, reports>>
  BY DEF ReadLine
<1>6. after \in Nat
  BY <1>1
<1> HIDE DEF n, unset, after
<1>7. new \in Process
  BY <1>1, <1>4, <1>6 DEF Process, Pcs
<1>8. /\ procs' \in [Pids -> Process] /\ procs'[Shell] = new
      /\ \A q \in Pids : q # Shell => procs'[q] = procs[q]
  BY <1>1, <1>7, <1>5, Written DEF IInv, Types
<1>9. /\ new.pc = "start" /\ new.line = s.line + 1 /\ new.i = 1 /\ Len(new.pids) = n
      /\ new.parent = 0 /\ new.run
      /\ \A k \in 1 .. n : new.pids[k] = Junk
  BY <1>1, <1>4 DEF Process, after
<1> HIDE DEF new, s
<1>10. Children' = Children /\ \A q \in Children : procs'[q] = procs[q]
  BY <1>5, <1>8, <1>9, ShellAlone
<1>11. Types'
  BY <1>2, <1>3, <1>5, <1>8, <1>9 DEF IInv, Types, Bounded
<1>12. ShellRuns'
  BY <1>1, <1>5, <1>8, <1>9 DEF ShellRuns, At, Line, n
<1>13. \A p \in Children : procs[p].job[1] \in 1 .. s.line /\ procs[p].job[2] \in 1 .. MaxCommands
  BY DEF IInv, Placed, s
<1>14. \A p \in Children' : Placed(p)'
  BY <1>1, <1>8, <1>9, <1>10, <1>13 DEF Placed
<1>15. Slots'
  BY <1>8, <1>9 DEF Slots, At
<1>16. \A p \in Children : At(p, "reaped")
  BY <1>1 DEF IInv, ReapedInOrder, WaitedOn, At, s
<1>17. ReapedInOrder'
  BY <1>1, <1>8, <1>9, <1>10, <1>13, <1>16 DEF ReapedInOrder, WaitedOn, At
<1>18. s.line > 0 => NoExit(s.line)
  <2>1. \A k \in 1 .. Len(s.pids) : Line(Shell)[k] # "exit" \/ s.line = 0
    BY <1>1 DEF IInv, ExitHeard, At, s
  <2> QED BY <2>1 DEF NoExit, IInv, ShellRuns, Line, s
<1>19. Stops'
  <2>1. \A k \in 1 .. s.line - 1 : NoExit(k)
    BY DEF IInv, Stops, s
  <2>2. \A k \in 1 .. s.line : NoExit(k)
    BY <2>1, <1>1, <1>18
  <2> QED BY <1>1, <1>5, <1>8, <1>9, <2>2 DEF Stops, NoExit, At
<1>20. ExitHeard'
  BY <1>8, <1>9 DEF ExitHeard, At
<1> QED BY <1>5, <1>8, <1>9, <1>11, <1>12, <1>14, <1>15, <1>17, <1>19, <1>20,
    ShellStep DEF ShellOwn

\* A step of the shell that changes neither its line nor its array.
LEMMA ShellTurns ==
    ASSUME IInv, UNCHANGED <<input, reports>>, procs' \in [Pids -> Process],
           \A q \in Pids : q # Shell => procs'[q] = procs[q],
           procs'[Shell].parent = procs[Shell].parent,
           procs'[Shell].line = procs[Shell].line, procs'[Shell].pids = procs[Shell].pids,
           procs'[Shell].i \in 1 .. Len(procs[Shell].pids) + 1,
           procs'[Shell].pc \in {"read", "wait", "dead"},
           procs'[Shell].pc = "wait" => /\ procs[Shell].line > 0
                                        /\ \A k \in 1 .. Len(procs[Shell].pids) : Holds(k),
           \A p \in Children : WaitedOn(p)' <=> WaitedOn(p),
           Stops', ExitHeard'
    PROVE  IInv'
<1>1. Children' = Children /\ \A q \in Children : procs'[q] = procs[q]
  BY ShellAlone
<1>2. Types'
  BY PidsAreNumbers DEF IInv, Types, Bounded
<1>3. ShellRuns'
  BY DEF IInv, ShellRuns, At, Line
<1>4. \A p \in Children' : Placed(p)'
  BY <1>1 DEF IInv, Placed, At
<1>5. Slots'
  BY <1>1 DEF Slots, Holds, At
<1>6. ReapedInOrder'
  <2>1. \A p \in Children : At(p, "reaped")' <=> At(p, "reaped")
    BY <1>1 DEF At
  <2> QED BY <1>1, <2>1 DEF IInv, ReapedInOrder
<1> QED BY <1>2, <1>3, <1>4, <1>5, <1>6, ShellStep DEF ShellOwn

LEMMA ReadEofStep == IInv /\ ReadEof(Shell) => IInv'
<1> SUFFICES ASSUME IInv, ReadEof(Shell) PROVE IInv'
  OBVIOUS
<1> DEFINE s == procs[Shell]
           new == [s EXCEPT !.run = FALSE]
<1>1. Shell \in Pids /\ s \in Process /\ s.pc = "read" /\ Bounded(Shell) /\ s.line = Readable
  BY PidsAreNumbers DEF IInv, Types, ReadEof, At
<1>2. new \in Process
  BY <1>1 DEF Process
<1>3. procs' = [procs EXCEPT ![Shell] = new] /\ UNCHANGED <<input, reports>>
  BY DEF ReadEof
<1>4. /\ procs' \in [Pids -> Process] /\ procs'[Shell] = new
      /\ \A q \in Pids : q # Shell => procs'[q] = procs[q]
  BY <1>1, <1>2, <1>3, Written DEF IInv, Types
<1>5. /\ new.pc = "read" /\ new.line = s.line /\ new.i = s.i /\ new.pids = s.pids
      /\ new.parent = s.parent /\ ~new.run
  BY <1>1 DEF Process
<1> HIDE DEF new
<1>6. \A p \in Children : WaitedOn(p)' <=> WaitedOn(p)
  BY <1>1, <1>4, <1>5 DEF WaitedOn, At
<1>7. Stops'
  <2>1. Readable' = Readable /\ input' = input
    BY <1>3 DEF Readable
  <2> QED BY <1>1, <1>4, <1>5, <2>1 DEF IInv, Stops, NoExit, At
<1>8. ExitHeard'
  BY <1>4, <1>5 DEF ExitHeard
<1> QED BY <1>1, <1>3, <1>4, <1>5, <1>6, <1>7, <1>8, ShellTurns DEF Bounded

LEMMA LeaveStep == IInv /\ Leave(Shell) => IInv'
<1> SUFFICES ASSUME IInv, Leave(Shell) PROVE IInv'
  OBVIOUS
<1>1. Shell \in Pids /\ procs[Shell] \in Process /\ procs[Shell].pc = "read" /\ ~procs[Shell].run
      /\ Bounded(Shell) /\ UNCHANGED <<input, reports>>
  BY PidsAreNumbers DEF IInv, Types, Leave, At
<1>2. PICK code \in {0, Aborted} :
         procs' = [procs EXCEPT ![Shell].pc = "dead", ![Shell].code = code]
  BY DEF Leave
<1> DEFINE s == procs[Shell]
           new == [s EXCEPT !.pc = "dead", !.code = code]
<1>3. new \in Process
  BY <1>1 DEF Process, Pcs, Statuses
<1>4. /\ procs' \in [Pids -> Process] /\ procs'[Shell] = new
      /\ \A q \in Pids : q # Shell => procs'[q] = procs[q]
  BY <1>1, <1>2, <1>3, Written DEF IInv, Types
<1>5. /\ new.pc = "dead" /\ new.line = s.line /\ new.i = s.i /\ new.pids = s.pids
      /\ new.parent = s.parent /\ ~new.run /\ new.code # Segfault
  BY <1>1 DEF Process, Aborted, Segfault
<1> HIDE DEF new
<1>6. \A p \in Children : WaitedOn(p)' <=> WaitedOn(p)
  BY <1>1, <1>4, <1>5 DEF WaitedOn, At
<1>7. Stops'
  BY <1>1, <1>4, <1>5 DEF IInv, Stops, NoExit, Readable, Refused, At
<1>8. ExitHeard'
  BY <1>4, <1>5 DEF ExitHeard
<1> QED BY <1>1, <1>4, <1>5, <1>6, <1>7, <1>8, ShellTurns DEF Bounded

LEMMA BlankStep == IInv /\ Blank(Shell) => IInv'
<1> SUFFICES ASSUME IInv, Blank(Shell) PROVE IInv'
  OBVIOUS
<1> DEFINE s == procs[Shell]
           new == [s EXCEPT !.pc = "dead", !.code = Segfault]
<1>1. Shell \in Pids /\ s \in Process /\ s.pc = "start" /\ Bounded(Shell) /\ UNCHANGED <<input, reports>>
  BY PidsAreNumbers DEF IInv, Types, Blank, Starting, At
<1>2. new \in Process
  BY <1>1 DEF Process, Pcs, Statuses
<1>3. procs' = [procs EXCEPT ![Shell] = new]
  BY DEF Blank
<1>4. /\ procs' \in [Pids -> Process] /\ procs'[Shell] = new
      /\ \A q \in Pids : q # Shell => procs'[q] = procs[q]
  BY <1>1, <1>2, <1>3, Written DEF IInv, Types
<1>5. /\ new.pc = "dead" /\ new.line = s.line /\ new.i = s.i /\ new.pids = s.pids
      /\ new.parent = s.parent /\ new.run = s.run /\ new.code = Segfault
  BY <1>1 DEF Process
<1> HIDE DEF new
<1>6. \A p \in Children : WaitedOn(p)' <=> WaitedOn(p)
  BY <1>1, <1>4, <1>5, PidsAreNumbers DEF WaitedOn, At
<1>7. Stops'
  BY <1>1, <1>4, <1>5 DEF IInv, Stops, NoExit, Readable, Refused, At
<1>8. ExitHeard'
  BY <1>4, <1>5 DEF ExitHeard, At
<1> QED BY <1>1, <1>4, <1>5, <1>6, <1>7, <1>8, ShellTurns DEF Bounded

LEMMA AllStartedStep == IInv /\ AllStarted(Shell) => IInv'
<1> SUFFICES ASSUME IInv, AllStarted(Shell) PROVE IInv'
  OBVIOUS
<1> DEFINE s == procs[Shell]
           new == [s EXCEPT !.pc = "wait", !.i = 1]
<1>1. Shell \in Pids /\ s \in Process /\ s.pc = "start" /\ UNCHANGED <<input, reports>>
  BY PidsAreNumbers DEF IInv, Types, AllStarted, At
<1>2. new \in Process
  BY <1>1 DEF Process, Pcs
<1>3. procs' = [procs EXCEPT ![Shell] = new]
  BY DEF AllStarted
<1>4. /\ procs' \in [Pids -> Process] /\ procs'[Shell] = new
      /\ \A q \in Pids : q # Shell => procs'[q] = procs[q]
  BY <1>1, <1>2, <1>3, Written DEF IInv, Types
<1>5. /\ new.pc = "wait" /\ new.line = s.line /\ new.i = 1 /\ new.pids = s.pids
      /\ new.parent = s.parent /\ new.run = s.run
  BY <1>1 DEF Process
<1>6. Len(s.pids) \in Nat /\ s.i \in Nat /\ s.i > Len(s.pids) /\ s.line > 0
  BY <1>1 DEF Process, AllStarted, IInv, ShellRuns, At
<1>7. \A k \in 1 .. Len(s.pids) : Holds(k)
  BY <1>1, <1>6 DEF IInv, Slots, At
<1>8. \A p \in Children : procs'[p] = procs[p] /\ procs[p].job[2] \in Nat \ {0}
  BY <1>4, PidsAreNumbers DEF IInv, Placed
<1> HIDE DEF new
<1>9. \A p \in Children : WaitedOn(p)' <=> WaitedOn(p)
  BY <1>1, <1>4, <1>5, <1>8 DEF WaitedOn, At
<1>10. Stops'
  BY <1>1, <1>4, <1>5 DEF IInv, Stops, NoExit, Readable, Refused, At
<1>11. ExitHeard'
  BY <1>1, <1>4, <1>5, <1>6 DEF IInv, ExitHeard, At, Line
<1> QED BY <1>1, <1>4, <1>5, <1>6, <1>7, <1>9, <1>10, <1>11, ShellTurns

LEMMA LineDoneStep == IInv /\ LineDone(Shell) => IInv'
<1> SUFFICES ASSUME IInv, LineDone(Shell) PROVE IInv'
  OBVIOUS
<1> DEFINE s == procs[Shell]
           new == [s EXCEPT !.pc = "read"]
<1>1. Shell \in Pids /\ s \in Process /\ s.pc = "wait" /\ Bounded(Shell) /\ UNCHANGED <<input, reports>>
  BY PidsAreNumbers DEF IInv, Types, LineDone, At
<1>2. new \in Process
  BY <1>1 DEF Process, Pcs
<1>3. procs' = [procs EXCEPT ![Shell] = new]
  BY DEF LineDone
<1>4. /\ procs' \in [Pids -> Process] /\ procs'[Shell] = new
      /\ \A q \in Pids : q # Shell => procs'[q] = procs[q]
  BY <1>1, <1>2, <1>3, Written DEF IInv, Types
<1>5. /\ new.pc = "read" /\ new.line = s.line /\ new.i = s.i /\ new.pids = s.pids
      /\ new.parent = s.parent /\ new.run = s.run
  BY <1>1 DEF Process
<1>6. Len(s.pids) \in Nat /\ s.i \in Nat /\ s.i > Len(s.pids) /\ s.line \in Nat
  BY <1>1 DEF Process, LineDone
<1>7. \A p \in Children :
         /\ procs[p].job[1] \in 1 .. s.line
         /\ procs[p].job[1] = s.line => procs[p].job[2] \in 1 .. Len(s.pids)
  BY DEF IInv, Placed
<1> HIDE DEF new
<1>8. \A p \in Children : WaitedOn(p)
  BY <1>1, <1>6, <1>7 DEF WaitedOn, At
<1>9. \A p \in Children : WaitedOn(p)'
  BY <1>4, <1>5 DEF WaitedOn, At
<1>10. Stops'
  BY <1>1, <1>4, <1>5 DEF IInv, Stops, NoExit, Readable, Refused, At
<1>11. ExitHeard'
  BY <1>1, <1>4, <1>5 DEF IInv, ExitHeard, At, Line
<1> QED BY <1>1, <1>4, <1>5, <1>8, <1>9, <1>10, <1>11, ShellTurns DEF Bounded

\* exit, or a fork that failed: -1 is stored for the command.
LEMMA StoresMinusOne ==
    ASSUME IInv, At(Shell, "start"), procs[Shell].i <= Len(procs[Shell].pids),
           procs' = Stored(Shell, -1), UNCHANGED <<input, reports>>
    PROVE  IInv'
<1> DEFINE s == procs[Shell]
           next == s.i + 1
           held == [s.pids EXCEPT ![s.i] = -1]
           new == [s EXCEPT !.i = next, !.pids = held, !.run = FALSE]
<1>1. Shell \in Pids /\ s \in Process /\ s.pc = "start" /\ Bounded(Shell)
      /\ s.line > 0 /\ s.parent = 0
  BY PidsAreNumbers DEF IInv, Types, At, ShellRuns
<1>2. /\ s.pids \in Seq(Places) /\ Len(s.pids) \in Nat /\ s.i \in Nat /\ s.line \in Nat
      /\ s.i \in 1 .. Len(s.pids)
  BY <1>1 DEF Process, Bounded
<1>3. /\ held \in Seq(Places) /\ Len(held) = Len(s.pids)
      /\ \A k \in 1 .. Len(s.pids) : held[k] = IF k = s.i THEN -1 ELSE s.pids[k]
  BY <1>2, ExceptSeq DEF Places
<1>4. next \in Nat
  BY <1>2
<1>5. procs' = [procs EXCEPT ![Shell] = new]
  <2>1. [s EXCEPT !.i = next, !.pids[s.i] = -1, !.run = s.run /\ -1 # -1] = new
    BY <1>1 DEF Process
  <2> QED BY <2>1 DEF Stored
<1> HIDE DEF next, held
<1>6. new \in Process
  BY <1>1, <1>3, <1>4 DEF Process
<1>7. /\ procs' \in [Pids -> Process] /\ procs'[Shell] = new
      /\ \A q \in Pids : q # Shell => procs'[q] = procs[q]
  BY <1>1, <1>5, <1>6, Written DEF IInv, Types
<1>8. /\ new.pc = "start" /\ new.line = s.line /\ new.i = s.i + 1 /\ new.pids = held
      /\ new.parent = 0 /\ ~new.run
  BY <1>1 DEF Process, next
<1> HIDE DEF new
<1>9. Children' = Children /\ \A q \in Children : procs'[q] = procs[q]
  BY <1>7, <1>8, ShellAlone
<1>10. Types'
  BY <1>1, <1>2, <1>3, <1>7, <1>8 DEF IInv, Types, Bounded
<1>11. ShellRuns'
  BY <1>1, <1>3, <1>7, <1>8 DEF IInv, ShellRuns, At, Line
<1>12. ASSUME NEW p \in Children PROVE Placed(p)'
  <2>1. Placed(p) /\ procs'[p] = procs[p]
    BY <1>9, <1>12 DEF IInv
  <2>2. procs[p].job[1] = s.line => procs[p].job[2] \in 1 .. Len(s.pids) /\ procs[p].job[2] < s.i
                                    /\ s.pids[procs[p].job[2]] = p
    BY <1>1, <2>1 DEF Placed, At
  <2>3. procs[p].job[1] = s.line =>
           /\ procs[p].job[2] \in 1 .. Len(held) /\ procs[p].job[2] < s.i + 1
           /\ held[procs[p].job[2]] = p
    BY <1>2, <1>3, <2>2
  <2>4. procs'[Shell].pids = held /\ procs'[Shell].line = s.line /\ procs'[Shell].i = s.i + 1
    BY <1>7, <1>8
  <2> QED BY <2>1, <2>3, <2>4 DEF Placed, At
<1>13. Slots'
  <2>1. ASSUME NEW k \in 1 .. Len(s.pids)
        PROVE  IF k >= s.i + 1 THEN held[k] = Junk ELSE Holds(k)'
    <3>1. CASE k >= s.i + 1
      BY <1>1, <1>2, <1>3, <3>1 DEF IInv, Slots, At
    <3>2. CASE k = s.i
      BY <1>2, <1>3, <1>7, <1>8, <3>2 DEF Holds
    <3>3. CASE k < s.i
      <4>1. Holds(k) /\ held[k] = s.pids[k]
        BY <1>1, <1>2, <1>3, <3>3 DEF IInv, Slots, At
      <4>2. procs'[Shell].pids[k] = s.pids[k] /\ procs'[Shell].line = s.line
        BY <1>7, <1>8, <4>1
      <4>3. Holds(k)'
        BY <1>9, <4>1, <4>2 DEF Holds
      <4> QED BY <1>2, <3>3, <4>3
    <3> QED BY <1>2, <3>1, <3>2, <3>3
  <2> QED BY <1>3, <1>7, <1>8, <2>1 DEF Slots, At
<1>14. ReapedInOrder'
  <2>1. \A p \in Children : /\ WaitedOn(p)' <=> WaitedOn(p)
                            /\ At(p, "reaped")' <=> At(p, "reaped")
    BY <1>1, <1>7, <1>8, <1>9 DEF WaitedOn, At
  <2> QED BY <1>9, <2>1 DEF IInv, ReapedInOrder
<1>15. Stops'
  <2>1. Readable' = Readable /\ input' = input
    BY DEF Readable
  <2>2. Refused(Shell)'
    BY <1>2, <1>3, <1>7, <1>8 DEF Refused, ToSet
  <2> QED BY <1>1, <1>7, <1>8, <2>1, <2>2 DEF IInv, Stops, NoExit, At
<1>16. ExitHeard'
  BY <1>7, <1>8 DEF ExitHeard
<1> QED BY <1>7, <1>8, <1>10, <1>11, <1>9, <1>12, <1>13, <1>14, <1>15, <1>16,
    ShellStep DEF ShellOwn

LEMMA SkipUnforkedStep == IInv /\ SkipUnforked(Shell) => IInv'
<1> SUFFICES ASSUME IInv, SkipUnforked(Shell) PROVE IInv'
  OBVIOUS
<1> DEFINE s == procs[Shell]
           next == s.i + 1
           new == [s EXCEPT !.i = next]
<1>1. Shell \in Pids /\ s \in Process /\ s.pc = "wait" /\ Bounded(Shell) /\ s.line > 0
      /\ UNCHANGED <<input, reports>>
  BY PidsAreNumbers DEF IInv, Types, SkipUnforked, Waiting, At, ShellRuns
<1>2. Len(s.pids) \in Nat /\ s.i \in 1 .. Len(s.pids) /\ next \in Nat
  BY <1>1 DEF Process, SkipUnforked, Waiting, Bounded
<1>3. procs' = [procs EXCEPT ![Shell] = new]
  BY DEF SkipUnforked
<1>4. s.pids[s.i] = -1
  <2>1. Holds(s.i)
    BY <1>1, <1>2 DEF IInv, Slots, At
  <2>2. s.pids[s.i] = -1 \/ s.pids[s.i] \in Children
    BY <2>1 DEF Holds
  <2>3. s.pids[s.i] \notin Children
    BY <2>2, PidsAreNumbers DEF SkipUnforked, PidsRead, Unforked, Junk
  <2> QED BY <2>2, <2>3
<1> HIDE DEF next
<1>5. new \in Process
  BY <1>1, <1>2 DEF Process
<1>6. /\ procs' \in [Pids -> Process] /\ procs'[Shell] = new
      /\ \A q \in Pids : q # Shell => procs'[q] = procs[q]
  BY <1>1, <1>3, <1>5, Written DEF IInv, Types
<1>7. /\ new.pc = "wait" /\ new.line = s.line /\ new.i = s.i + 1 /\ new.pids = s.pids
      /\ new.parent = s.parent /\ new.run = s.run
  BY <1>1 DEF Process, next
<1> HIDE DEF new
<1>8. \A k \in 1 .. Len(s.pids) : Holds(k)
  BY <1>1 DEF IInv, Slots, At
<1>9. ASSUME NEW p \in Children PROVE WaitedOn(p)' <=> WaitedOn(p)
  <2>1. Placed(p) /\ procs'[p] = procs[p]
    BY <1>6, PidsAreNumbers DEF IInv
  <2>2. procs[p].job[1] = s.line => procs[p].job[2] \in Nat /\ procs[p].job[2] # s.i
    <3>1. p # -1
      BY PidsAreNumbers
    <3> QED BY <1>2, <1>4, <2>1, <3>1 DEF Placed
  <2>3. procs[p].job[1] <= s.line /\ procs[p].job[1] \in Nat /\ s.line \in Nat
    BY <1>1, <2>1 DEF Placed, Process
  <2>4. CASE procs[p].job[1] = s.line
    BY <1>1, <1>2, <1>6, <1>7, <2>1, <2>2, <2>4 DEF WaitedOn, At
  <2>5. CASE procs[p].job[1] < s.line
    BY <1>6, <1>7, <2>1, <2>5 DEF WaitedOn
  <2> QED BY <2>3, <2>4, <2>5
<1>10. Stops'
  BY <1>1, <1>6, <1>7 DEF IInv, Stops, NoExit, Readable, Refused, At
<1>11. ExitHeard'
  BY <1>1, <1>6, <1>7 DEF IInv, ExitHeard, At, Line
<1> QED BY <1>1, <1>2, <1>6, <1>7, <1>8, <1>9, <1>10, <1>11, ShellTurns

\* A failed fork or an exit.
LEMMA ExitStep == IInv /\ (Exit(Shell) \/ ForkFails(Shell)) => IInv'
BY StoresMinusOne DEF Exit, ForkFails, Starting

\* The child that a fork adds, under the least free pid.
Forked(q) ==
    /\ q # Shell /\ At(q, "none") /\ \A r \in Pids : r < q => ~At(r, "none")
    /\ Children' = Children \cup {q}
    /\ \A r \in Children : procs'[r] = procs[r]
    /\ procs'[q].pc = "exec" /\ procs'[q].job = <<procs[Shell].line, procs[Shell].i>>

LEMMA ForkStep == IInv /\ Fork(Shell) => IInv' /\ \E q \in Pids : Forked(q)
<1> SUFFICES ASSUME IInv, Fork(Shell) PROVE IInv' /\ \E q \in Pids : Forked(q)
  OBVIOUS
<1>1. PICK q \in Pids :
         /\ At(q, "none") /\ \A r \in Pids : r < q => ~At(r, "none")
         /\ procs' = [Stored(Shell, q) EXCEPT ![q] =
                        [procs[Shell] EXCEPT !.pc = "exec", !.parent = Shell,
                                             !.job = <<procs[Shell].line, procs[Shell].i>>]]
  BY DEF Fork
<1> DEFINE s == procs[Shell]
           next == s.i + 1
           job == <<s.line, s.i>>
           held == [s.pids EXCEPT ![s.i] = q]
           new == [s EXCEPT !.i = next, !.pids = held]
           child == [s EXCEPT !.pc = "exec", !.parent = Shell, !.job = job]
<1>2. Shell \in Pids /\ s \in Process /\ s.pc = "start" /\ Bounded(Shell) /\ s.line > 0
      /\ s.parent = 0 /\ q # Shell /\ UNCHANGED <<input, reports>>
  BY <1>1, PidsAreNumbers DEF IInv, Types, At, ShellRuns, Fork, Starting
<1>3. /\ s.pids \in Seq(Places) /\ Len(s.pids) \in Nat /\ s.i \in Nat /\ s.line \in Nat
      /\ s.i \in 1 .. Len(s.pids) /\ s.run \in BOOLEAN
  BY <1>2 DEF Process, Bounded, Fork, Starting
<1>4. Line(Shell)[s.i] \in {"program", "unknown"}
  BY DEF Fork, Starting
<1>5. s.i \in 1 .. MaxCommands
  <2>1. Len(s.pids) = Len(input.lines[s.line]) /\ s.line \in 1 .. Len(input.lines)
    BY <1>2, <1>3 DEF IInv, ShellRuns, Line, Bounded, Types
  <2> QED BY <1>3, <2>1, LineTyped, PidsAreNumbers DEF IInv
<1>6. /\ held \in Seq(Places) /\ Len(held) = Len(s.pids)
      /\ \A k \in 1 .. Len(s.pids) : held[k] = IF k = s.i THEN q ELSE s.pids[k]
  BY <1>3, ExceptSeq DEF Places
<1>7. next \in Nat /\ job \in Pairs /\ job[1] = s.line /\ job[2] = s.i
  BY <1>3 DEF Pairs
<1>8. procs' = [[procs EXCEPT ![Shell] = new] EXCEPT ![q] = child]
  <2>1. q # -1
    BY PidsAreNumbers
  <2>2. [s EXCEPT !.i = next, !.pids[s.i] = q, !.run = s.run /\ q # -1] = new
    BY <1>2, <1>3, <2>1 DEF Process
  <2>3. Stored(Shell, q) = [procs EXCEPT ![Shell] = new]
    BY <2>2 DEF Stored
  <2> QED BY <1>1, <2>3
<1> HIDE DEF next, held, job
<1>9. new \in Process /\ child \in Process
  BY <1>2, <1>6, <1>7 DEF Process, Pcs
<1>10. /\ new.pc = "start" /\ new.line = s.line /\ new.i = s.i + 1 /\ new.pids = held
       /\ new.parent = 0 /\ new.run = s.run
  BY <1>2 DEF Process, next
<1>11. /\ child.pc = "exec" /\ child.line = s.line /\ child.parent = Shell /\ child.job = job
       /\ child.i = s.i /\ child.pids = s.pids
  BY <1>2 DEF Process
<1> HIDE DEF new, child
<1>12. /\ procs' \in [Pids -> Process] /\ procs'[Shell] = new /\ procs'[q] = child
       /\ \A r \in Pids : r # Shell /\ r # q => procs'[r] = procs[r]
  BY <1>2, <1>8, <1>9 DEF IInv, Types
<1>13. /\ Children' = Children \cup {q} /\ q \notin Children
       /\ \A r \in Children : procs'[r] = procs[r]
  BY <1>1, <1>2, <1>11, <1>12 DEF Children, At
<1>14. Types'
  <2>1. Bounded(Shell)'
    BY <1>2, <1>3, <1>6, <1>10, <1>12 DEF Bounded
  <2>2. Bounded(q)'
    BY <1>2, <1>3, <1>11, <1>12 DEF Bounded
  <2>3. \A r \in Pids : Bounded(r)'
    BY <1>2, <1>12, <2>1, <2>2 DEF IInv, Types, Bounded
  <2> QED BY <1>2, <1>12, <2>3 DEF IInv, Types
<1>15. Numbered'
  BY <1>1, <1>2, <1>10, <1>11, <1>12, PidsAreNumbers DEF IInv, Numbered, At
<1>16. ShellRuns'
  BY <1>2, <1>6, <1>10, <1>12 DEF IInv, ShellRuns, At, Line
<1>17. ChildrenRun'
  <2>1. ChildRuns(q)'
    BY <1>7, <1>11, <1>12 DEF ChildRuns, At
  <2>2. \A r \in Children : ChildRuns(r)'
    BY <1>13 DEF IInv, ChildrenRun, ChildRuns, At
  <2>3. \A r \in Pids : At(r, "none")' => procs'[r].parent = 0
    BY <1>2, <1>10, <1>11, <1>12 DEF IInv, ChildrenRun, At
  <2> QED BY <1>13, <2>1, <2>2, <2>3 DEF ChildrenRun
<1>18. procs'[Shell].pids = held /\ procs'[Shell].line = s.line /\ procs'[Shell].i = s.i + 1
       /\ procs'[Shell].pc = "start" /\ procs'[q].job[1] = s.line /\ procs'[q].job[2] = s.i
  BY <1>7, <1>10, <1>11, <1>12
<1>19. ASSUME NEW p \in Children PROVE Placed(p)'
  <2>1. Placed(p) /\ procs'[p] = procs[p]
    BY <1>13, <1>19 DEF IInv
  <2>2. procs[p].job[1] = s.line => procs[p].job[2] \in 1 .. Len(s.pids) /\ procs[p].job[2] < s.i
                                    /\ s.pids[procs[p].job[2]] = p
    BY <1>2, <2>1 DEF Placed, At
  <2>3. procs[p].job[1] = s.line =>
           /\ procs[p].job[2] \in 1 .. Len(held) /\ procs[p].job[2] < s.i + 1
           /\ held[procs[p].job[2]] = p
    BY <1>3, <1>6, <2>2
  <2> QED BY <1>18, <2>1, <2>3 DEF Placed, At
<1>20. Placed(q)'
  <2>1. s.line \in 1 .. s.line /\ s.i \in 1 .. Len(held) /\ s.i < s.i + 1 /\ held[s.i] = q
    BY <1>2, <1>3, <1>6
  <2> QED BY <1>5, <1>18, <2>1 DEF Placed, At
<1>21. \A p \in Children' : Placed(p)'
  BY <1>13, <1>19, <1>20
<1>22. Slots'
  <2>1. ASSUME NEW k \in 1 .. Len(s.pids)
        PROVE  IF k >= s.i + 1 THEN held[k] = Junk ELSE Holds(k)'
    <3>1. CASE k >= s.i + 1
      BY <1>2, <1>3, <1>6, <3>1 DEF IInv, Slots, At
    <3>2. CASE k = s.i
      <4>1. procs'[q].job = <<procs'[Shell].line, k>>
        BY <1>11, <1>12, <1>18, <3>2 DEF job
      <4>2. procs'[Shell].pids[k] = q
        BY <1>6, <1>18, <3>2
      <4>3. Holds(k)'
        BY <1>13, <4>1, <4>2 DEF Holds
      <4> QED BY <1>3, <3>2, <4>3
    <3>3. CASE k < s.i
      <4>1. Holds(k) /\ held[k] = s.pids[k]
        BY <1>2, <1>3, <1>6, <3>3 DEF IInv, Slots, At
      <4>2. procs'[Shell].pids[k] = s.pids[k] /\ procs'[Shell].line = s.line
        BY <1>18, <4>1
      <4>3. Holds(k)'
        BY <1>13, <4>1, <4>2 DEF Holds
      <4> QED BY <1>3, <3>3, <4>3
    <3> QED BY <1>3, <3>1, <3>2, <3>3
  <2> QED BY <1>6, <1>18, <2>1 DEF Slots, At
<1>23. Ordered'
  <2>1. ASSUME NEW p \in Children PROVE p < q /\ Before(procs[p].job, procs'[q].job)
    <3>1. p \in Pids /\ procs[p].pc # "none" /\ procs[q].pc = "none"
      BY <1>1, <2>1 DEF Children, At
    <3>2. p < q
      BY <3>1, PidsAreNumbers DEF IInv, Numbered, At
    <3>3. procs[p].job[1] \in 1 .. s.line /\ (procs[p].job[1] = s.line => procs[p].job[2] < s.i)
      BY <1>2, <2>1 DEF IInv, Placed, At
    <3> QED BY <1>3, <1>18, <3>2, <3>3 DEF Before
  <2>2. q \in Nat /\ Children \subseteq Nat
    BY PidsAreNumbers
  <2> QED BY <1>13, <2>1, <2>2 DEF IInv, Ordered
<1>24. ReapedInOrder'
  <2>1. \A p \in Children : /\ WaitedOn(p)' <=> WaitedOn(p)
                            /\ At(p, "reaped")' <=> At(p, "reaped")
    BY <1>2, <1>13, <1>18 DEF WaitedOn, At
  <2>2. ~At(q, "reaped")' /\ ~WaitedOn(q)'
    BY <1>3, <1>11, <1>12, <1>18 DEF WaitedOn, At
  <2> QED BY <1>13, <2>1, <2>2 DEF IInv, ReapedInOrder
<1>25. ShellReports' /\ Reported'
  <2>1. ShellReports'
    BY <1>2, <1>13 DEF IInv, ShellReports, At
  <2>2. ~At(q, "reaped")'
    BY <1>11, <1>12 DEF At
  <2> QED BY <1>2, <1>13, <2>1, <2>2 DEF IInv, Reported, At
<1>26. Stops'
  <2>1. Readable' = Readable /\ input' = input
    BY <1>2 DEF Readable
  <2>2. Refused(Shell) => Refused(Shell)'
    <3>1. ASSUME NEW k \in 1 .. Len(s.pids), s.pids[k] = -1 PROVE held[k] = -1
      <4>1. k # s.i
        BY <1>2, <1>3, <3>1 DEF IInv, Slots, At, Junk
      <4> QED BY <1>6, <3>1, <4>1
    <3>2. DOMAIN s.pids = 1 .. Len(s.pids) /\ DOMAIN held = 1 .. Len(s.pids)
      BY <1>3, <1>6
    <3> QED BY <1>18, <3>1, <3>2 DEF Refused, ToSet
  <2> QED BY <1>2, <1>10, <1>12, <1>18, <2>1, <2>2 DEF IInv, Stops, NoExit, At
<1>27. ExitHeard'
  <2>1. ASSUME s.run, NEW n \in 1 .. Len(held), ~(n >= s.i + 1)
        PROVE  Line(Shell)[n] # "exit"
    <3>1. CASE n = s.i
      BY <1>4, <3>1
    <3>2. CASE n < s.i
      BY <1>2, <1>3, <1>6, <2>1, <3>2 DEF IInv, ExitHeard, At
    <3> QED BY <1>3, <2>1, <3>1, <3>2
  <2>2. Line(Shell)' = Line(Shell) /\ procs'[Shell].run = s.run
    BY <1>2, <1>10, <1>12 DEF Line
  <2> QED BY <1>18, <2>1, <2>2 DEF ExitHeard, At
<1>28. Forked(q)
  BY <1>1, <1>2, <1>11, <1>12, <1>13 DEF Forked, job
<1> QED BY <1>14, <1>15, <1>16, <1>17, <1>21, <1>22, <1>23, <1>24, <1>25, <1>26,
    <1>27, <1>28 DEF IInv

\* The shell has the child it waits for, and no wait status of another.
LEMMA ShellWaits ==
    ASSUME IInv, Waiting(Shell), NEW pid \in PidsRead(Shell), ~Unforked(pid)
    PROVE  /\ pid = procs[Shell].pids[procs[Shell].i] /\ pid \in Children
           /\ Waitable(Shell, pid) = {pid}
<1> DEFINE s == procs[Shell]
<1>1. Shell \in Pids /\ s \in Process /\ s.pc = "wait" /\ Bounded(Shell)
  BY PidsAreNumbers DEF IInv, Types, Waiting, At
<1>2. Len(s.pids) \in Nat /\ s.i \in 1 .. Len(s.pids)
  BY <1>1 DEF Process, Waiting, Bounded
<1>3. Holds(s.i)
  BY <1>1, <1>2 DEF IInv, Slots, At
<1>4. s.pids[s.i] # Junk
  BY <1>3, PidsAreNumbers DEF Holds, Junk
<1>5. pid = s.pids[s.i]
  BY <1>4 DEF PidsRead
<1>6. pid \in Children /\ procs[pid].job = <<s.line, s.i>>
  BY <1>3, <1>5 DEF Holds, Unforked
<1>7. pid > 0 /\ pid \in Pids /\ procs[pid].parent = Shell
  BY <1>6, PidsAreNumbers DEF IInv, ChildrenRun, ChildRuns
<1>8. ~At(pid, "reaped")
  <2>1. s.line \in Nat /\ procs[pid].job[1] = s.line /\ procs[pid].job[2] = s.i
    BY <1>1, <1>6 DEF Process
  <2>2. ~WaitedOn(pid)
    BY <1>1, <1>2, <2>1 DEF WaitedOn, At
  <2> QED BY <1>6, <2>2 DEF IInv, ReapedInOrder
<1> QED BY <1>5, <1>6, <1>7, <1>8 DEF Waitable

LEMMA WaitFailsStep == IInv => ~WaitFails(Shell)
BY ShellWaits DEF WaitFails

LEMMA WaitReturnsStep == IInv /\ WaitReturns(Shell) => IInv'
<1> SUFFICES ASSUME IInv, WaitReturns(Shell) PROVE IInv'
  OBVIOUS
<1>1. PICK pid \in PidsRead(Shell) :
         /\ ~Unforked(pid)
         /\ \E q \in Waitable(Shell, pid) :
               At(q, "dead") /\ WaitedFor(Shell, pid, q, procs[q].code)
  BY DEF WaitReturns
<1> DEFINE s == procs[Shell]
           next == s.i + 1
           code == procs[pid].code
           new == [s EXCEPT !.i = next, !.status = code]
           reaped == [procs[pid] EXCEPT !.pc = "reaped"]
<1>2. /\ pid = s.pids[s.i] /\ pid \in Children /\ At(pid, "dead")
      /\ WaitedFor(Shell, pid, pid, code)
  BY <1>1, ShellWaits DEF WaitReturns
<1>3. Shell \in Pids /\ s \in Process /\ s.pc = "wait" /\ Bounded(Shell) /\ s.line > 0
      /\ s.parent = 0 /\ input' = input
  BY PidsAreNumbers DEF IInv, Types, WaitReturns, Waiting, At, ShellRuns
<1>4. Len(s.pids) \in Nat /\ s.i \in 1 .. Len(s.pids) /\ s.line \in Nat
  BY <1>3 DEF Process, WaitReturns, Waiting, Bounded
<1>5. pid \in Pids /\ pid # Shell /\ procs[pid] \in Process /\ code \in Nat
  <2>1. pid \in Pids /\ pid # Shell /\ procs[pid] \in Process
    BY <1>2, PidsAreNumbers DEF IInv, Types
  <2> QED BY <2>1, PidsAreNumbers DEF Process
<1>6. procs[pid].job = <<s.line, s.i>>
  <2>1. Holds(s.i)
    BY <1>3, <1>4 DEF IInv, Slots, At
  <2>2. pid # -1
    BY <1>2, PidsAreNumbers
  <2> QED BY <1>2, <2>1, <2>2 DEF Holds
<1>7. next \in Nat
  BY <1>4
<1>8. /\ procs' = [r \in Pids |-> IF r = Shell THEN new ELSE IF r = pid THEN reaped ELSE procs[r]]
      /\ reports' = IF code = 0 THEN reports
                    ELSE reports \cup {[by |-> Shell, on |-> pid, status |-> code]}
  BY <1>2, <1>5 DEF WaitedFor
<1> HIDE DEF next, code
<1>9. new \in Process /\ reaped \in Process
  BY <1>3, <1>5, <1>7 DEF Process, Pcs
<1>10. /\ new.pc = "wait" /\ new.line = s.line /\ new.i = s.i + 1 /\ new.pids = s.pids
       /\ new.parent = s.parent /\ new.run = s.run
  BY <1>3 DEF Process, next
<1>11. /\ reaped.pc = "reaped" /\ reaped.job = procs[pid].job /\ reaped.line = procs[pid].line
       /\ reaped.parent = procs[pid].parent /\ reaped.code = procs[pid].code
       /\ reaped.i = procs[pid].i /\ reaped.pids = procs[pid].pids
  BY <1>5 DEF Process
<1> HIDE DEF new, reaped
<1>12. /\ procs' \in [Pids -> Process] /\ procs'[Shell] = new /\ procs'[pid] = reaped
       /\ \A r \in Pids : r # Shell /\ r # pid => procs'[r] = procs[r]
  BY <1>3, <1>5, <1>8, <1>9 DEF IInv, Types
<1>13. /\ Children' = Children
       /\ \A r \in Children : r # pid => procs'[r] = procs[r]
       /\ \A r \in Children : procs'[r].job = procs[r].job /\ procs'[r].line = procs[r].line
                              /\ procs'[r].parent = procs[r].parent /\ procs'[r].code = procs[r].code
  <2>1. \A r \in Pids : At(r, "none")' <=> At(r, "none")
    BY <1>2, <1>3, <1>10, <1>11, <1>12 DEF At
  <2> QED BY <1>5, <1>11, <1>12, <2>1, PidsAreNumbers DEF Children
<1>14. Types'
  <2>1. \A p \in Pids : Bounded(p)'
    BY <1>3, <1>4, <1>5, <1>10, <1>11, <1>12 DEF IInv, Types, Bounded
  <2>2. reports' \subseteq Report
    <3>1. [by |-> Shell, on |-> pid, status |-> code] \in Report
      BY <1>3, <1>5 DEF Report, code
    <3> QED BY <1>8, <3>1 DEF IInv, Types
  <2> QED BY <1>3, <1>12, <2>1, <2>2 DEF IInv, Types
<1>15. Numbered'
  <2>1. \A r \in Pids : At(r, "none")' <=> At(r, "none")
    BY <1>2, <1>3, <1>10, <1>11, <1>12 DEF At
  <2> QED BY <2>1 DEF IInv, Numbered
<1>16. ShellRuns'
  BY <1>3, <1>10, <1>12 DEF IInv, ShellRuns, At, Line
<1>17. ChildrenRun'
  <2>1. \A r \in Children : ChildRuns(r)'
    BY <1>11, <1>12, <1>13 DEF IInv, ChildrenRun, ChildRuns, At
  <2>2. \A r \in Pids : At(r, "none")' => procs'[r].parent = 0
    BY <1>3, <1>10, <1>11, <1>12 DEF IInv, ChildrenRun, At
  <2> QED BY <1>13, <2>1, <2>2 DEF ChildrenRun
<1>18. procs'[Shell].pids = s.pids /\ procs'[Shell].line = s.line /\ procs'[Shell].i = s.i + 1
       /\ procs'[Shell].pc = "wait"
  BY <1>10, <1>12
<1>19. \A p \in Children' : Placed(p)'
  BY <1>3, <1>13, <1>18 DEF IInv, Placed, At
<1>20. Slots'
  <2>1. \A k \in 1 .. Len(s.pids) : Holds(k)
    BY <1>3 DEF IInv, Slots, At
  <2>2. \A k \in 1 .. Len(s.pids) : Holds(k)'
    BY <1>13, <1>18, <2>1 DEF Holds
  <2> QED BY <1>18, <2>2 DEF Slots, At
<1>21. Ordered'
  BY <1>13 DEF IInv, Ordered
<1>22. ReapedInOrder'
  <2>1. ASSUME NEW p \in Children PROVE At(p, "reaped")' <=> WaitedOn(p)'
    <3>1. CASE p = pid
      BY <1>4, <1>6, <1>11, <1>12, <1>18, <3>1 DEF WaitedOn, At
    <3>2. CASE p # pid
      <4>1. Placed(p) /\ procs'[p] = procs[p]
        BY <1>13, <3>2 DEF IInv
      <4>2. procs[p].job[1] = s.line => procs[p].job[2] \in Nat /\ procs[p].job[2] # s.i
        BY <1>2, <3>2, <4>1 DEF Placed
      <4>3. WaitedOn(p)' <=> WaitedOn(p)
        <5>1. CASE procs[p].job[1] = s.line
          BY <1>3, <1>4, <1>18, <4>1, <4>2, <5>1 DEF WaitedOn, At
        <5>2. CASE procs[p].job[1] < s.line
          BY <1>18, <4>1, <5>2 DEF WaitedOn
        <5> QED BY <1>4, <4>1, <5>1, <5>2 DEF Placed
      <4>4. At(p, "reaped")' <=> At(p, "reaped")
        BY <4>1 DEF At
      <4> QED BY <4>3, <4>4 DEF IInv, ReapedInOrder
    <3> QED BY <3>1, <3>2
  <2> QED BY <1>13, <2>1 DEF ReapedInOrder
<1>23. At(pid, "reaped")' /\ \A p \in Children : p # pid => (At(p, "reaped")' <=> At(p, "reaped"))
  BY <1>11, <1>12, <1>13 DEF At
<1>24. ShellReports'
  <2>1. ASSUME NEW r \in reports', r.by = Shell
        PROVE  /\ r.on \in Children /\ At(r.on, "reaped")'
               /\ r.status = procs'[r.on].code /\ r.status # 0
    <3>1. CASE r \in reports
      BY <1>13, <1>23, <2>1, <3>1 DEF IInv, ShellReports
    <3>2. CASE r \notin reports
      <4>1. code # 0 /\ r = [by |-> Shell, on |-> pid, status |-> code]
        BY <1>8, <2>1, <3>2
      <4> QED BY <1>2, <1>13, <1>23, <4>1 DEF code
    <3> QED BY <3>1, <3>2
  <2> QED BY <1>13, <2>1 DEF ShellReports
<1>25. Reported'
  <2>1. ASSUME NEW p \in Children, At(p, "reaped")', procs'[p].code # 0
        PROVE  \E r \in reports' : r.by = Shell /\ r.on = p /\ r.status = procs'[p].code
    <3>1. CASE p = pid
      <4>1. code # 0 /\ procs'[p].code = code
        BY <1>13, <2>1, <3>1 DEF code
      <4>2. [by |-> Shell, on |-> pid, status |-> code] \in reports'
        BY <1>8, <4>1
      <4> QED BY <3>1, <4>1, <4>2
    <3>2. CASE p # pid
      <4>1. \E r \in reports : r.by = Shell /\ r.on = p /\ r.status = procs[p].code
        BY <1>13, <1>23, <2>1, <3>2 DEF IInv, Reported
      <4> QED BY <1>8, <1>13, <4>1
    <3> QED BY <3>1, <3>2
  <2> QED BY <1>13, <2>1 DEF Reported
<1>26. Stops'
  <2>1. Readable' = Readable /\ (Refused(Shell)' <=> Refused(Shell))
    BY <1>3, <1>18 DEF Readable, Refused
  <2> QED BY <1>3, <1>10, <1>12, <2>1 DEF IInv, Stops, NoExit, At
<1>27. ExitHeard'
  BY <1>3, <1>10, <1>12 DEF IInv, ExitHeard, At, Line
<1> QED BY <1>14, <1>15, <1>16, <1>17, <1>19, <1>20, <1>21, <1>22, <1>24, <1>25,
    <1>26, <1>27 DEF IInv

LEMMA ShellSteps == IInv /\ MainStep(Shell) => IInv'
BY ReadLineStep, ReadEofStep, LeaveStep, ExitStep, BlankStep, ForkStep, AllStartedStep,
   SkipUnforkedStep, WaitFailsStep, WaitReturnsStep, LineDoneStep DEF MainStep

-----------------------------------------------------------------------------
(* The actions of a child                                                  *)

\* A child has no child of its own to wait for.
LEMMA NothingToWaitFor ==
    ASSUME IInv, NEW p \in Children, NEW pid
    PROVE  Waitable(p, pid) = {}
<1>1. \A q \in Pids : procs[q].parent \in {0, Shell}
  BY DEF IInv, Types, Process
<1>2. p \notin {0, Shell}
  BY PidsAreNumbers
<1> QED BY <1>1, <1>2 DEF Waitable

LEMMA ChildSteps ==
    ASSUME IInv, NEW p \in Children, MainStep(p) \/ ChildStep(p)
    PROVE  IInv'
<1> DEFINE c == procs[p]
           next == c.i + 1
<1>1. /\ p \in Pids /\ p # Shell /\ c \in Process /\ ChildRuns(p) /\ Bounded(p)
      /\ \A q \in Pids : procs[q] \in Process
  BY PidsAreNumbers DEF IInv, Types, ChildrenRun
<1>2. /\ c.pids \in Seq(Places) /\ Len(c.pids) \in Nat /\ c.i \in Nat /\ next \in Nat
      /\ c.i \in 1 .. Len(c.pids) + 1 /\ c.status \in Nat /\ procs \in [Pids -> Process]
  BY <1>1 DEF Process, Bounded, IInv, Types
<1>3. ASSUME NEW new \in Process, procs' = [procs EXCEPT ![p] = new], input' = input,
             c.pc # "reaped", new.parent = c.parent, new.job = c.job, new.line = c.line,
             new.i \in 1 .. Len(new.pids) + 1, new.pc \notin {"none", "start", "reaped"},
             new.pc \in {"read", "wait"} => ~new.run,
             reports \subseteq reports', reports' \subseteq Report,
             \A r \in reports' : r.by = Shell => r \in reports
      PROVE  IInv'
  <2>1. /\ procs' \in [Pids -> Process] /\ procs'[p] = new
        /\ \A q \in Pids : q # p => procs'[q] = procs[q]
    BY <1>1, <1>2, <1>3, Written
  <2> QED BY <1>3, <2>1, ChildGoesOn DEF At
<1>4. reports \subseteq Report
  BY DEF IInv, Types
<1> HIDE DEF next
<1>5. CASE ReadLine(p)
  BY <1>1, <1>5 DEF ReadLine, ChildRuns, At
<1>6. CASE ReadEof(p)
  <2> DEFINE new == [c EXCEPT !.run = FALSE]
  <2>1. new \in Process /\ new.parent = c.parent /\ new.job = c.job /\ new.line = c.line
        /\ new.i = c.i /\ new.pids = c.pids /\ new.pc = "read" /\ c.pc = "read" /\ ~new.run
    BY <1>1, <1>6 DEF Process, ReadEof, At
  <2>2. procs' = [procs EXCEPT ![p] = new] /\ UNCHANGED <<input, reports>>
    BY <1>6 DEF ReadEof
  <2> HIDE DEF new
  <2> QED BY <1>2, <1>3, <1>4, <2>1, <2>2
<1>7. CASE Leave(p)
  <2>1. c.pc = "read" /\ UNCHANGED <<input, reports>>
    BY <1>7 DEF Leave, At
  <2>2. PICK code \in {0, Aborted} :
           procs' = [procs EXCEPT ![p].pc = "dead", ![p].code = code]
    BY <1>7 DEF Leave
  <2> DEFINE new == [c EXCEPT !.pc = "dead", !.code = code]
  <2>3. new \in Process /\ new.parent = c.parent /\ new.job = c.job /\ new.line = c.line
        /\ new.i = c.i /\ new.pids = c.pids /\ new.pc = "dead"
    BY <1>1 DEF Process, Pcs, Statuses
  <2>4. procs' = [procs EXCEPT ![p] = new]
    BY <1>1, <1>2, <2>2
  <2> HIDE DEF new
  <2> QED BY <1>2, <1>3, <1>4, <2>1, <2>3, <2>4
<1>8. CASE Exit(p) \/ Blank(p) \/ Fork(p) \/ ForkFails(p) \/ AllStarted(p)
  BY <1>1, <1>8 DEF Exit, Blank, Fork, ForkFails, AllStarted, Starting, ChildRuns
<1>9. CASE SkipUnforked(p)
  <2> DEFINE new == [c EXCEPT !.i = next]
  <2>1. c.pc = "wait" /\ c.i <= Len(c.pids) /\ UNCHANGED <<input, reports>> /\ ~c.run
    BY <1>1, <1>9 DEF SkipUnforked, Waiting, At, ChildRuns
  <2>2. new \in Process /\ new.parent = c.parent /\ new.job = c.job /\ new.line = c.line
        /\ new.i = c.i + 1 /\ new.pids = c.pids /\ new.pc = "wait" /\ ~new.run
    BY <1>1, <1>2, <2>1 DEF Process, next
  <2>3. procs' = [procs EXCEPT ![p] = new]
    BY <1>9 DEF SkipUnforked, next
  <2>4. c.i + 1 \in 1 .. Len(c.pids) + 1
    BY <1>2, <2>1
  <2> HIDE DEF new
  <2> QED BY <1>3, <1>4, <2>1, <2>2, <2>3, <2>4
<1>10. CASE WaitFails(p)
  <2>1. c.pc = "wait" /\ c.i <= Len(c.pids) /\ input' = input /\ ~c.run
    BY <1>1, <1>10 DEF WaitFails, Waiting, At, ChildRuns
  <2>2. PICK pid \in PidsRead(p) : ~Unforked(pid) /\ WaitedFor(p, pid, 0, c.status)
    BY <1>10 DEF WaitFails
  <2> DEFINE new == [c EXCEPT !.i = next, !.status = c.status]
             line == [by |-> p, on |-> pid, status |-> c.status]
  <2>3. new \in Process /\ new.parent = c.parent /\ new.job = c.job /\ new.line = c.line
        /\ new.i = c.i + 1 /\ new.pids = c.pids /\ new.pc = "wait" /\ ~new.run
    <3>1. PICK status \in Nat : status = c.status
      BY <1>2
    <3> DEFINE set == [c EXCEPT !.i = next, !.status = status]
    <3>2. set \in Process /\ set.parent = c.parent /\ set.job = c.job /\ set.line = c.line
          /\ set.i = c.i + 1 /\ set.pids = c.pids /\ set.pc = "wait" /\ ~set.run
      BY <1>1, <1>2, <2>1 DEF Process, next
    <3> QED BY <3>1, <3>2
  <2>4. procs' = [procs EXCEPT ![p] = new]
    <3>1. 0 \notin Pids
      BY PidsAreNumbers
    <3>2. procs' = [r \in Pids |-> IF r = p THEN new ELSE procs[r]]
      BY <2>2, <3>1 DEF WaitedFor, next
    <3> QED BY <1>1, <1>2, <3>2
  <2>5. line \in Report
    <3>1. pid \in Pids \cup {-1, 0}
      <4>1. c.pids[c.i] \in Places
        BY <1>2, <2>1, ElementOfSeq
      <4> QED BY <4>1 DEF PidsRead, Places
    <3>2. pid \in Pids \cup {0}
      BY <2>2, <3>1 DEF Unforked
    <3> QED BY <1>1, <1>2, <3>2 DEF Report
  <2>6. reports' \subseteq reports \cup {line} /\ reports \subseteq reports' /\ line.by # Shell
    BY <1>1, <2>2 DEF WaitedFor
  <2>7. c.i + 1 \in 1 .. Len(c.pids) + 1
    BY <1>2, <2>1
  <2>8. reports' \subseteq Report /\ \A r \in reports' : r.by = Shell => r \in reports
    BY <1>4, <2>5, <2>6
  <2> HIDE DEF new, line
  <2> QED BY <1>3, <2>1, <2>3, <2>4, <2>6, <2>7, <2>8
<1>11. CASE WaitReturns(p)
  BY <1>11, NothingToWaitFor DEF WaitReturns
<1>12. CASE LineDone(p)
  <2> DEFINE new == [c EXCEPT !.pc = "read"]
  <2>1. c.pc = "wait" /\ UNCHANGED <<input, reports>> /\ ~c.run
    BY <1>1, <1>12 DEF LineDone, At, ChildRuns
  <2>2. new \in Process /\ new.parent = c.parent /\ new.job = c.job /\ new.line = c.line
        /\ new.i = c.i /\ new.pids = c.pids /\ new.pc = "read" /\ ~new.run
    BY <1>1, <2>1 DEF Process, Pcs
  <2>3. procs' = [procs EXCEPT ![p] = new]
    BY <1>12 DEF LineDone
  <2> HIDE DEF new
  <2> QED BY <1>2, <1>3, <1>4, <2>1, <2>2, <2>3
<1>13. CASE ExecFails(p)
  <2> DEFINE held == [c.pids EXCEPT ![c.i] = 0]
             new == [c EXCEPT !.pc = "wait", !.run = FALSE, !.i = 1, !.pids = held]
  <2>1. c.pc = "exec" /\ UNCHANGED <<input, reports>>
    BY <1>13 DEF ExecFails, At
  <2>2. held \in Seq(Places) /\ Len(held) = Len(c.pids)
    <3>1. CASE c.i \in 1 .. Len(c.pids)
      BY <1>2, <3>1, ExceptSeq DEF Places
    <3>2. CASE c.i \notin 1 .. Len(c.pids)
      <4>1. c.pids \in [1 .. Len(c.pids) -> Places]
        BY <1>2
      <4>2. held = c.pids
        BY <3>2, <4>1
      <4> QED BY <1>2, <4>2
    <3> QED BY <3>1, <3>2
  <2>3. procs' = [procs EXCEPT ![p] = new]
    BY <1>13 DEF ExecFails
  <2> HIDE DEF held
  <2>4. new \in Process /\ new.parent = c.parent /\ new.job = c.job /\ new.line = c.line
        /\ new.i = 1 /\ new.pids = held /\ new.pc = "wait" /\ ~new.run
    BY <1>1, <2>2 DEF Process, Pcs
  <2>5. 1 \in 1 .. Len(held) + 1
    BY <1>2, <2>2
  <2> HIDE DEF new
  <2> QED BY <1>3, <1>4, <2>1, <2>3, <2>4, <2>5
<1>14. CASE Exec(p)
  <2> DEFINE new == [c EXCEPT !.pc = "program"]
  <2>1. c.pc = "exec" /\ UNCHANGED <<input, reports>> /\ procs' = [procs EXCEPT ![p] = new]
    BY <1>14 DEF Exec, At
  <2>2. new \in Process /\ new.parent = c.parent /\ new.job = c.job /\ new.line = c.line
        /\ new.i = c.i /\ new.pids = c.pids /\ new.pc = "program"
    BY <1>1 DEF Process, Pcs
  <2> HIDE DEF new
  <2> QED BY <1>2, <1>3, <1>4, <2>1, <2>2
<1>15. CASE ProgramEnds(p)
  <2>1. c.pc = "program" /\ UNCHANGED <<input, reports>>
    BY <1>15 DEF ProgramEnds, At
  <2>2. PICK code \in Codes :
           procs' = [procs EXCEPT ![p].pc = "dead", ![p].code = code]
    BY <1>15 DEF ProgramEnds
  <2> DEFINE new == [c EXCEPT !.pc = "dead", !.code = code]
  <2>3. new \in Process /\ new.parent = c.parent /\ new.job = c.job /\ new.line = c.line
        /\ new.i = c.i /\ new.pids = c.pids /\ new.pc = "dead"
    BY <1>1 DEF Process, Pcs, Statuses
  <2>4. procs' = [procs EXCEPT ![p] = new]
    BY <1>1, <1>2, <2>2
  <2> HIDE DEF new
  <2> QED BY <1>2, <1>3, <1>4, <2>1, <2>3, <2>4
<1> QED
  BY <1>5, <1>6, <1>7, <1>8, <1>9, <1>10, <1>11, <1>12, <1>13, <1>14, <1>15
  DEF MainStep, ChildStep

-----------------------------------------------------------------------------
(* The invariant, and what it implies                                      *)

LEMMA InitInvariant == Init => IInv
<1> SUFFICES ASSUME Init PROVE IInv
  OBVIOUS
<1>1. procs = [p \in Pids |-> IF p = Shell THEN [NoProc EXCEPT !.pc = "read"] ELSE NoProc]
      /\ reports = {}
  BY DEF Init
<1>2. /\ Shell \in Pids /\ procs[Shell].pc = "read" /\ procs[Shell].parent = 0
      /\ procs[Shell].line = 0 /\ procs[Shell].run /\ procs[Shell].pids = <<>>
      /\ procs[Shell].i = 1
      /\ \A p \in Pids : p # Shell => procs[p] = NoProc
  BY <1>1, PidsAreNumbers DEF NoProc
<1>3. Children = {}
  BY <1>2 DEF Children, At, NoProc
<1>4. Types
  <2>1. PICK n \in 0 .. MaxLines : input.lines \in [1 .. n -> Lines] /\ input.cut \in BOOLEAN
    BY DEF Init
  <2>2. input.lines \in Seq(Lines) /\ Len(input.lines) = n /\ n <= MaxLines /\ n \in Nat
    BY <2>1, PidsAreNumbers
  <2>3. NoProc \in Process /\ [NoProc EXCEPT !.pc = "read"] \in Process
    <3>1. <<0, 0>> \in Pairs /\ <<>> \in Seq(Places)
      BY DEF Pairs
    <3>2. NoProc \in Process
      BY <3>1 DEF NoProc, Process, Pcs, Statuses
    <3> QED BY <3>2 DEF Process, Pcs
  <2>4. procs \in [Pids -> Process]
    BY <1>1, <2>3
  <2>5. \A p \in Pids : Bounded(p)
    BY <1>2, <2>2 DEF Bounded, NoProc
  <2> QED BY <1>1, <2>1, <2>2, <2>4, <2>5 DEF Types
<1>5. Numbered
  BY <1>2, PidsAreNumbers DEF Numbered, At
<1>6. ShellRuns /\ Slots
  BY <1>2 DEF ShellRuns, Slots, At
<1>7. ChildrenRun
  BY <1>2, <1>3 DEF ChildrenRun, At, NoProc
<1>8. Ordered /\ ReapedInOrder /\ Reported
  BY <1>3 DEF Ordered, ReapedInOrder, Reported
<1>9. ShellReports
  BY <1>1 DEF ShellReports
<1>10. Stops
  BY <1>2 DEF Stops, At
<1>11. ExitHeard
  BY <1>2 DEF ExitHeard
<1> QED BY <1>3, <1>4, <1>5, <1>6, <1>7, <1>8, <1>9, <1>10, <1>11 DEF IInv

LEMMA Stuttering == IInv /\ UNCHANGED vars => IInv'
<1> SUFFICES ASSUME IInv, UNCHANGED <<input, procs, reports>> PROVE IInv'
  BY DEF vars
<1>1. Children' = Children /\ \A p \in Children : WaitedOn(p)' <=> WaitedOn(p)
  BY DEF Children, WaitedOn, At
<1>2. Types' /\ Numbered'
  BY DEF IInv, Types, Bounded, Numbered, At
<1>3. ShellRuns' /\ ChildrenRun'
  BY <1>1 DEF IInv, ShellRuns, ChildrenRun, ChildRuns, At, Line
<1>4. Slots' /\ \A p \in Children' : Placed(p)'
  BY <1>1 DEF IInv, Slots, Holds, Placed, At
<1>5. Ordered' /\ ReapedInOrder'
  BY <1>1 DEF IInv, Ordered, ReapedInOrder, At
<1>6. ShellReports' /\ Reported'
  BY <1>1 DEF IInv, ShellReports, Reported, At
<1>7. Stops' /\ ExitHeard'
  BY DEF IInv, Stops, NoExit, ExitHeard, Readable, Refused, At, Line
<1> QED BY <1>2, <1>3, <1>4, <1>5, <1>6, <1>7 DEF IInv

LEMMA Absent ==
    ASSUME NEW p \in Pids, At(p, "none")
    PROVE  ~MainStep(p) /\ ~ChildStep(p)
BY DEF At, MainStep, ChildStep, ReadLine, ReadEof, Leave, Exit, Blank, Fork, ForkFails,
       AllStarted, SkipUnforked, WaitFails, WaitReturns, LineDone, Starting, Waiting,
       ExecFails, Exec, ProgramEnds

\* The shell itself is never in run_cmd: only a child is.
LEMMA ShellForksOnly == IInv => ~ChildStep(Shell)
BY DEF IInv, ShellRuns, ChildStep, ExecFails, Exec, ProgramEnds, At

LEMMA Invariance == Spec => []IInv
<1>1. IInv /\ [Next]_vars => IInv'
  <2> SUFFICES ASSUME IInv, [Next]_vars PROVE IInv'
    OBVIOUS
  <2>1. CASE UNCHANGED vars
    BY <2>1, Stuttering
  <2>2. CASE Rest
    BY <2>2, Stuttering DEF Rest
  <2>3. ASSUME NEW p \in Pids, MainStep(p) \/ ChildStep(p) PROVE IInv'
    <3>1. CASE p = Shell
      BY <2>3, <3>1, ShellSteps, ShellForksOnly
    <3>2. CASE p # Shell
      <4>1. p \in Children
        BY <2>3, <3>2, Absent DEF Children
      <4> QED BY <2>3, <4>1, ChildSteps
    <3> QED BY <3>1, <3>2
  <2> QED BY <2>1, <2>2, <2>3 DEF Next
<1> QED BY InitInvariant, <1>1, PTL DEF Spec

\* The types of the variables.
THEOREM TypeCorrect == Spec => []TypeOK
<1>1. IInv => TypeOK
  <2> SUFFICES ASSUME IInv PROVE TypeOK
    OBVIOUS
  <2>1. ASSUME NEW p \in Pids
        PROVE  /\ procs[p].pc \in Pcs
               /\ procs[p].parent \in 0 .. p - 1
               /\ procs[p].code \in Statuses
               /\ procs[p].line \in 0 .. Len(input.lines)
               /\ procs[p].i \in 1 .. Len(procs[p].pids) + 1
               /\ \A k \in DOMAIN procs[p].pids : procs[p].pids[k] \in Places
    <3>1. procs[p] \in Process /\ Bounded(p) /\ p \in Nat \ {0}
      BY PidsAreNumbers DEF IInv, Types
    <3>2. procs[p].pc \in Pcs /\ procs[p].code \in Statuses /\ procs[p].line \in Nat
          /\ procs[p].pids \in Seq(Places)
      BY <3>1 DEF Process
    <3>3. procs[p].parent \in 0 .. p - 1
      <4>1. CASE p = Shell
        BY <4>1 DEF IInv, ShellRuns, Shell
      <4>2. CASE p # Shell
        BY <3>1, <4>2 DEF Process, Shell
      <4> QED BY <4>1, <4>2
    <3>4. Len(input.lines) \in Nat
      BY LenProperties DEF IInv, Types
    <3> QED BY <3>1, <3>2, <3>3, <3>4, ElementOfSeq DEF Bounded
  <2>2. input.lines \in Seq(Lines) /\ input.cut \in BOOLEAN
        /\ reports \subseteq [by : Pids, on : Pids \cup {0}, status : Nat]
    BY DEF IInv, Types, Report
  <2> QED BY <2>1, <2>2 DEF TypeOK, Pcs, Statuses, Places
<1> QED BY Invariance, <1>1, PTL

\* A child that runs on in main after a failed execvp reads no line, forks nothing and
\* has no child to take a wait status of.
THEOREM OnlyTheShellServes == Spec => []OnlyShellServes
<1>1. IInv => OnlyShellServes
  BY DEF IInv, ChildrenRun, ChildRuns, OnlyShellServes
<1> QED BY Invariance, <1>1, PTL

\* The shell's error lines are the commands that ended with a status other than 0,
\* each under its own pid, and no child is left unwaited for at the next line.
THEOREM ReportsAreTrue == Spec => []ReportsTrue
<1>1. IInv => ReportsTrue
  <2> SUFFICES ASSUME IInv PROVE ReportsTrue
    OBVIOUS
  <2> DEFINE Said == {[on |-> r.on, status |-> r.status] : r \in {s \in reports : s.by = Shell}}
             True == {[on |-> p, status |-> procs[p].code] :
                         p \in {q \in Children : At(q, "reaped") /\ procs[q].code # 0}}
  <2>1. ASSUME NEW x \in Said PROVE x \in True
    <3>1. PICK r \in reports : r.by = Shell /\ x = [on |-> r.on, status |-> r.status]
      OBVIOUS
    <3>2. /\ r.on \in {q \in Children : At(q, "reaped") /\ procs[q].code # 0}
          /\ r.status = procs[r.on].code
      BY <3>1 DEF IInv, ShellReports
    <3>3. x = [on |-> r.on, status |-> procs[r.on].code]
      BY <3>1, <3>2
    <3> QED BY <3>2, <3>3
  <2>2. ASSUME NEW x \in True PROVE x \in Said
    <3>1. PICK p \in Children : /\ At(p, "reaped") /\ procs[p].code # 0
                                /\ x = [on |-> p, status |-> procs[p].code]
      OBVIOUS
    <3>2. PICK r \in reports : r.by = Shell /\ r.on = p /\ r.status = procs[p].code
      BY <3>1 DEF IInv, Reported
    <3>3. x = [on |-> r.on, status |-> r.status]
      BY <3>1, <3>2
    <3> QED BY <3>2, <3>3
  <2>3. Said = True
    BY <2>1, <2>2
  <2> HIDE DEF Said, True
  <2>4. ASSUME At(Shell, "read") \/ (At(Shell, "dead") /\ procs[Shell].code # Segfault),
               NEW p \in Children
        PROVE  At(p, "reaped")
    BY <2>4 DEF IInv, ReapedInOrder, WaitedOn
  <2> QED BY <2>3, <2>4 DEF ReportsTrue, Said, True
<1> QED BY Invariance, <1>1, PTL

\* The shell ends for the end of its input, an exit or a failed fork only, and reads
\* no line after one with an exit.
THEOREM StopsAsTold == Spec => []StopsWhenTold
<1>1. IInv => StopsWhenTold
  <2> SUFFICES ASSUME IInv PROVE StopsWhenTold
    OBVIOUS
  <2>1. ASSUME NEW k \in 1 .. procs[Shell].line - 1
        PROVE  "exit" \notin ToSet(input.lines[k])
    <3>1. NoExit(k)
      BY DEF IInv, Stops
    <3>2. k \in 1 .. Len(input.lines)
      <4>1. procs[Shell].line \in Nat /\ procs[Shell].line <= Len(input.lines)
        BY PidsAreNumbers DEF IInv, Types, Process, Bounded
      <4>2. Len(input.lines) \in Nat
        BY LenProperties DEF IInv, Types
      <4> QED BY <4>1, <4>2
    <3>3. DOMAIN input.lines[k] = 1 .. Len(input.lines[k])
      BY <3>2, LineTyped DEF IInv
    <3> QED BY <3>1, <3>3 DEF NoExit, ToSet
  <2> QED BY <2>1 DEF IInv, Stops, StopsWhenTold
<1> QED BY Invariance, <1>1, PTL

-----------------------------------------------------------------------------
(* The shell implements JobBatches                                         *)

\* A set of natural numbers that is not empty has a least element.
LEMMA LeastNumber ==
    ASSUME NEW S \in SUBSET Nat, S # {}
    PROVE  \E m \in S : \A n \in S : m <= n
<1>1. PICK x \in S : \A y \in S : ~(<<y, x>> \in OpToRel(<, Nat))
  BY NatLessThanWellFounded, WFMin
<1>2. \A y \in S : ~(y < x)
  BY <1>1 DEF OpToRel
<1> QED BY <1>2

\* The children are the pids after the shell's: their number is the last but one.
LEMMA ChildrenAreFirst ==
    ASSUME Numbered, ~At(Shell, "none")
    PROVE  CommandCount \in Nat /\ Children = 2 .. CommandCount + 1
<1>1. PICK m \in Nat : m = MaxLines * MaxCommands
  BY PidsAreNumbers
<1>2. Pids = 1 .. 1 + m
  BY <1>1 DEF Pids
<1> DEFINE Free == {p \in 1 .. m + 2 : p = m + 2 \/ At(p, "none")}
<1>3. Free \in SUBSET Nat /\ Free # {}
  OBVIOUS
<1>4. PICK least \in Free : \A n \in Free : least <= n
  <2> HIDE DEF Free
  <2> QED BY <1>3, LeastNumber
<1>5. least \in Nat /\ least >= 2
  BY <1>4 DEF Shell
<1>6. Children = 2 .. least - 1
  <2>1. ASSUME NEW p \in Children PROVE p \in 2 .. least - 1
    <3>1. p \in 1 .. 1 + m /\ p # 1 /\ ~At(p, "none")
      BY <1>2 DEF Children, Shell
    <3>2. p < least
      BY <1>2, <1>4, <3>1 DEF Numbered
    <3> QED BY <1>5, <3>1, <3>2
  <2>2. ASSUME NEW p \in 2 .. least - 1 PROVE p \in Children
    <3>1. p \in 1 .. 1 + m /\ p # 1 /\ p \notin Free
      BY <1>4, <1>5
    <3>2. ~At(p, "none")
      BY <3>1
    <3> QED BY <1>2, <3>1, <3>2 DEF Children, Shell
  <2> QED BY <2>1, <2>2
<1>7. Cardinality(2 .. least - 1) = least - 2
  BY <1>5, FS_Interval
<1> QED BY <1>5, <1>6, <1>7 DEF CommandCount

Jobs == (1 .. MaxLines) \X (1 .. MaxCommands)
Started == [k \in 1 .. CommandCount |-> procs[k + 1].job]
Live == {procs[p].job : p \in {q \in Children : ~Ended(q)}}

\* The places of the jobs, and that no two children have the same.
JobsTyped ==
    /\ \A p \in Children : procs[p].job \in Jobs
    /\ \A p, q \in Children : procs[p].job = procs[q].job => p = q
    /\ CommandCount \in Nat /\ Children = 2 .. CommandCount + 1
    /\ Started \in Seq(Jobs) /\ Len(Started) = CommandCount

LEMMA JobsAreTyped == IInv => JobsTyped
<1> SUFFICES ASSUME IInv PROVE JobsTyped
  OBVIOUS
<1>1. ASSUME NEW p \in Children PROVE procs[p].job \in Jobs /\ procs[p].job \in Nat \X Nat
  <2>1. procs[p].job \in Nat \X Nat /\ procs[Shell].line \in Nat
    BY PidsAreNumbers DEF IInv, Types, Process, Pairs
  <2>2. procs[Shell].line <= MaxLines
    BY <2>1, LenProperties, PidsAreNumbers DEF IInv, Types, Bounded
  <2>3. procs[p].job[1] \in 1 .. procs[Shell].line /\ procs[p].job[2] \in 1 .. MaxCommands
    BY DEF IInv, Placed
  <2> QED BY <2>1, <2>2, <2>3, PidsAreNumbers DEF Jobs
<1>2. ASSUME NEW p \in Children, NEW q \in Children, procs[p].job = procs[q].job
      PROVE  p = q
  <2>1. p \in Nat /\ q \in Nat
    BY PidsAreNumbers
  <2>2. ~Before(procs[p].job, procs[q].job) /\ ~Before(procs[q].job, procs[p].job)
    BY <1>1, <1>2 DEF Before
  <2> QED BY <2>1, <2>2 DEF IInv, Ordered
<1>3. CommandCount \in Nat /\ Children = 2 .. CommandCount + 1
  BY ChildrenAreFirst DEF IInv, ShellRuns, At
<1>4. \A k \in 1 .. CommandCount : k + 1 \in Children
  BY <1>3
<1>5. \A k \in 1 .. CommandCount : procs[k + 1].job \in Jobs
  BY <1>1, <1>4
<1>6. Started \in Seq(Jobs) /\ Len(Started) = CommandCount
  BY <1>3, <1>5 DEF Started
<1> QED BY <1>1, <1>2, <1>3, <1>6 DEF JobsTyped

LEMMA JobsStayTyped == IInv' => JobsTyped'
BY JobsAreTyped, PTL

\* A step that starts no job and ends none.
LEMMA NothingStarted ==
    ASSUME IInv, Children' = Children,
           \A p \in Children : procs'[p].job = procs[p].job /\ (Ended(p)' <=> Ended(p))
    PROVE  Started' = Started /\ Live' = Live
<1>1. CommandCount \in Nat /\ Children = 2 .. CommandCount + 1 /\ CommandCount' = CommandCount
  BY JobsAreTyped DEF JobsTyped, CommandCount
<1>2. \A k \in 1 .. CommandCount : procs'[k + 1].job = procs[k + 1].job
  BY <1>1
<1>3. Started' = Started
  BY <1>1, <1>2 DEF Started
<1>4. {q \in Children' : ~Ended(q)'} = {q \in Children : ~Ended(q)}
  OBVIOUS
<1>5. Live' = Live
  BY <1>4 DEF Live
<1> QED BY <1>3, <1>5

\* A child that ends is a job that finishes.
LEMMA OneFinishes ==
    ASSUME IInv, Children' = Children, NEW c \in Children, ~Ended(c), Ended(c)',
           \A p \in Children : procs'[p].job = procs[p].job,
           \A p \in Children : p # c => (Ended(p)' <=> Ended(p))
    PROVE  /\ Started' = Started /\ Live' = Live \ {procs[c].job}
           /\ procs[c].job \in Live /\ procs[c].job \in Jobs
<1>1. CommandCount \in Nat /\ Children = 2 .. CommandCount + 1 /\ CommandCount' = CommandCount
  BY JobsAreTyped DEF JobsTyped, CommandCount
<1>2. \A k \in 1 .. CommandCount : procs'[k + 1].job = procs[k + 1].job
  BY <1>1
<1>3. Started' = Started
  BY <1>1, <1>2 DEF Started
<1>4. \A p \in Children : procs[p].job = procs[c].job => p = c
  BY JobsAreTyped DEF JobsTyped
<1>5. {q \in Children' : ~Ended(q)'} = {q \in Children : ~Ended(q)} \ {c}
  OBVIOUS
<1>6. Live' = {procs[p].job : p \in {q \in Children : ~Ended(q)} \ {c}}
  BY <1>5 DEF Live
<1>7. Live' = Live \ {procs[c].job}
  BY <1>4, <1>6 DEF Live
<1> QED BY <1>3, <1>7, JobsAreTyped DEF JobsTyped, Live

LEMMA NextNumber ==
    ASSUME NEW n \in Nat, NEW m \in Nat, NEW q \in Nat, q \notin 2 .. n + 1,
           2 .. m + 1 = (2 .. n + 1) \cup {q}
    PROVE  m = n + 1 /\ q = n + 2
<1>1. q >= n + 2 /\ q <= m + 1
  <2>1. q \in 2 .. m + 1
    OBVIOUS
  <2> QED BY <2>1
<1>2. n + 2 \in 2 .. m + 1 /\ n + 2 \notin 2 .. n + 1
  BY <1>1
<1>3. q = n + 2
  BY <1>2
<1>4. n + 3 \notin (2 .. n + 1) \cup {q}
  BY <1>3
<1>5. n + 3 \notin 2 .. m + 1
  BY <1>4
<1> QED BY <1>1, <1>3, <1>5

\* A fork starts a job: a later one than those before, while only jobs of its line live.
LEMMA OneStarts ==
    ASSUME IInv, IInv', At(Shell, "start"), NEW q \in Pids, Forked(q)
    PROVE  \E j \in Jobs :
              /\ Started = <<>> \/ Before(Last(Started), j)
              /\ \A k \in Live : k[1] = j[1]
              /\ Started' = Append(Started, j)
              /\ Live' = Live \cup {j}
<1>1. JobsTyped /\ JobsTyped'
  BY JobsAreTyped, JobsStayTyped
<1> DEFINE j == procs'[q].job
<1>2. PICK n \in Nat : n = CommandCount
  BY <1>1 DEF JobsTyped
<1>3. PICK m \in Nat : m = CommandCount'
  BY <1>1 DEF JobsTyped
<1>4. /\ Children = 2 .. n + 1 /\ Children' = 2 .. m + 1
      /\ Started \in Seq(Jobs) /\ Len(Started) = n
      /\ Started' \in Seq(Jobs) /\ Len(Started') = m
      /\ \A p \in Children' : procs'[p].job \in Jobs
  BY <1>1, <1>2, <1>3 DEF JobsTyped
<1>5. q \notin Children /\ Children' = Children \cup {q} /\ q \in Nat
  BY PidsAreNumbers DEF Forked, Children
<1>6. m = n + 1 /\ q = n + 2
  <2>1. 2 .. m + 1 = (2 .. n + 1) \cup {q} /\ q \notin 2 .. n + 1
    BY <1>5, <1>4
  <2> QED BY <1>5, <2>1, NextNumber
<1>7. j \in Jobs /\ j[1] = procs[Shell].line /\ j[2] = procs[Shell].i
  BY <1>4, <1>5 DEF Forked
<1>8. \A p \in Children : procs'[p] = procs[p]
  BY DEF Forked
<1>9. Started' = Append(Started, j)
  <2>1. /\ Append(Started, j) \in Seq(Jobs) /\ Len(Append(Started, j)) = n + 1
        /\ \A k \in 1 .. n : Append(Started, j)[k] = Started[k]
        /\ Append(Started, j)[n + 1] = j
    BY <1>4, <1>7, AppendProperties
  <2>2. \A k \in 1 .. n : Started'[k] = Started[k]
    <3>1. ASSUME NEW k \in 1 .. n PROVE Started'[k] = Started[k]
      <4>1. k + 1 \in Children /\ k \in 1 .. m
        BY <1>4, <1>6
      <4>2. Started[k] = procs[k + 1].job /\ Started'[k] = procs'[k + 1].job
        BY <1>2, <1>3, <4>1 DEF Started
      <4> QED BY <1>8, <4>1, <4>2
    <3> QED BY <3>1
  <2>3. Started'[n + 1] = j
    <3>1. n + 1 \in 1 .. m
      BY <1>4, <1>6
    <3>2. Started'[n + 1] = procs'[(n + 1) + 1].job
      BY <1>3, <3>1 DEF Started
    <3> QED BY <1>4, <1>6, <3>2
  <2>4. \A k \in 1 .. n + 1 : Started'[k] = Append(Started, j)[k]
    BY <1>4, <2>1, <2>2, <2>3
  <2> HIDE DEF j
  <2> QED BY <1>4, <1>6, <2>1, <2>4, SeqEqual
<1>10. \A p \in Children : Before(procs[p].job, j)
  <2>1. ASSUME NEW p \in Children PROVE Before(procs[p].job, j)
    <3>1. procs[p].job[1] \in 1 .. procs[Shell].line
          /\ (procs[p].job[1] = procs[Shell].line => procs[p].job[2] < procs[Shell].i)
      BY DEF IInv, Placed
    <3>2. procs[Shell].line \in Nat
      BY PidsAreNumbers DEF IInv, Types, Process
    <3> QED BY <1>7, <3>1, <3>2 DEF Before
  <2> QED BY <2>1
<1>11. Started = <<>> \/ Before(Last(Started), j)
  <2>1. CASE n = 0
    BY <1>4, <2>1, EmptySeq
  <2>2. CASE n # 0
    <3>1. n \in 1 .. n /\ n + 1 \in Children
      BY <1>4, <2>2
    <3>2. Last(Started) = procs[n + 1].job
      BY <1>2, <1>4, <3>1 DEF Last, Started
    <3> QED BY <1>10, <3>1, <3>2
  <2> QED BY <2>1, <2>2
<1>12. \A k \in Live : k[1] = j[1]
  <2>1. ASSUME NEW p \in Children, ~Ended(p) PROVE procs[p].job[1] = j[1]
    <3>1. ~At(p, "reaped")
      BY <2>1 DEF Ended, At
    <3>2. ~(procs[p].job[1] < procs[Shell].line)
      BY <3>1 DEF IInv, ReapedInOrder, WaitedOn
    <3>3. procs[p].job[1] \in 1 .. procs[Shell].line /\ procs[Shell].line \in Nat
      BY PidsAreNumbers DEF IInv, Placed, Types, Process
    <3> QED BY <1>7, <3>2, <3>3
  <2> QED BY <2>1 DEF Live
<1>13. Live' = Live \cup {j}
  <2>1. ~Ended(q)' /\ \A p \in Children : Ended(p)' <=> Ended(p)
    BY <1>8 DEF Forked, Ended
  <2>2. {p \in Children' : ~Ended(p)'} = {p \in Children : ~Ended(p)} \cup {q}
    BY <1>5, <2>1
  <2>3. Live' = {procs'[p].job : p \in {r \in Children : ~Ended(r)} \cup {q}}
    BY <2>2 DEF Live
  <2> QED BY <1>8, <2>3 DEF Live
<1> QED BY <1>7, <1>9, <1>11, <1>12, <1>13

\* What the children's own steps leave alone, and which of them end one.
LEMMA ChildJob ==
    ASSUME IInv, NEW c \in Children, MainStep(c) \/ ChildStep(c)
    PROVE  /\ \A q \in Pids : q # c => procs'[q] = procs[q]
           /\ procs'[c].job = procs[c].job /\ procs'[c].pc # "none"
           /\ ~Ended(c)
<1>1. /\ c \in Pids /\ procs[c] \in Process /\ ChildRuns(c) /\ procs \in [Pids -> Process]
      /\ 0 \notin Pids
  BY PidsAreNumbers DEF IInv, Types, ChildrenRun
<1>2. ~ReadLine(c) /\ ~Exit(c) /\ ~Blank(c) /\ ~Fork(c) /\ ~ForkFails(c) /\ ~AllStarted(c)
  BY <1>1 DEF ReadLine, Exit, Blank, Fork, ForkFails, AllStarted, Starting, ChildRuns,
      At
<1>3. ~WaitReturns(c)
  BY NothingToWaitFor DEF WaitReturns
<1>4. CASE ReadEof(c)
  BY <1>1, <1>4 DEF ReadEof, At, Ended, Process
<1>5. CASE Leave(c)
  BY <1>1, <1>5 DEF Leave, At, Ended, Process
<1>6. CASE SkipUnforked(c)
  BY <1>1, <1>6 DEF SkipUnforked, Waiting, At, Ended, Process
<1>7. CASE WaitFails(c)
  <2>1. PICK pid : WaitedFor(c, pid, 0, procs[c].status) /\ procs[c].pc = "wait"
    BY <1>7 DEF WaitFails, Waiting, At
  <2>2. /\ \A q \in Pids : q # c => procs'[q] = procs[q]
        /\ procs'[c] = [procs[c] EXCEPT !.i = @ + 1, !.status = procs[c].status]
    BY <1>1, <2>1 DEF WaitedFor
  <2> QED BY <1>1, <2>1, <2>2 DEF Ended, Process
<1>8. CASE LineDone(c)
  BY <1>1, <1>8 DEF LineDone, At, Ended, Process
<1>9. CASE ExecFails(c)
  BY <1>1, <1>9 DEF ExecFails, At, Ended, Process
<1>10. CASE Exec(c)
  BY <1>1, <1>10 DEF Exec, At, Ended, Process
<1>11. CASE ProgramEnds(c)
  BY <1>1, <1>11 DEF ProgramEnds, At, Ended, Process
<1> QED
  BY <1>2, <1>3, <1>4, <1>5, <1>6, <1>7, <1>8, <1>9, <1>10, <1>11 DEF MainStep,
      ChildStep

\* What the shell's steps other than a fork leave alone.
LEMMA ShellJob ==
    ASSUME IInv, IInv', MainStep(Shell), ~Fork(Shell)
    PROVE  Started' = Started /\ Live' = Live
<1>1. Shell \in Pids /\ procs \in [Pids -> Process] /\ Children \subseteq Pids \ {Shell}
  BY PidsAreNumbers DEF IInv, Types
<1>2. CASE ~WaitReturns(Shell)
  <2>1. \A q \in Pids : q # Shell => procs'[q] = procs[q]
    <3>1. ~WaitFails(Shell)
      BY WaitFailsStep
    <3> QED BY <1>1, <1>2, <3>1 DEF MainStep, ReadLine, ReadEof, Leave, Exit, Blank,
        ForkFails,
                                   Stored, AllStarted, SkipUnforked, LineDone
  <2>2. Children' = Children
    BY <2>1 DEF Children, At
  <2> QED BY <1>1, <2>1, <2>2, NothingStarted DEF Ended
<1>3. CASE WaitReturns(Shell)
  <2>1. PICK pid \in PidsRead(Shell) :
           \E q \in Waitable(Shell, pid) :
              At(q, "dead") /\ WaitedFor(Shell, pid, q, procs[q].code)
    BY <1>3 DEF WaitReturns
  <2>2. PICK q \in Waitable(Shell, pid) :
           At(q, "dead") /\ WaitedFor(Shell, pid, q, procs[q].code)
    BY <2>1
  <2>3. q \in Pids /\ q # Shell /\ procs[q] \in Process
    BY <1>1, <2>2 DEF Waitable, At, IInv, ShellRuns
  <2>4. /\ \A r \in Pids : r # Shell /\ r # q => procs'[r] = procs[r]
        /\ procs'[q] = [procs[q] EXCEPT !.pc = "reaped"]
    BY <1>1, <2>2, <2>3 DEF WaitedFor
  <2>5. procs[q].pc = "dead" /\ procs'[q].pc = "reaped" /\ procs'[q].job = procs[q].job
    BY <2>2, <2>3, <2>4 DEF At, Process
  <2>6. Children' = Children
    BY <2>4, <2>5 DEF Children, At
  <2> QED BY <1>1, <2>4, <2>5, <2>6, NothingStarted DEF Ended
<1> QED BY <1>2, <1>3

\* The shell implements JobBatches: the commands of a line run concurrently, each is
\* started at most once and in the order of the input, and none before those of the
\* earlier lines have ended.
THEOREM RunsInBatches == Spec => BatchSpec
<1> USE DEF Jobs
<1>1. Init => Batches!Init
  <2> SUFFICES ASSUME Init PROVE Batches!Init
    OBVIOUS
  <2>1. JobsTyped /\ Children = {}
    <3>1. \A p \in Pids : p # Shell => procs[p].pc = "none"
      BY DEF Init, NoProc
    <3>2. Children = {}
      BY <3>1 DEF Children, At
    <3> QED BY <3>2, InitInvariant, JobsAreTyped
  <2>2. CommandCount = 0
    BY <2>1, FS_EmptySet DEF CommandCount
  <2>3. Started = <<>>
    BY <2>2, <2>1, EmptySeq DEF JobsTyped
  <2> QED BY <2>1, <2>3 DEF Batches!Init, Started
<1>2. IInv /\ IInv' /\ [Next]_vars => [Batches!Next]_(Batches!vars)
  <2> SUFFICES ASSUME IInv, IInv', [Next]_vars
               PROVE  Batches!Next \/ UNCHANGED Batches!vars
    OBVIOUS
  <2>1. ASSUME Started' = Started, Live' = Live PROVE UNCHANGED Batches!vars
    BY <2>1 DEF Batches!vars, Started, Live
  <2>2. CASE UNCHANGED vars
    <3>1. Children' = Children
      BY <2>2 DEF vars, Children, At
    <3>2. Started' = Started /\ Live' = Live
      BY <2>2, <3>1, NothingStarted DEF vars, Ended
    <3> QED BY <2>1, <3>2
  <2>3. CASE MainStep(Shell)
    <3>1. CASE Fork(Shell)
      <4>1. PICK q \in Pids : Forked(q)
        BY <3>1, ForkStep
      <4>2. At(Shell, "start")
        BY <3>1 DEF Fork, Starting
      <4>3. PICK j \in Jobs :
              /\ Started = <<>> \/ Before(Last(Started), j)
              /\ \A k \in Live : k[1] = j[1]
              /\ Started' = Append(Started, j)
              /\ Live' = Live \cup {j}
        BY <4>1, <4>2, OneStarts
      <4>4. Batches!Start(j)
        BY <4>3 DEF Batches!Start, Batches!Before, Batches!Last, Before, Last,
            Started, Live
      <4> QED BY <4>4 DEF Batches!Next
    <3>2. CASE ~Fork(Shell)
      BY <2>1, <2>3, <3>2, ShellJob
    <3> QED BY <3>1, <3>2
  <2>4. ASSUME NEW c \in Children, MainStep(c) \/ ChildStep(c)
        PROVE  Batches!Next \/ UNCHANGED Batches!vars
    <3>1. /\ \A q \in Pids : q # c => procs'[q] = procs[q]
          /\ procs'[c].job = procs[c].job /\ procs'[c].pc # "none" /\ ~Ended(c)
          /\ c \in Pids /\ Children \subseteq Pids
      BY <2>4, ChildJob, PidsAreNumbers
    <3>2. Children' = Children
      BY <3>1 DEF Children, At
    <3>3. CASE Ended(c)'
      <4>1. /\ Started' = Started /\ Live' = Live \ {procs[c].job}
            /\ procs[c].job \in Live /\ procs[c].job \in Jobs
        BY <3>1, <3>2, <3>3, OneFinishes DEF Ended
      <4>2. PICK j \in Jobs : j = procs[c].job
        BY <4>1
      <4>3. Batches!Finish(j)
        BY <4>1, <4>2 DEF Batches!Finish, Started, Live
      <4> QED BY <4>3 DEF Batches!Next
    <3>4. CASE ~Ended(c)'
      BY <2>1, <3>1, <3>2, <3>4, NothingStarted DEF Ended
    <3> QED BY <3>3, <3>4
  <2>5. ASSUME NEW p \in Pids, MainStep(p) \/ ChildStep(p)
        PROVE  Batches!Next \/ UNCHANGED Batches!vars
    <3>1. CASE p = Shell
      BY <2>3, <2>5, <3>1, ShellForksOnly
    <3>2. CASE p # Shell
      <4>1. p \in Children
        BY <2>5, <3>2, Absent DEF Children
      <4> QED BY <2>4, <2>5, <4>1
    <3> QED BY <3>1, <3>2
  <2> QED BY <2>2, <2>5 DEF Next, Rest
<1> QED BY <1>1, <1>2, Invariance, PTL DEF Spec, BatchSpec, Batches!BatchSpec
=============================================================================
