------------------------------- MODULE SishFirst -------------------------------
(***************************************************************************)
(* sish.c of lab 2: a shell that runs the first word of a line, in the     *)
(* background when the word itself ends in an ampersand.                   *)
(*                                                                         *)
(* Lines start with their first word: what strtok does to get it is left   *)
(* out.                                                                    *)
(***************************************************************************)
EXTENDS Processes

VARIABLE cmd   \* program of the command being run, and whether it is bg

firstVars == <<processVars, cmd>>

FirstInit == ProcessInit /\ cmd = [program |-> "none", bg |-> FALSE]

(* The words with an ampersand at the end, and the programs they name. *)
Marked == [quick |-> "quick&", none |-> "&"]
MarkedWords == {Marked[name] : name \in DOMAIN Marked}

-----------------------------------------------------------------------------
(* main *)

ReadsCommand(line) ==
  /\ sh = "prompt" /\ line # <<>>
  /\ IF line[1] \in MarkedWords
     THEN \E name \in DOMAIN Marked :
            line[1] = Marked[name] /\ cmd' = [program |-> name, bg |-> TRUE]
     ELSE cmd' = [program |-> Program(line[1]), bg |-> FALSE]
  /\ sh' = "fork"
  /\ pid' = 0
  /\ UNCHANGED <<child, shellHolds>>

(* A line of blanks has no first word: strcmp gets a null pointer. *)
CrashesOnBlankLine ==
  /\ sh = "prompt"
  /\ ShellEnds("crash")
  /\ UNCHANGED <<pid, cmd>>

FirstReadsExit ==
  /\ sh = "prompt"
  /\ ShellEnds("exit 0")
  /\ UNCHANGED <<pid, cmd>>

-----------------------------------------------------------------------------
(* runcmd and waitloop *)

ForksCommand(q) ==
  /\ sh = "fork"
  /\ Forks(q, cmd.program, {})
  /\ pid' = IF cmd.bg THEN 0 ELSE q
  /\ sh' = IF cmd.bg THEN "prompt" ELSE "wait"
  /\ UNCHANGED <<shellHolds, cmd>>

ForkRefused ==
  /\ sh = "fork" /\ TableFull
  /\ sh' = "prompt"
  /\ UNCHANGED <<child, shellHolds, pid, cmd>>

WaitsForPid ==
  /\ sh = "wait"
  /\ \E q \in WaitResults :
       /\ sh' = IF q = pid THEN "prompt" ELSE "wait"
       /\ Reaps(q)
  /\ UNCHANGED <<shellHolds, pid, cmd>>

-----------------------------------------------------------------------------
FirstShell == ForkRefused \/ WaitsForPid \/ \E q \in Pids : ForksCommand(q)

FirstChild(q) == (Execs(q) \/ ProgramEnds(q)) /\ UNCHANGED cmd

FirstNext ==
  \/ \E line \in Lines : ReadsCommand(line)
  \/ CrashesOnBlankLine \/ FirstReadsExit \/ FirstShell
  \/ \E q \in Pids : FirstChild(q)

(* The kernel runs every process that can run; the user need not type.      *)
FirstFairness ==
  /\ WF_firstVars(FirstShell)
  /\ \A q \in Pids : WF_firstVars(FirstChild(q))
=============================================================================
