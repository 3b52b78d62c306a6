--------------------------------- MODULE Sish ---------------------------------
(***************************************************************************)
(* sish.c of lab 3: a shell with pipes and background commands.            *)
(*                                                                         *)
(* A line is a sequence of words, a command is the program its first word  *)
(* names; what fgets and strtok do to get the words is left out.           *)
(***************************************************************************)
EXTENDS Processes

VARIABLES
  background,   \* of the command being run
  programs,     \* its programs: one, or those of the two ends of the pipe
  pipefd        \* the pipe, p in executePipe

commandVars == <<background, programs, pipefd>>
sishVars == <<processVars, commandVars>>

SishInit ==
  /\ ProcessInit
  /\ background = FALSE /\ programs = <<>> /\ pipefd = 0

-----------------------------------------------------------------------------
(* main *)

First(words) == IF words = <<>> THEN "none" ELSE Program(Head(words))

(* Each "|" ends the words before it: the first command and what follows    *)
(* the last "|" are run, commands between them are not.                     *)
Commands(words) ==
  LET bars == {n \in DOMAIN words : words[n] = "|"}
  IN  IF bars = {} THEN <<First(words)>>
      ELSE <<First(SubSeq(words, 1, Min(bars) - 1)),
             First(SubSeq(words, Max(bars) + 1, Len(words)))>>

ReadsLine(line) ==
  LET bg == line # <<>> /\ line[Len(line)] = "&"
      cmds == Commands(IF bg THEN SubSeq(line, 1, Len(line) - 1) ELSE line)
  IN  /\ sh = "prompt"
      /\ sh' = IF Len(cmds) = 1 THEN "simple" ELSE "pipe"
      /\ background' = bg
      /\ programs' = cmds
      /\ pid' = 0
      /\ UNCHANGED <<child, shellHolds, pipefd>>

(* An empty line has no last word: argv[-1] is read, whatever it is.        *)
CrashesOnEmptyLine ==
  /\ sh = "prompt" /\ <<>> \in Lines
  /\ ShellEnds("crash")
  /\ UNCHANGED <<pid, commandVars>>

ReadsExit ==
  /\ sh = "prompt"
  /\ ShellEnds("exit 0")
  /\ UNCHANGED <<pid, commandVars>>

-----------------------------------------------------------------------------
(* executeSimple and executePipe *)

AfterForks == IF background THEN "prompt" ELSE "wait"

(* The pid of a background command is forgotten. *)
Remember(q) == pid' = IF background THEN 0 ELSE q

ForksSimple(q) ==
  /\ sh = "simple"
  /\ Forks(q, programs[1], {})
  /\ Remember(q)
  /\ sh' = AfterForks
  /\ UNCHANGED <<shellHolds, commandVars>>

(* Which of the free pipes it is makes no difference. *)
MakesPipe ==
  /\ sh = "pipe" /\ FreePipes # {}
  /\ pipefd' = Min(FreePipes)
  /\ shellHolds' = {ReadEnd(pipefd'), WriteEnd(pipefd')}
  /\ sh' = "left"
  /\ UNCHANGED <<child, pid, background, programs>>

PipeFails ==
  /\ sh = "pipe" /\ FreePipes = {}
  /\ sh' = "prompt"
  /\ UNCHANGED <<child, shellHolds, pid, commandVars>>

ForksLeft(q) ==
  /\ sh = "left"
  /\ Forks(q, programs[1], {WriteEnd(pipefd)})
  /\ sh' = "right"
  /\ UNCHANGED <<shellHolds, pid, commandVars>>

ForksRight(q) ==
  /\ sh = "right"
  /\ Forks(q, programs[2], {ReadEnd(pipefd)})
  /\ Remember(q)
  /\ sh' = "close write end"
  /\ UNCHANGED <<shellHolds, commandVars>>

(* Mutant: the shell keeps the write end open.                              *)
KeepsWriteEnd ==
  /\ sh = "close write end"
  /\ sh' = "close read end"
  /\ UNCHANGED <<child, shellHolds, pid, commandVars>>

ClosesWriteEnd ==
  /\ sh = "close write end"
  /\ shellHolds' = shellHolds \ {WriteEnd(pipefd)}
  /\ sh' = "close read end"
  /\ UNCHANGED <<child, pid, commandVars>>

(* p is executePipe's own: what it says of the pipe is used no more.        *)
ClosesReadEnd ==
  /\ sh = "close read end"
  /\ shellHolds' = shellHolds \ {ReadEnd(pipefd)}
  /\ pipefd' = 0
  /\ sh' = AfterForks
  /\ UNCHANGED <<child, pid, background, programs>>

(* exit(1), in any of the three forks. *)
ForkFails ==
  /\ sh \in {"simple", "left", "right"} /\ TableFull
  /\ ShellEnds("exit 1")
  /\ UNCHANGED <<pid, commandVars>>

(* Mutant: any child that ends is taken for the command.                    *)
WaitsForAny ==
  /\ sh = "wait"
  /\ \E q \in WaitResults : sh' = "prompt" /\ Reaps(q)
  /\ UNCHANGED <<shellHolds, pid, commandVars>>

WaitsForCommand ==
  /\ sh = "wait"
  /\ \E q \in WaitResults :
       /\ sh' = IF q = pid \/ q = -1 THEN "prompt" ELSE "wait"
       /\ Reaps(q)
  /\ UNCHANGED <<shellHolds, pid, commandVars>>

-----------------------------------------------------------------------------
Child(q) == (Execs(q) \/ ProgramEnds(q)) /\ UNCHANGED commandVars

-----------------------------------------------------------------------------
Types == \E line \in Lines : ReadsLine(line)

Shell ==
  \/ MakesPipe \/ PipeFails \/ ClosesWriteEnd \/ ClosesReadEnd \/ ForkFails
  \/ WaitsForCommand
  \/ \E q \in Pids : ForksSimple(q) \/ ForksLeft(q) \/ ForksRight(q)

SishNext ==
  \/ Types \/ CrashesOnEmptyLine \/ ReadsExit \/ Shell
  \/ \E q \in Pids : Child(q)

(* The kernel runs every process that can run; the user need not type.      *)
SishFairness ==
  /\ WF_sishVars(Shell)
  /\ \A q \in Pids : WF_sishVars(Child(q))

SishSpec == SishInit /\ [][SishNext]_sishVars /\ SishFairness
=============================================================================
