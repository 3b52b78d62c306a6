------------------------------- MODULE Processes -------------------------------
(***************************************************************************)
(* The children of a shell: what fork, pipe, wait and exit do, as far as   *)
(* the shells of labs 2 and 3 use them, and the programs they run.         *)
(*                                                                         *)
(* A child is "forked" while it still runs the shell's code, "running" a   *)
(* program after exec, and a "zombie" from its end until the shell waits   *)
(* for it.  The table of processes and that of pipes have limits.          *)
(*                                                                         *)
(* Programs: "quick" ends by itself; "endless" writes to its output until  *)
(* the kernel ends it because nobody can read it; "drain" reads its input  *)
(* to the end, which comes when nobody can write to it any more; "none"    *)
(* does not exist.                                                         *)
(***************************************************************************)
EXTENDS Integers, FiniteSets, Sequences, FiniteSetsExt

CONSTANTS
  Pids,    \* numbers of processes the children can get
  Pipes,   \* pipes of the system
  Lines    \* what the user may type: sequences of words

ASSUME ProcessAssumption ==
  /\ Pids \subseteq Nat \ {0} /\ IsFiniteSet(Pids)
  /\ Pipes \subseteq Nat \ {0} /\ IsFiniteSet(Pipes)

(* The program a word names. *)
Program(word) == IF word \in {"quick", "endless", "drain"} THEN word ELSE "none"

Free == [state |-> "free", program |-> "none", holds |-> {}, keeps |-> {}]

VARIABLES
  child,       \* state, program and open pipe ends of each process; keeps
               \*   are the ends a forked child keeps as input or output
  shellHolds,  \* the pipe ends open in the shell
  sh,          \* where the shell is
  pid          \* the child the shell waits for

processVars == <<child, shellHolds, sh, pid>>

ProcessInit ==
  /\ child = [q \in Pids |-> Free]
  /\ shellHolds = {}
  /\ sh = "prompt" /\ pid = 0

Children == {q \in Pids : child[q].state # "free"}
Zombies  == {q \in Pids : child[q].state = "zombie"}

ReadEnd(x)  == <<x, "r">>
WriteEnd(x) == <<x, "w">>

Held == UNION {child[q].holds : q \in Pids} \cup shellHolds
FreePipes == {x \in Pipes : {ReadEnd(x), WriteEnd(x)} \cap Held = {}}

(* fork: the child has the open ends of the shell. *)
Forks(q, program, keeps) ==
  /\ q \notin Children
  /\ child' = [child EXCEPT ![q] =
       [state |-> "forked", program |-> program, holds |-> shellHolds, keeps |-> keeps]]

TableFull == Children = Pids

(* wait returns any child that has ended, or -1 if there is no child. *)
WaitResults == IF Children = {} THEN {-1} ELSE Zombies

Reaps(q) == child' = [r \in Pids |-> IF r = q THEN Free ELSE child[r]]

(* The end of the shell: its children go on, and nobody waits for them.     *)
ShellEnds(how) ==
  /\ sh' = how
  /\ shellHolds' = {}
  /\ child' = [q \in Pids |-> IF q \in Zombies THEN Free ELSE child[q]]

Running == sh \notin {"exit 0", "exit 1", "crash"}

Dead(q) == IF Running THEN [Free EXCEPT !.state = "zombie"] ELSE Free

(* Mutant: dup2 without the close of the other end.                         *)
ExecsUnclosed(q) ==
  /\ child[q].state = "forked"
  /\ child' = [child EXCEPT ![q] =
       IF @.program = "none" THEN Dead(q) ELSE [@ EXCEPT !.state = "running"]]
  /\ UNCHANGED <<shellHolds, sh, pid>>

(* A child puts its end of the pipe in the place of its input or output,    *)
(* closes the two it got, and runs its program, or exits if it cannot.      *)
Execs(q) ==
  /\ child[q].state = "forked"
  /\ child' = [child EXCEPT ![q] =
       IF @.program = "none" THEN Dead(q)
       ELSE [@ EXCEPT !.state = "running", !.holds = child[q].keeps]]
  /\ UNCHANGED <<shellHolds, sh, pid>>

(* What a program waits for before it ends. *)
MayEnd(q) ==
  \A x \in Pipes :
    /\ child[q].program = "drain" /\ ReadEnd(x) \in child[q].holds => WriteEnd(x) \notin Held
    /\ child[q].program = "endless" /\ WriteEnd(x) \in child[q].holds => ReadEnd(x) \notin Held

ProgramEnds(q) ==
  /\ child[q].state = "running"
  /\ MayEnd(q)
  /\ child' = [child EXCEPT ![q] = Dead(q)]
  /\ UNCHANGED <<shellHolds, sh, pid>>

-----------------------------------------------------------------------------
(* While the shell waits, the child it waits for has not been waited for    *)
(* yet, so wait never fails; back at the prompt it has, and no other        *)
(* child's end has been taken for it.  pid is 0 after a background command. *)
ForegroundWaited ==
  /\ sh = "wait" => pid \in Children
  /\ sh = "prompt" => pid \notin Children

(* Every program that can end does: no pipe end stays open that would hide  *)
(* the end of the input from a reader or the reader's end from a writer,    *)
(* in the foreground or not and also after the shell has gone.              *)
ProgramsEnd == \A q \in Pids : child[q].state = "running" ~> child[q].state # "running"

(* After a foreground command the prompt comes back.                        *)
PromptComesBack == sh = "wait" ~> sh = "prompt"
=============================================================================
