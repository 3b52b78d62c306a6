------------------------------ MODULE MCPrograms ------------------------------
(***************************************************************************)
(* The programs with threads, and those with processes, for TLC: the       *)
(* clients that share memory and the shells of labs 2 and 3.  They have    *)
(* nothing to do with each other: a behaviour is of one of them.           *)
(***************************************************************************)
EXTENDS CharBufferProperties, Turns, CountThrees, SharedBoard, Sish, SishFirst

CONSTANTS charA, charB

VARIABLE program

threadVars  == <<charVars, turnVars, countVars>>
shellVars   == <<processVars, commandVars, cmd>>
programVars == <<threadVars, boardVars, shellVars, program>>

SomeText == <<charA, charB, charB, charA, charA>>

SomeLines ==
  { <<>>, <<"&">>, <<"quick">>, <<"quick", "&">>, <<"quick&">>,
    <<"endless", "|", "quick">>, <<"missing", "|", "drain">>,
    <<"quick", "|", "drain", "&">>, <<"endless", "|", "missing", "|", "quick", "&">> }

Init ==
  /\ CharInit /\ TurnInit /\ BoardInit /\ SishInit /\ FirstInit
  /\ program \in {"demo", "conta", "lab-04p", "stocks", "lab-02", "lab-03"}
  /\ IF program = "lab-04p" THEN CountInit
     ELSE CountInit /\ array = [n \in 0 .. SIZE - 1 |-> 0] /\ nthreads = 1

(* The programs with threads end, and a shell with its children: only then  *)
(* may they stop.                                                           *)
Ended ==
  /\ \/ program = "demo" /\ demo = "returned"
     \/ program = "conta" /\ counts = "returned"
     \/ program = "lab-04p" /\ count3s \in {"returned", "refused"}
     \/ program \in {"lab-02", "lab-03"} /\ ~Running /\ Children = {}
  /\ UNCHANGED programVars

Next ==
  \/ Ended
  \/ /\ program = "demo" /\ CharNext
     /\ UNCHANGED <<turnVars, countVars, boardVars, shellVars, program>>
  \/ /\ program = "conta" /\ TurnNext
     /\ UNCHANGED <<charVars, countVars, boardVars, shellVars, program>>
  \/ /\ program = "lab-04p" /\ CountNext
     /\ UNCHANGED <<charVars, turnVars, boardVars, shellVars, program>>
  \/ /\ program = "stocks" /\ BoardNext
     /\ UNCHANGED <<threadVars, shellVars, program>>
  \/ /\ program = "lab-02" /\ FirstNext
     /\ UNCHANGED <<threadVars, boardVars, commandVars, program>>
  \/ /\ program = "lab-03" /\ SishNext
     /\ UNCHANGED <<threadVars, boardVars, cmd, program>>

(* That of the program that runs; two of them promise nothing.              *)
Fairness ==
  \/ program \in {"lab-04p", "stocks"}
  \/ program = "demo" /\ CharFairness
  \/ program = "conta" /\ TurnFairness
  \/ program = "lab-02" /\ FirstFairness
  \/ program = "lab-03" /\ SishFairness

Spec == Init /\ [][Next]_programVars /\ Fairness

===============================================================================
