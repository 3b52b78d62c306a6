------------------------------ MODULE CharBuffer ------------------------------
(***************************************************************************)
(* demo.c of lab 5: one thread sends a text to another, character by       *)
(* character, through a circular buffer under a mutex and two condition    *)
(* variables.                                                              *)
(*                                                                         *)
(* pthread_cond_wait gives the mutex back and takes it again before it     *)
(* returns; it may also return without a signal.  A thread in it is at     *)
(* "wait" until something wakes it, then at "wake" until it has the mutex. *)
(***************************************************************************)
EXTENDS Naturals, Sequences

CONSTANTS
  N,        \* the size of the buffer
  Chars,    \* the characters
  NUL,      \* '\0'
  Text      \* what produtor sends before '\0'

ASSUME CharAssumption ==
  /\ N \in Nat \ {0}
  /\ NUL \in Chars
  /\ Text \in Seq(Chars \ {NUL})

CharThreads == {"produtor", "consumidor"}
Sent == Append(Text, NUL)

VARIABLES
  buffer, ocupados, c, p,   \* the circular buffer
  mtx,                      \* TRUE while a thread holds it
  doing,                    \* where each thread is
  chr,                      \* argument of produz, local of consumidor
  sent,                     \* how many characters produtor has sent
  stdout,                   \* what consumidor has printed
  demo                      \* where main is

ring     == <<buffer, ocupados, c, p>>
charVars == <<ring, mtx, doing, chr, sent, stdout, demo>>

CharInit ==
  /\ buffer = [k \in 0 .. N - 1 |-> NUL]
  /\ ocupados = 0 /\ c = 0 /\ p = 0
  /\ mtx = FALSE
  /\ doing = [t \in CharThreads |-> "none"]
  /\ chr = [t \in CharThreads |-> NUL]
  /\ sent = 0
  /\ stdout = <<>>
  /\ demo = "create_consumidor"

Moves(t, from, to) == doing[t] = from /\ doing' = [doing EXCEPT ![t] = to]

-----------------------------------------------------------------------------
(* produz and consome *)

(* Mutant: if instead of while.                                             *)
LocksOnce(t) ==
  /\ ~mtx /\ mtx' = TRUE
  /\ Moves(t, "lock", "test") \/ Moves(t, "wake", "use")
  /\ UNCHANGED <<ring, chr, sent, stdout, demo>>

Locks(t) ==
  /\ ~mtx /\ mtx' = TRUE
  /\ Moves(t, "lock", "test") \/ Moves(t, "wake", "test")
  /\ UNCHANGED <<ring, chr, sent, stdout, demo>>

(* FULLBUF for the producer, EMPTYBUF for the consumer.                     *)
MustWait(t) == IF t = "produtor" THEN ocupados = N ELSE ocupados = 0

Waits(t) ==
  /\ Moves(t, "test", "wait")
  /\ MustWait(t)
  /\ mtx' = FALSE
  /\ UNCHANGED <<ring, chr, sent, stdout, demo>>

Proceeds(t) ==
  /\ Moves(t, "test", "use")
  /\ ~MustWait(t)
  /\ UNCHANGED <<ring, mtx, chr, sent, stdout, demo>>

WakesUnasked(t) ==
  /\ Moves(t, "wait", "wake")
  /\ UNCHANGED <<ring, mtx, chr, sent, stdout, demo>>

putInBuffer ==
  /\ Moves("produtor", "use", "signal")
  /\ buffer' = [buffer EXCEPT ![p] = chr["produtor"]]
  /\ p' = (p + 1) % N
  /\ ocupados' = ocupados + 1
  /\ UNCHANGED <<c, mtx, chr, sent, stdout, demo>>

(* Mutant: the get index follows the put index.                             *)
getFromBufferLast ==
  /\ Moves("consumidor", "use", "signal")
  /\ chr' = [chr EXCEPT !["consumidor"] = buffer[(p + N - 1) % N]]
  /\ c' = (c + 1) % N
  /\ ocupados' = ocupados - 1
  /\ UNCHANGED <<buffer, p, mtx, sent, stdout, demo>>

getFromBuffer ==
  /\ Moves("consumidor", "use", "signal")
  /\ chr' = [chr EXCEPT !["consumidor"] = buffer[c]]
  /\ c' = (c + 1) % N
  /\ ocupados' = ocupados - 1
  /\ UNCHANGED <<buffer, p, mtx, sent, stdout, demo>>

Other(t) == IF t = "produtor" THEN "consumidor" ELSE "produtor"

(* Mutant: a thread signals its own condition variable.                     *)
SignalsItself(t) ==
  /\ Moves(t, "signal", "unlock")
  /\ UNCHANGED <<ring, mtx, chr, sent, stdout, demo>>

(* The thread that waits, if there is one, is the only other thread.        *)
Signals(t) ==
  /\ doing[t] = "signal"
  /\ doing' = [doing EXCEPT ![t] = "unlock",
                            ![Other(t)] = IF @ = "wait" THEN "wake" ELSE @]
  /\ UNCHANGED <<ring, mtx, chr, sent, stdout, demo>>

Unlocks(t) ==
  /\ Moves(t, "unlock", IF t = "produtor" THEN "out" ELSE "print")
  /\ mtx' = FALSE
  /\ UNCHANGED <<ring, chr, sent, stdout, demo>>

-----------------------------------------------------------------------------
(* The loops of produtor and consumidor. *)

Sends ==
  /\ sent < Len(Sent)
  /\ Moves("produtor", "out", "lock")
  /\ chr' = [chr EXCEPT !["produtor"] = Sent[sent + 1]]
  /\ sent' = sent + 1
  /\ UNCHANGED <<ring, mtx, stdout, demo>>

SentAll ==
  /\ sent = Len(Sent)
  /\ Moves("produtor", "out", "done")
  /\ UNCHANGED <<ring, mtx, chr, sent, stdout, demo>>

Receives ==
  /\ Moves("consumidor", "out", "lock")
  /\ UNCHANGED <<ring, mtx, chr, sent, stdout, demo>>

PrintsChar ==
  /\ chr["consumidor"] # NUL
  /\ Moves("consumidor", "print", "out")
  /\ stdout' = Append(stdout, chr["consumidor"])
  /\ UNCHANGED <<ring, mtx, chr, sent, demo>>

Stops ==
  /\ chr["consumidor"] = NUL
  /\ Moves("consumidor", "print", "done")
  /\ UNCHANGED <<ring, mtx, chr, sent, stdout, demo>>

(* main *)
DemoStep(from, to) ==
  demo = from /\ demo' = to /\ UNCHANGED <<ring, mtx, chr, sent, stdout>>

CreatesConsumidor ==
  DemoStep("create_consumidor", "create_produtor") /\ Moves("consumidor", "none", "out")

CreatesProdutor ==
  DemoStep("create_produtor", "join_consumidor") /\ Moves("produtor", "none", "out")

JoinsConsumidor ==
  /\ DemoStep("join_consumidor", "join_produtor")
  /\ doing["consumidor"] = "done" /\ UNCHANGED doing

JoinsProdutor ==
  /\ DemoStep("join_produtor", "returned")
  /\ doing["produtor"] = "done" /\ UNCHANGED doing

-----------------------------------------------------------------------------
ThreadStep(t) == Waits(t) \/ Proceeds(t) \/ Signals(t) \/ Unlocks(t)

Produtor   == Sends \/ SentAll \/ putInBuffer \/ ThreadStep("produtor")
Consumidor == Receives \/ PrintsChar \/ Stops \/ getFromBuffer \/ ThreadStep("consumidor")
DemoMain   == CreatesConsumidor \/ CreatesProdutor \/ JoinsConsumidor \/ JoinsProdutor

CharNext ==
  \/ Produtor \/ Consumidor \/ DemoMain
  \/ \E t \in CharThreads : Locks(t) \/ WakesUnasked(t)

(* The scheduler runs every thread that can run, and a thread that tries to *)
(* take the mutex, each time another gives it back, takes it in the end.    *)
CharFairness ==
  /\ WF_charVars(Produtor) /\ WF_charVars(Consumidor) /\ WF_charVars(DemoMain)
  /\ \A t \in CharThreads : SF_charVars(Locks(t))

CharSpec == CharInit /\ [][CharNext]_charVars /\ CharFairness
=============================================================================
