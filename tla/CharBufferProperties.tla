------------------------- MODULE CharBufferProperties -------------------------
(***************************************************************************)
(* Why the consumer of demo.c prints the text.                             *)
(***************************************************************************)
EXTENDS CharBuffer

(* No signal is lost: whoever waits has a reason to, or the thread that has *)
(* just taken the reason away is about to signal.  So the two never wait    *)
(* for each other.                                                          *)
NoLostWakeup ==
  /\ doing["consumidor"] = "wait" => ocupados = 0 \/ doing["produtor"] = "signal"
  /\ doing["produtor"] = "wait" => ocupados = N \/ doing["consumidor"] = "signal"

(* The characters in the buffer, from the get index on. *)
CharFifo == INSTANCE BlockFifo WITH
  Threads <- CharThreads,
  Blocks  <- Chars,
  maxsize <- N,
  queue   <- [k \in 1 .. ocupados |-> buffer[(c + k - 1) % N]],
  call    <- [t \in CharThreads |->
    CASE doing[t] \in {"none", "out", "print", "done"} -> [op |-> "none"]
      [] doing[t] \in {"lock", "test", "wait", "wake", "use"} ->
           IF t = "produtor" THEN [op |-> "put", block |-> chr[t]]
                             ELSE [op |-> "take"]
      [] OTHER -> IF t = "produtor" THEN [op |-> "put_done"]
                                    ELSE [op |-> "take_done", block |-> chr[t]]]

(* produz and consome are put and take of the same bounded first-in         *)
(* first-out queue as that of lab 6, whatever the wake-ups.                 *)
CharsImplementFifo == CharFifo!Spec

(* Once its threads are created the program ends, and has then printed the  *)
(* whole text: nobody waits for a signal that does not come.                *)
TextPrinted ==
  demo = "join_consumidor" ~> demo = "returned" /\ stdout = Text
=============================================================================
