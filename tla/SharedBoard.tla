------------------------------ MODULE SharedBoard ------------------------------
(***************************************************************************)
(* stocks.c and client.c of lab 7: a process publishes transactions on a   *)
(* board in shared memory, and clients check and print it again and again. *)
(* publish takes write_sem and print_board takes reader_sem, so a client   *)
(* reads while the board is being shifted.                                 *)
(*                                                                         *)
(* An entry is its sequence number and its deal: company, price and amount,*)
(* which all come from one transaction and are denoted by its number.      *)
(* Assigning an entry is two steps, in either order: C does not say in     *)
(* which order the bytes of a struct are copied.                           *)
(*                                                                         *)
(* The semaphores are what sem_open makes of O_CREAT | O_EXCL and 1, and   *)
(* struct shared_boardd is struct shared_board: stocks.c says open for the *)
(* first and misspells the second, and does not compile for it.            *)
(***************************************************************************)
EXTENDS Integers, Sequences

CONSTANTS
  Rows,            \* entries of the board, 10
  Clients,
  MaxTransactions  \* bound: lines of the transactions file

ASSUME BoardAssumption ==
  /\ Rows \in Nat \ {0, 1}
  /\ MaxTransactions \in Nat

Row  == 0 .. Rows - 1
Part == {"seq", "deal"}
Empty == [seq |-> 0, deal |-> 0]

VARIABLES
  board,
  write_sem, reader_sem,
  published,   \* count in main: transactions read from the file
  publisher,   \* where publish is
  row,         \*   the entry it writes
  parts,       \*   the parts of it that are written
  client,      \* where each client is
  index,       \*   the entry it reads
  above,       \*   s in check_board
  errors,      \*   err in check_board
  printed,     \*   the part of the table it has printed
  quiet        \* history: nothing was published since it got reader_sem

writerVars == <<write_sem, published, publisher, row, parts>>
clientVars == <<reader_sem, client, index, above, errors, printed>>
boardVars  == <<board, writerVars, clientVars, quiet>>

(* create_board has run, and every client's get_board after it.             *)
BoardInit ==
  /\ board = [r \in Row |-> Empty]
  /\ write_sem = 1 /\ reader_sem = 1
  /\ published = 0
  /\ publisher = "main" /\ row = 0 /\ parts = {}
  /\ client = [t \in Clients |-> "main"]
  /\ index = [t \in Clients |-> 0]
  /\ above = [t \in Clients |-> 0]
  /\ errors = [t \in Clients |-> 0]
  /\ printed = [t \in Clients |-> <<>>]
  /\ quiet = [t \in Clients |-> FALSE]

-----------------------------------------------------------------------------
(* publish *)

Publishes ==
  /\ publisher = "main" /\ published < MaxTransactions
  /\ published' = published + 1
  /\ publisher' = "wait"
  /\ UNCHANGED <<board, write_sem, row, parts, clientVars, quiet>>

WriterEnters ==
  /\ publisher = "wait"
  /\ write_sem > 0 /\ write_sem' = write_sem - 1
  /\ publisher' = "shift" /\ row' = Rows - 1 /\ parts' = {}
  /\ quiet' = [t \in Clients |-> FALSE]
  /\ UNCHANGED <<board, published, clientVars>>

(* Row r gets part q of entry e. *)
Writes(r, q, e) ==
  /\ board' = [board EXCEPT ![r][q] = e[q]]
  /\ parts' = parts \cup {q}

(* Mutant: the entries are shifted from the top.                            *)
ShiftsDown(q) ==
  /\ publisher = "shift" /\ row > 0 /\ q \notin parts
  /\ Writes(Rows - row, q, board[Rows - row - 1])
  /\ UNCHANGED <<write_sem, published, publisher, row, clientVars, quiet>>

(* board[i] = board[i-1] *)
Shifts(q) ==
  /\ publisher = "shift" /\ row > 0 /\ q \notin parts
  /\ Writes(row, q, board[row - 1])
  /\ UNCHANGED <<write_sem, published, publisher, row, clientVars, quiet>>

(* Mutant: every other entry is shifted.                                    *)
NextRowByTwo ==
  /\ publisher = "shift" /\ row > 0 /\ parts = Part
  /\ row' = IF row > 1 THEN row - 2 ELSE 0
  /\ parts' = {}
  /\ UNCHANGED <<board, write_sem, published, publisher, clientVars, quiet>>

NextRow ==
  /\ publisher = "shift" /\ row > 0 /\ parts = Part
  /\ row' = row - 1 /\ parts' = {}
  /\ UNCHANGED <<board, write_sem, published, publisher, clientVars, quiet>>

Fills(q) ==
  /\ publisher = "shift" /\ row = 0 /\ q \notin parts
  /\ Writes(0, q, [seq |-> published, deal |-> published])
  /\ UNCHANGED <<write_sem, published, publisher, row, clientVars, quiet>>

WriterLeaves ==
  /\ publisher = "shift" /\ row = 0 /\ parts = Part
  /\ write_sem' = write_sem + 1
  /\ publisher' = "main" /\ parts' = {}
  /\ UNCHANGED <<board, published, row, clientVars, quiet>>

-----------------------------------------------------------------------------
(* print_board, and check_board, which it calls *)

ClientGoes(t, from, to) == client[t] = from /\ client' = [client EXCEPT ![t] = to]

ClientEnters(t) ==
  /\ ClientGoes(t, "main", "first")
  /\ reader_sem > 0 /\ reader_sem' = reader_sem - 1
  /\ quiet' = [quiet EXCEPT ![t] = publisher \in {"main", "wait"}]
  /\ UNCHANGED <<board, writerVars, index, above, errors, printed>>

ReadsFirst(t) ==
  /\ ClientGoes(t, "first", "compare")
  /\ above' = [above EXCEPT ![t] = board[0].seq]
  /\ index' = [index EXCEPT ![t] = 1]
  /\ UNCHANGED <<board, writerVars, reader_sem, errors, printed, quiet>>

Compares(t) ==
  /\ ClientGoes(t, "compare", "remember")
  /\ errors' = [errors EXCEPT ![t] =
       IF above[t] - 1 # board[index[t]].seq THEN @ + 1 ELSE @]
  /\ UNCHANGED <<board, writerVars, reader_sem, index, above, printed, quiet>>

(* s is read from the board again.  After the last entry print_board goes   *)
(* through the board from the start.                                        *)
Remembers(t) ==
  /\ client[t] = "remember"
  /\ above' = [above EXCEPT ![t] = board[index[t]].seq]
  /\ \/ /\ index[t] + 1 < Rows
        /\ ClientGoes(t, "remember", "compare")
        /\ index' = [index EXCEPT ![t] = @ + 1]
     \/ /\ index[t] + 1 = Rows
        /\ ClientGoes(t, "remember", "print")
        /\ index' = [index EXCEPT ![t] = 0]
  /\ UNCHANGED <<board, writerVars, reader_sem, errors, printed, quiet>>

(* C leaves the order in which printf's arguments are read open; here the   *)
(* number is read first, and company, price and amount, the deal, at once.  *)
PrintsSeq(t) ==
  /\ index[t] < Rows
  /\ ClientGoes(t, "print", "deal")
  /\ printed' = [printed EXCEPT ![t] =
       Append(@, [seq |-> board[index[t]].seq, deal |-> 0])]
  /\ UNCHANGED <<board, writerVars, reader_sem, index, above, errors, quiet>>

PrintsDeal(t) ==
  /\ ClientGoes(t, "deal", "print")
  /\ printed' = [printed EXCEPT ![t][index[t] + 1].deal = board[index[t]].deal]
  /\ index' = [index EXCEPT ![t] = @ + 1]
  /\ UNCHANGED <<board, writerVars, reader_sem, above, errors, quiet>>

(* Its variables end with the call, and the next one clears the screen.     *)
ClientLeaves(t) ==
  /\ index[t] = Rows
  /\ ClientGoes(t, "print", "main")
  /\ reader_sem' = reader_sem + 1
  /\ index' = [index EXCEPT ![t] = 0]
  /\ above' = [above EXCEPT ![t] = 0]
  /\ errors' = [errors EXCEPT ![t] = 0]
  /\ printed' = [printed EXCEPT ![t] = <<>>]
  /\ quiet' = [quiet EXCEPT ![t] = FALSE]
  /\ UNCHANGED <<board, writerVars>>

-----------------------------------------------------------------------------
Publisher ==
  \/ Publishes \/ WriterEnters \/ NextRow \/ WriterLeaves
  \/ \E q \in Part : Shifts(q) \/ Fills(q)

Client(t) ==
  \/ ClientEnters(t) \/ ReadsFirst(t) \/ Compares(t) \/ Remembers(t)
  \/ PrintsSeq(t) \/ PrintsDeal(t) \/ ClientLeaves(t)

BoardNext == Publisher \/ \E t \in Clients : Client(t)

BoardSpec == BoardInit /\ [][BoardNext]_boardVars

-----------------------------------------------------------------------------
(* A table a client prints may repeat a transaction or show half of one,    *)
(* but it skips none: between two neighbours no number is missing, nor any  *)
(* deal.  It is publish going from the last entry to the first, and clients *)
(* from the first to the last, that makes it so; the semaphores do not.     *)
NoneSkipped ==
  \A t \in Clients : \A n \in 1 .. Len(printed[t]) - 1 :
    /\ printed[t][n].seq - printed[t][n + 1].seq <= 1
    /\ n < index[t] => printed[t][n].deal - printed[t][n + 1].deal <= 1

(* How many transactions have been published to the end, and which of them  *)
(* entry r then shows. *)
Complete == IF publisher = "main" THEN published ELSE published - 1
Shown(r) == IF r < Complete THEN Complete - r ELSE 0

(* A client that got the semaphore and has not been disturbed since prints  *)
(* the last transactions.  check_board finds an error exactly when two      *)
(* entries or more have not been used yet: with Rows - 1 transactions the   *)
(* number 0 of the only unused one is what it looks for below number 1.     *)
QuietTableRight ==
  \A t \in Clients :
    quiet[t] =>
      /\ \A n \in 1 .. Len(printed[t]) :
           /\ printed[t][n].seq = Shown(n - 1)
           /\ n <= index[t] => printed[t][n].deal = Shown(n - 1)
      /\ client[t] \in {"print", "deal"} => (errors[t] = 0 <=> Complete >= Rows - 1)
=============================================================================
