----------------------------- MODULE ProcessProofs -----------------------------
(***************************************************************************)
(* The programs made of processes: the clients of the shared board of      *)
(* lab 7 skip no transaction, and print the last ones when nobody disturbs *)
(* them, for any number of rows, clients and transactions; the shells of   *)
(* labs 2 and 3 wait for their foreground command and for no other,        *)
(* whatever is typed and whatever the limits on processes and pipes.       *)
(***************************************************************************)
EXTENDS SharedBoard, Sish, SishFirst, SequenceTheorems, TLAPS

-----------------------------------------------------------------------------
(* The shared board *)

(* Both parts of an entry are numbers. *)
Entry == [Part -> Nat]

BoardTypeOK ==
  /\ board \in [Row -> Entry]
  /\ published \in Nat
  /\ publisher \in {"main", "wait", "shift"}
  /\ row \in Row
  /\ parts \subseteq Part
  /\ client \in [Clients -> {"main", "first", "compare", "remember", "print", "deal"}]
  /\ index \in [Clients -> 0 .. Rows]
  /\ printed \in [Clients -> Seq(Entry)]

(* Going down the board the numbers fall by one at most. *)
Falling ==
  \A r \in Row, q \in Part :
    r + 1 \in Row => /\ board[r + 1][q] <= board[r][q]
                     /\ board[r][q] <= board[r + 1][q] + 1

(* How far publish is: the rows below the one it writes are what was above  *)
(* them, and so is that row as far as it is written.                        *)
Shifting ==
  /\ publisher = "main" => \A q \in Part : board[0][q] = published
  /\ publisher = "wait" => \A q \in Part : board[0][q] + 1 = published
  /\ publisher = "shift" => \A q \in Part :
       /\ row + 1 \in Row /\ q \notin parts => board[row + 1][q] = board[row][q]
       /\ row > 0 /\ q \in parts => board[row][q] = board[row - 1][q]
       /\ board[0][q] = IF row = 0 /\ q \in parts THEN published ELSE published - 1

(* A row that was printed has not gone back since.                          *)
Reading ==
  \A t \in Clients :
    /\ client[t] = "compare" => index[t] \in 1 .. Rows - 1
    /\ client[t] = "remember" => index[t] \in 1 .. Rows - 1
    /\ client[t] = "deal" => index[t] < Rows
    /\ Len(printed[t]) = CASE client[t] = "print" -> index[t]
                           [] client[t] = "deal" -> index[t] + 1
                           [] OTHER -> 0
    /\ \A n \in 1 .. Len(printed[t]) :
         /\ printed[t][n].seq <= board[n - 1].seq
         /\ n <= index[t] => printed[t][n].deal <= board[n - 1].deal

BoardInv == BoardTypeOK /\ Falling /\ Shifting /\ Reading /\ NoneSkipped

LEMMA BoardInvInit == BoardInit => BoardInv
<1> SUFFICES ASSUME BoardInit PROVE BoardInv
  OBVIOUS
<1> USE BoardAssumption DEF BoardInit
<1>1. BoardTypeOK
  BY DEF BoardTypeOK, Entry, Empty, Row, Part
<1>2. Falling /\ Shifting
  BY DEF Falling, Shifting, Empty, Row, Part
<1>3. Reading /\ NoneSkipped
  BY DEF Reading, NoneSkipped
<1> QED
  BY <1>1, <1>2, <1>3 DEF BoardInv

(* When the rows only grow, what clients have printed stays behind them.    *)
LEMMA ReadingLater ==
  ASSUME BoardInv, BoardTypeOK', UNCHANGED clientVars,
         \A r \in Row, q \in Part : board[r][q] <= board'[r][q]
  PROVE  Reading' /\ NoneSkipped'
<1>1. \A t \in Clients : \A n \in 1 .. Len(printed[t]) : n - 1 \in Row /\ printed[t][n] \in Entry
  BY BoardAssumption DEF BoardInv, BoardTypeOK, Reading, Row
<1>2. Reading'
  <2> SUFFICES ASSUME NEW t \in Clients, NEW n \in 1 .. Len(printed[t])
               PROVE  /\ printed[t][n].seq <= board'[n - 1].seq
                      /\ n <= index[t] => printed[t][n].deal <= board'[n - 1].deal
    BY DEF BoardInv, Reading, clientVars
  <2>1. /\ printed[t][n].seq <= board[n - 1].seq
        /\ n <= index[t] => printed[t][n].deal <= board[n - 1].deal
    BY DEF BoardInv, Reading
  <2>2. /\ board[n - 1].seq <= board'[n - 1].seq
        /\ board[n - 1].deal <= board'[n - 1].deal
    BY <1>1 DEF Part
  <2>3. printed[t][n] \in Entry /\ board[n - 1] \in Entry /\ board'[n - 1] \in Entry
    BY <1>1 DEF BoardInv, BoardTypeOK
  <2> QED
    BY <2>1, <2>2, <2>3 DEF Entry, Part
<1>3. NoneSkipped'
  BY DEF BoardInv, NoneSkipped, clientVars
<1> QED BY <1>2, <1>3

-----------------------------------------------------------------------------
(* The publisher *)

(* A step of the publisher that leaves the board alone. *)
LEMMA SameBoard ==
  ASSUME BoardInv, BoardTypeOK', UNCHANGED <<board, clientVars>>, Shifting'
  PROVE  BoardInv'
<1>1. Falling'
  BY DEF BoardInv, Falling
<1>2. \A r \in Row, q \in Part : board[r][q] <= board'[r][q]
  BY DEF BoardInv, BoardTypeOK, Entry, Part
<1> QED
  BY <1>1, <1>2, ReadingLater DEF BoardInv

LEMMA WritesEntry ==
  ASSUME BoardTypeOK, NEW r \in Row, NEW q \in Part, NEW e \in Entry, Writes(r, q, e)
  PROVE  /\ board' \in [Row -> Entry]
         /\ parts' \subseteq Part
         /\ \A s \in Row, u \in Part :
              board'[s][u] = IF s = r /\ u = q THEN e[q] ELSE board[s][u]
  BY DEF BoardTypeOK, Writes, Entry, Part

LEMMA PublisherInv ==
  ASSUME BoardInv, Publisher
  PROVE  BoardInv'
<1> USE BoardAssumption DEF BoardInv
<1>1. CASE Publishes
  BY <1>1, SameBoard DEF Publishes, BoardTypeOK, Shifting, clientVars, Entry, Part
<1>2. CASE WriterEnters
  <2>1. BoardTypeOK'
    BY <1>2 DEF WriterEnters, BoardTypeOK, clientVars, Row
  <2>2. /\ Rows - 1 # 0 /\ Rows \notin Row /\ (Rows - 1) + 1 = Rows
        /\ published - 1 \in Int
        /\ \A q \in Part : board[0][q] = published - 1
    BY <1>2 DEF WriterEnters, BoardTypeOK, Shifting, Entry, Row
  <2>3. Shifting'
    BY <1>2, <2>2 DEF WriterEnters, Shifting
  <2> QED
    BY <1>2, <2>1, <2>3, SameBoard DEF WriterEnters
<1>3. CASE NextRow
  <2>1. BoardTypeOK'
    BY <1>3 DEF NextRow, BoardTypeOK, clientVars, Row
  <2>2. Shifting'
    BY <1>3 DEF NextRow, BoardTypeOK, Shifting, Part, Entry, Row
  <2> QED
    BY <1>3, <2>1, <2>2, SameBoard DEF NextRow
<1>4. CASE WriterLeaves
  BY <1>4, SameBoard DEF WriterLeaves, BoardTypeOK, Shifting, clientVars, Entry, Part, Row
<1>5. ASSUME NEW q \in Part, Shifts(q) PROVE BoardInv'
  <2>1. row \in Row /\ row - 1 \in Row /\ row > 0 /\ board[row - 1] \in Entry
    BY <1>5 DEF Shifts, BoardTypeOK, Row
  <2>2. /\ board' \in [Row -> Entry]
        /\ parts' = parts \cup {q}
        /\ \A s \in Row, u \in Part :
             board'[s][u] = IF s = row /\ u = q THEN board[row - 1][q] ELSE board[s][u]
    <3>1. Writes(row, q, board[row - 1])
      BY <1>5 DEF Shifts
    <3>2. parts' = parts \cup {q}
      BY <3>1 DEF Writes
    <3> QED BY <2>1, <3>1, <3>2, WritesEntry
  <2>3. \A s \in Row, u \in Part : board[s][u] \in Nat
    BY DEF BoardTypeOK, Entry, Part
  <2>4. BoardTypeOK'
    BY <1>5, <2>2 DEF Shifts, BoardTypeOK, clientVars
  <2>5. /\ board[row][q] <= board[row - 1][q]
        /\ board[row - 1][q] <= board[row][q] + 1
    <3>1. (row - 1) + 1 = row
      BY <2>1 DEF Row
    <3> QED BY <2>1, <3>1 DEF Falling
  <2>6. row + 1 \in Row => board[row + 1][q] = board[row][q]
    BY <1>5, <2>1 DEF Shifts, Shifting
  <2>7. Falling'
    <3> SUFFICES ASSUME NEW s \in Row, NEW u \in Part, s + 1 \in Row
                 PROVE  /\ board'[s + 1][u] <= board'[s][u]
                        /\ board'[s][u] <= board'[s + 1][u] + 1
      BY DEF Falling
    <3>1. /\ board[s + 1][u] <= board[s][u]
          /\ board[s][u] <= board[s + 1][u] + 1
      BY DEF Falling
    <3>2. s \in Int /\ row \in Int /\ s # s + 1
      BY <2>1 DEF Row
    <3>3. CASE u # q
      BY <2>2, <3>1, <3>3
    <3>4. CASE u = q /\ s = row
      BY <2>1, <2>2, <2>3, <2>5, <2>6, <3>2, <3>4
    <3>5. CASE u = q /\ s + 1 = row
      <4>1. s = row - 1 /\ s # row
        BY <3>2, <3>5
      <4>2. board'[s][u] = board[s][u] /\ board'[s + 1][u] = board[s][u]
        BY <2>2, <3>5, <4>1
      <4> QED BY <2>3, <4>2
    <3>6. CASE u = q /\ s # row /\ s + 1 # row
      BY <2>2, <3>1, <3>6
    <3> QED BY <3>3, <3>4, <3>5, <3>6
  <2>8. Shifting'
    <3>1. publisher = "shift" /\ publisher' = publisher /\ row' = row /\ published' = published
      BY <1>5 DEF Shifts
    <3> SUFFICES ASSUME NEW u \in Part
                 PROVE  /\ row + 1 \in Row /\ u \notin parts' => board'[row + 1][u] = board'[row][u]
                        /\ u \in parts' => board'[row][u] = board'[row - 1][u]
                        /\ board'[0][u] = published - 1
      BY <2>1, <3>1 DEF Shifting
    <3>2. /\ row + 1 \in Row /\ u \notin parts => board[row + 1][u] = board[row][u]
          /\ u \in parts => board[row][u] = board[row - 1][u]
          /\ board[0][u] = published - 1
      BY <2>1, <3>1 DEF Shifting
    <3>3. row \in Int /\ row # row - 1 /\ row # row + 1 /\ row # 0 /\ 0 \in Row
      BY <2>1 DEF Row
    <3>4. CASE u = q
      BY <2>1, <2>2, <3>2, <3>3, <3>4
    <3>5. CASE u # q
      BY <2>1, <2>2, <3>2, <3>3, <3>5
    <3> QED BY <3>4, <3>5
  <2>9. Reading' /\ NoneSkipped'
    BY <1>5, <2>1, <2>2, <2>3, <2>4, <2>5, ReadingLater DEF Shifts
  <2> QED
    BY <2>4, <2>7, <2>8, <2>9
<1>6. ASSUME NEW q \in Part, Fills(q) PROVE BoardInv'
  <2> DEFINE e == [seq |-> published, deal |-> published]
  <2>1. 0 \in Row /\ 1 \in Row /\ row = 0 /\ e \in Entry /\ e[q] = published
    BY <1>6 DEF Fills, BoardTypeOK, Entry, Part, Row
  <2>2. /\ board' \in [Row -> Entry]
        /\ parts' = parts \cup {q}
        /\ \A s \in Row, u \in Part :
             board'[s][u] = IF s = 0 /\ u = q THEN published ELSE board[s][u]
    <3>1. Writes(0, q, e)
      BY <1>6 DEF Fills
    <3>2. parts' = parts \cup {q}
      BY <3>1 DEF Writes
    <3> HIDE DEF e
    <3> QED BY <2>1, <3>1, <3>2, WritesEntry
  <2>3. \A s \in Row, u \in Part : board[s][u] \in Nat
    BY DEF BoardTypeOK, Entry, Part
  <2>4. BoardTypeOK'
    BY <1>6, <2>2 DEF Fills, BoardTypeOK, clientVars
  <2>5. board[0][q] = published - 1 /\ board[1][q] = board[0][q]
    BY <1>6, <2>1, <2>3 DEF Fills, Shifting
  <2>6. published \in Nat
    BY DEF BoardTypeOK
  <2>7. Falling'
    <3> SUFFICES ASSUME NEW s \in Row, NEW u \in Part, s + 1 \in Row
                 PROVE  /\ board'[s + 1][u] <= board'[s][u]
                        /\ board'[s][u] <= board'[s + 1][u] + 1
      BY DEF Falling
    <3>1. /\ board[s + 1][u] <= board[s][u]
          /\ board[s][u] <= board[s + 1][u] + 1
      BY DEF Falling
    <3>2. s \in Nat /\ s + 1 # 0
      BY DEF Row
    <3>3. board'[s + 1][u] = board[s + 1][u]
      BY <2>2, <3>2
    <3>4. CASE u = q /\ s = 0
      BY <2>2, <2>3, <2>5, <2>6, <3>3, <3>4
    <3>5. CASE u # q \/ s # 0
      BY <2>2, <3>1, <3>3, <3>5
    <3> QED BY <3>4, <3>5
  <2>8. Shifting'
    BY <1>6, <2>1, <2>2, <2>3, <2>6 DEF Fills, Shifting, Row
  <2>9. Reading' /\ NoneSkipped'
    BY <1>6, <2>1, <2>2, <2>3, <2>4, <2>5, <2>6, ReadingLater DEF Fills
  <2> QED
    BY <2>4, <2>7, <2>8, <2>9
<1> QED
  BY <1>1, <1>2, <1>3, <1>4, <1>5, <1>6 DEF Publisher

-----------------------------------------------------------------------------
(* The clients *)

(* A client that prints nothing. *)
LEMMA NothingPrinted ==
  ASSUME BoardInv, NEW t \in Clients, UNCHANGED <<board, writerVars, printed>>,
         NEW state \in {"main", "first", "compare", "remember", "print", "deal"},
         client' = [client EXCEPT ![t] = state],
         NEW next \in 0 .. Rows, index' = [index EXCEPT ![t] = next],
         Len(printed[t]) = 0,
         state \in {"compare", "remember"} => next \in 1 .. Rows - 1,
         state # "deal", state = "print" => next = 0
  PROVE  BoardInv'
<1> USE DEF BoardInv
<1>1. BoardTypeOK'
  BY DEF BoardTypeOK, writerVars
<1>2. Falling' /\ Shifting' /\ NoneSkipped'
  <2>1. Falling' /\ Shifting'
    BY DEF Falling, Shifting, writerVars
  <2>2. NoneSkipped'
    <3> SUFFICES ASSUME NEW u \in Clients, NEW n \in 1 .. Len(printed[u]) - 1
                 PROVE  /\ printed[u][n].seq - printed[u][n + 1].seq <= 1
                        /\ n < index'[u] => printed[u][n].deal - printed[u][n + 1].deal <= 1
      BY DEF NoneSkipped
    <3>1. u # t
      OBVIOUS
    <3>2. index'[u] = index[u]
      BY <3>1 DEF BoardTypeOK
    <3> QED BY <3>2 DEF NoneSkipped
  <2> QED BY <2>1, <2>2
<1>3. Reading'
  <2> SUFFICES ASSUME NEW u \in Clients
               PROVE  /\ client'[u] = "compare" => index'[u] \in 1 .. Rows - 1
                      /\ client'[u] = "remember" => index'[u] \in 1 .. Rows - 1
                      /\ client'[u] = "deal" => index'[u] < Rows
                      /\ Len(printed[u]) = CASE client'[u] = "print" -> index'[u]
                                             [] client'[u] = "deal" -> index'[u] + 1
                                             [] OTHER -> 0
                      /\ \A n \in 1 .. Len(printed[u]) :
                           /\ printed[u][n].seq <= board[n - 1].seq
                           /\ n <= index'[u] => printed[u][n].deal <= board[n - 1].deal
    BY DEF Reading
  <2>1. CASE u = t
    BY <2>1 DEF BoardTypeOK
  <2>2. CASE u # t
    BY <2>2 DEF BoardTypeOK, Reading
  <2> QED BY <2>1, <2>2
<1> QED BY <1>1, <1>2, <1>3

(* What a client's printed table has to satisfy for the client's sake. *)
ClientTableOK(t) ==
  /\ client[t] = "compare" => index[t] \in 1 .. Rows - 1
  /\ client[t] = "remember" => index[t] \in 1 .. Rows - 1
  /\ client[t] = "deal" => index[t] < Rows
  /\ Len(printed[t]) = CASE client[t] = "print" -> index[t]
                         [] client[t] = "deal" -> index[t] + 1
                         [] OTHER -> 0
  /\ \A n \in 1 .. Len(printed[t]) :
       /\ printed[t][n].seq <= board[n - 1].seq
       /\ n <= index[t] => printed[t][n].deal <= board[n - 1].deal
  /\ \A n \in 1 .. Len(printed[t]) - 1 :
       /\ printed[t][n].seq - printed[t][n + 1].seq <= 1
       /\ n < index[t] => printed[t][n].deal - printed[t][n + 1].deal <= 1

(* A step of client t concerns no other client. *)
LEMMA OneTable ==
  ASSUME BoardInv, BoardTypeOK', NEW t \in Clients, UNCHANGED <<board, writerVars>>,
         \A u \in Clients \ {t} :
           client'[u] = client[u] /\ index'[u] = index[u] /\ printed'[u] = printed[u],
         ClientTableOK(t)'
  PROVE  BoardInv'
<1>1. Falling' /\ Shifting'
  BY DEF BoardInv, Falling, Shifting, writerVars
<1>2. \A u \in Clients : ClientTableOK(u)'
  <2> SUFFICES ASSUME NEW u \in Clients, u # t PROVE ClientTableOK(u)'
    OBVIOUS
  <2>1. ClientTableOK(u)
    BY DEF BoardInv, Reading, NoneSkipped, ClientTableOK
  <2> QED
    BY <2>1 DEF ClientTableOK
<1>3. Reading' /\ NoneSkipped'
  BY <1>2 DEF Reading, NoneSkipped, ClientTableOK
<1> QED BY <1>1, <1>3 DEF BoardInv

LEMMA ClientLeavesInv ==
  ASSUME BoardInv, NEW t \in Clients, ClientLeaves(t)
  PROVE  BoardInv'
<1>1. BoardTypeOK'
  BY BoardAssumption DEF BoardInv, BoardTypeOK, ClientLeaves, ClientGoes, writerVars
<1>2. client'[t] = "main" /\ printed'[t] = <<>>
  BY DEF BoardInv, BoardTypeOK, ClientLeaves, ClientGoes
<1>3. ClientTableOK(t)'
  BY <1>2 DEF ClientTableOK
<1> QED
  BY <1>1, <1>3, OneTable DEF BoardInv, BoardTypeOK, ClientLeaves, ClientGoes

LEMMA EntryParts ==
  ASSUME NEW e \in Entry
  PROVE  e.seq \in Nat /\ e.deal \in Nat
  BY DEF Entry, Part

LEMMA PrintsSeqInv ==
  ASSUME BoardInv, NEW t \in Clients, PrintsSeq(t)
  PROVE  BoardInv'
<1> DEFINE i == index[t]
           new == [seq |-> board[i].seq, deal |-> 0]
<1>1. i \in Nat /\ i < Rows /\ i \in Row /\ Len(printed[t]) = i
  BY BoardAssumption DEF BoardInv, BoardTypeOK, Reading, PrintsSeq, ClientGoes, Row
<1>2. board[i] \in Entry /\ new \in Entry /\ printed[t] \in Seq(Entry)
  BY <1>1 DEF BoardInv, BoardTypeOK, Entry, Part
<1>3. /\ client'[t] = "deal" /\ index'[t] = i /\ printed'[t] = Append(printed[t], new)
      /\ board' = board /\ printed' = [printed EXCEPT ![t] = Append(printed[t], new)]
  BY DEF BoardInv, BoardTypeOK, PrintsSeq, ClientGoes
<1>n. new.seq = board[i].seq /\ i = index[t]
  OBVIOUS
<1> HIDE DEF i, new
<1>4. Append(printed[t], new) \in Seq(Entry)
  BY <1>2, AppendProperties
<1>5. BoardTypeOK'
  <2>1. printed' \in [Clients -> Seq(Entry)]
    BY <1>3, <1>4 DEF BoardInv, BoardTypeOK
  <2> QED
    BY <2>1 DEF BoardInv, BoardTypeOK, PrintsSeq, ClientGoes, writerVars
<1>6. /\ Len(printed'[t]) = i + 1
      /\ printed'[t][i + 1] = new
      /\ \A n \in 1 .. i : printed'[t][n] = printed[t][n]
  BY <1>1, <1>2, <1>3, AppendProperties
<1>7. \A n \in 1 .. i : /\ printed[t][n] \in Entry
                       /\ printed[t][n].seq <= board[n - 1].seq
                       /\ printed[t][n].deal <= board[n - 1].deal
  <2> TAKE n \in 1 .. i
  <2>1. n \in 1 .. Len(printed[t]) /\ n <= index[t]
    BY <1>1, <1>n
  <2>2. printed[t][n] \in Entry
    BY <1>2, <2>1
  <2> QED BY <2>1, <2>2 DEF BoardInv, Reading
<1>8. i > 0 => /\ i - 1 \in Row /\ board[i - 1] \in Entry
               /\ board[i - 1].seq <= board[i].seq + 1
  <2>1. i > 0 => i - 1 \in Row /\ (i - 1) + 1 = i
    BY <1>1, BoardAssumption DEF Row
  <2> QED BY <1>1, <2>1 DEF BoardInv, BoardTypeOK, Falling, Part
<1>9. ClientTableOK(t)'
  <2>1. \A n \in 1 .. i + 1 :
          /\ printed'[t][n].seq <= board[n - 1].seq
          /\ n <= i => printed'[t][n].deal <= board[n - 1].deal
    <3> SUFFICES ASSUME NEW n \in 1 .. i + 1
                 PROVE  /\ printed'[t][n].seq <= board[n - 1].seq
                        /\ n <= i => printed'[t][n].deal <= board[n - 1].deal
      OBVIOUS
    <3>1. CASE n = i + 1
      <4>1. board[n - 1].seq = new.seq /\ new.seq \in Nat
        <5>1. n - 1 = i
          BY <1>1, <3>1
        <5> QED BY <1>2, <1>n, <5>1 DEF Entry, Part
      <4> QED BY <1>1, <1>6, <3>1, <4>1
    <3>2. CASE n # i + 1
      <4>1. n \in 1 .. i
        BY <1>1, <3>2
      <4> QED BY <1>6, <1>7, <4>1
    <3> QED BY <3>1, <3>2
  <2>2. \A n \in 1 .. i :
          /\ printed'[t][n].seq - printed'[t][n + 1].seq <= 1
          /\ n < i => printed'[t][n].deal - printed'[t][n + 1].deal <= 1
    <3> SUFFICES ASSUME NEW n \in 1 .. i
                 PROVE  /\ printed'[t][n].seq - printed'[t][n + 1].seq <= 1
                        /\ n < i => printed'[t][n].deal - printed'[t][n + 1].deal <= 1
      OBVIOUS
    <3>1. CASE n = i
      <4>1. printed'[t][n + 1].seq = board[i].seq
        BY <1>6, <1>n, <3>1
      <4>2. printed[t][n].seq <= board[i].seq + 1
        <5>1. /\ printed[t][n].seq <= board[i - 1].seq
              /\ board[i - 1].seq <= board[i].seq + 1
              /\ printed[t][n] \in Entry /\ board[i - 1] \in Entry
          BY <1>1, <1>7, <1>8, <3>1
        <5> QED BY <1>2, <5>1, EntryParts
      <4>3. printed'[t][n].seq = printed[t][n].seq /\ printed[t][n] \in Entry
        BY <1>1, <1>6, <1>7, <3>1
      <4>4. printed[t][n].seq \in Nat /\ board[i].seq \in Nat
        BY <1>2, <4>3, EntryParts
      <4>5. printed'[t][n].seq - printed'[t][n + 1].seq <= 1
        BY <4>1, <4>2, <4>3, <4>4
      <4>6. ~(n < i)
        BY <1>1, <3>1
      <4> QED BY <4>5, <4>6
    <3>2. CASE n < i
      <4>1. n + 1 \in 1 .. i /\ n \in 1 .. Len(printed[t]) - 1
        BY <1>1, <3>2
      <4>2. /\ printed[t][n].seq - printed[t][n + 1].seq <= 1
            /\ printed[t][n].deal - printed[t][n + 1].deal <= 1
        BY <1>n, <3>2, <4>1 DEF BoardInv, NoneSkipped
      <4> QED BY <1>6, <4>1, <4>2
    <3> QED BY <1>1, <3>1, <3>2
  <2> QED
    BY <1>1, <1>3, <1>6, <2>1, <2>2 DEF ClientTableOK
<1> QED
  BY <1>3, <1>5, <1>9, OneTable DEF BoardInv, BoardTypeOK, PrintsSeq, ClientGoes

LEMMA PrintsDealInv ==
  ASSUME BoardInv, NEW t \in Clients, PrintsDeal(t)
  PROVE  BoardInv'
<1> DEFINE i == index[t]
           old == printed[t][i + 1]
           new == [old EXCEPT !.deal = board[i].deal]
<1>1. i \in Nat /\ i < Rows /\ i \in Row /\ Len(printed[t]) = i + 1 /\ i + 1 \in 0 .. Rows
  BY BoardAssumption DEF BoardInv, BoardTypeOK, Reading, PrintsDeal, ClientGoes, Row
<1>2. board[i] \in Entry /\ printed[t] \in Seq(Entry) /\ old \in Entry
  BY <1>1 DEF BoardInv, BoardTypeOK
<1>3. /\ client'[t] = "print" /\ index'[t] = i + 1 /\ board' = board
      /\ printed' = [printed EXCEPT ![t] = [printed[t] EXCEPT ![i + 1] = new]]
  BY DEF BoardInv, BoardTypeOK, PrintsDeal, ClientGoes
<1>4. new \in Entry /\ new.seq = old.seq /\ new.deal = board[i].deal
  <2>1. board[i].deal \in Nat
    BY <1>2 DEF Entry, Part
  <2> HIDE DEF i, old
  <2> QED BY <1>2, <2>1 DEF Entry, Part
<1>o. old = printed[t][i + 1] /\ i = index[t]
  OBVIOUS
<1>5. printed'[t] = [printed[t] EXCEPT ![i + 1] = new]
  BY <1>3 DEF BoardInv, BoardTypeOK
<1> HIDE DEF i, old, new
<1>6. /\ printed'[t] \in Seq(Entry)
      /\ Len(printed'[t]) = i + 1
      /\ printed'[t][i + 1] = new
      /\ \A n \in 1 .. i : printed'[t][n] = printed[t][n]
  BY <1>1, <1>2, <1>4, <1>5
<1>7. BoardTypeOK'
  <2>1. printed' \in [Clients -> Seq(Entry)]
    BY <1>3, <1>6 DEF BoardInv, BoardTypeOK
  <2> QED
    BY <1>1, <1>o, <2>1 DEF BoardInv, BoardTypeOK, PrintsDeal, ClientGoes, writerVars
<1>8. \A n \in 1 .. i + 1 : /\ printed[t][n] \in Entry
                            /\ printed[t][n].seq <= board[n - 1].seq
                            /\ n <= i => printed[t][n].deal <= board[n - 1].deal
  <2> TAKE n \in 1 .. i + 1
  <2>1. n \in 1 .. Len(printed[t])
    BY <1>1
  <2>2. printed[t][n] \in Entry
    BY <1>2, <2>1
  <2> QED BY <1>o, <2>1, <2>2 DEF BoardInv, Reading
<1>9. i > 0 => /\ i - 1 \in Row /\ board[i - 1] \in Entry
               /\ board[i - 1].deal <= board[i].deal + 1
  <2>1. i > 0 => i - 1 \in Row /\ (i - 1) + 1 = i
    BY <1>1, BoardAssumption DEF Row
  <2> QED BY <1>1, <2>1 DEF BoardInv, BoardTypeOK, Falling, Part
<1>10. ClientTableOK(t)'
  <2>1. \A n \in 1 .. i + 1 :
          /\ printed'[t][n].seq <= board[n - 1].seq
          /\ printed'[t][n].deal <= board[n - 1].deal
    <3> SUFFICES ASSUME NEW n \in 1 .. i + 1
                 PROVE  /\ printed'[t][n].seq <= board[n - 1].seq
                        /\ printed'[t][n].deal <= board[n - 1].deal
      OBVIOUS
    <3>1. CASE n = i + 1
      <4>1. board[n - 1].deal = new.deal /\ new.deal \in Nat /\ new.seq = printed[t][n].seq
        <5>1. n - 1 = i
          BY <1>1, <3>1
        <5> QED BY <1>4, <1>o, <3>1, <5>1 DEF Entry, Part
      <4>2. printed[t][n].seq <= board[n - 1].seq
        BY <1>8
      <4>3. board[n - 1] = board[i]
        BY <1>1, <3>1
      <4>4. printed'[t][n] = new
        BY <1>6, <3>1
      <4> QED BY <4>1, <4>2, <4>4
    <3>2. CASE n # i + 1
      <4>1. n \in 1 .. i
        BY <1>1, <3>2
      <4>2. printed'[t][n] = printed[t][n] /\ n \in 1 .. i + 1 /\ n <= i
        BY <1>1, <1>6, <4>1
      <4> QED BY <1>8, <4>2
    <3> QED BY <3>1, <3>2
  <2>2. \A n \in 1 .. i :
          /\ printed'[t][n].seq - printed'[t][n + 1].seq <= 1
          /\ printed'[t][n].deal - printed'[t][n + 1].deal <= 1
    <3> SUFFICES ASSUME NEW n \in 1 .. i
                 PROVE  /\ printed'[t][n].seq - printed'[t][n + 1].seq <= 1
                        /\ printed'[t][n].deal - printed'[t][n + 1].deal <= 1
      OBVIOUS
    <3>0. n \in 1 .. Len(printed[t]) - 1
      BY <1>1
    <3>1. CASE n = i
      <4>1. printed'[t][n + 1].deal = board[i].deal /\ printed'[t][n + 1].seq = printed[t][n + 1].seq
        BY <1>4, <1>6, <1>o, <3>1
      <4>2. printed[t][n].deal <= board[i].deal + 1
        <5>1. /\ printed[t][n].deal <= board[i - 1].deal
              /\ board[i - 1].deal <= board[i].deal + 1
              /\ printed[t][n] \in Entry /\ board[i - 1] \in Entry
          <6>1. i > 0 /\ n <= i /\ n \in 1 .. i + 1
            BY <1>1, <3>1
          <6> QED BY <1>8, <1>9, <3>1, <6>1
        <5> QED BY <1>2, <5>1, EntryParts
      <4>3. printed[t][n].seq - printed[t][n + 1].seq <= 1
        BY <3>0 DEF BoardInv, NoneSkipped
      <4>4. printed'[t][n] = printed[t][n] /\ printed[t][n] \in Entry
        BY <1>1, <1>6, <1>8
      <4>5. board[i].deal \in Nat /\ printed[t][n].deal \in Nat
        BY <1>2, <4>4 DEF Entry, Part
      <4> QED BY <4>1, <4>2, <4>3, <4>4, <4>5
    <3>2. CASE n < i
      <4>1. n + 1 \in 1 .. i
        BY <1>1, <3>2
      <4>2. /\ printed[t][n].seq - printed[t][n + 1].seq <= 1
            /\ printed[t][n].deal - printed[t][n + 1].deal <= 1
        BY <1>o, <3>0, <3>2, <4>1 DEF BoardInv, NoneSkipped
      <4> QED BY <1>6, <4>1, <4>2
    <3> QED BY <1>1, <3>1, <3>2
  <2> QED
    BY <1>1, <1>3, <1>6, <2>1, <2>2 DEF ClientTableOK
<1> QED
  BY <1>3, <1>7, <1>10, OneTable DEF BoardInv, BoardTypeOK, PrintsDeal, ClientGoes

LEMMA ClientInv ==
  ASSUME BoardInv, NEW t \in Clients, Client(t)
  PROVE  BoardInv'
<1> USE BoardAssumption
<1>0. /\ client[t] \in {"main", "first", "compare", "remember"} => Len(printed[t]) = 0
      /\ client[t] \in {"compare", "remember"} => index[t] \in 1 .. Rows - 1
      /\ index[t] \in 0 .. Rows
  BY DEF BoardInv, BoardTypeOK, Reading
<1>1. CASE ClientEnters(t)
  <2>1. index' = [index EXCEPT ![t] = index[t]]
    BY <1>1 DEF ClientEnters, BoardInv, BoardTypeOK
  <2> QED
    BY <1>0, <1>1, <2>1, NothingPrinted DEF ClientEnters, ClientGoes
<1>2. CASE ReadsFirst(t)
  <2>1. 1 \in 0 .. Rows /\ 1 \in 1 .. Rows - 1
    OBVIOUS
  <2> QED
    BY <1>0, <1>2, <2>1, NothingPrinted DEF ReadsFirst, ClientGoes
<1>3. CASE Compares(t)
  <2>1. index' = [index EXCEPT ![t] = index[t]]
    BY <1>3 DEF Compares, BoardInv, BoardTypeOK
  <2> QED
    BY <1>0, <1>3, <2>1, NothingPrinted DEF Compares, ClientGoes
<1>4. CASE Remembers(t)
  BY <1>0, <1>4, NothingPrinted DEF Remembers, ClientGoes
<1>5. CASE PrintsSeq(t)
  BY <1>5, PrintsSeqInv
<1>6. CASE PrintsDeal(t)
  BY <1>6, PrintsDealInv
<1>7. CASE ClientLeaves(t)
  BY <1>7, ClientLeavesInv
<1> QED
  BY <1>1, <1>2, <1>3, <1>4, <1>5, <1>6, <1>7 DEF Client

-----------------------------------------------------------------------------
LEMMA BoardInvStep == BoardInv /\ [BoardNext]_boardVars => BoardInv'
<1> SUFFICES ASSUME BoardInv, [BoardNext]_boardVars PROVE BoardInv'
  OBVIOUS
<1>1. CASE UNCHANGED boardVars
  BY <1>1 DEF boardVars, writerVars, clientVars, BoardInv, BoardTypeOK, Falling, Shifting,
     Reading, NoneSkipped
<1> QED
  BY <1>1, PublisherInv, ClientInv DEF BoardNext

(* publish goes from the last entry to the first and clients from the first *)
(* to the last, so a client skips no transaction, for any number of rows    *)
(* and clients.                                                             *)
THEOREM ClientsSkipNone == BoardSpec => []NoneSkipped
<1>1. BoardInv => NoneSkipped
  BY DEF BoardInv
<1> QED
  BY <1>1, BoardInvInit, BoardInvStep, PTL DEF BoardSpec

-----------------------------------------------------------------------------
(* The tables of clients that nobody disturbs *)

(* What entry r shows when n transactions have been published. *)
ShownOf(n, r) == IF r < n THEN n - r ELSE 0

(* What the board shows: all of it the transactions that are complete, and  *)
(* while publish shifts it the rows that are written one transaction more.  *)
BoardExact ==
  /\ publisher \in {"main", "wait"} =>
       \A r \in Row, q \in Part : board[r][q] = ShownOf(Complete, r)
  /\ publisher = "shift" => \A r \in Row, q \in Part :
       board[r][q] = IF r > row \/ (r = row /\ q \in parts)
                     THEN ShownOf(published, r) ELSE ShownOf(published - 1, r)
  /\ publisher # "main" => published >= 1

(* How far an undisturbed client is in check_board: it has found an error   *)
(* when there are entries above it that have not been used yet.             *)
ClientChecks(t) ==
  /\ client[t] \in {"main", "first"} => errors[t] = 0
  /\ quiet[t] =>
       /\ publisher \in {"main", "wait"}
       /\ client[t] = "compare" =>
            /\ above[t] = ShownOf(Complete, index[t] - 1)
            /\ errors[t] = 0 <=> Complete >= index[t] - 1
       /\ client[t] = "remember" => (errors[t] = 0 <=> Complete >= index[t])
       /\ client[t] \in {"print", "deal"} => (errors[t] = 0 <=> Complete >= Rows - 1)
       /\ \A n \in 1 .. Len(printed[t]) :
            /\ printed[t][n].seq = ShownOf(Complete, n - 1)
            /\ n <= index[t] => printed[t][n].deal = ShownOf(Complete, n - 1)

QuietTypeOK ==
  /\ above \in [Clients -> Nat]
  /\ errors \in [Clients -> Nat]
  /\ quiet \in [Clients -> BOOLEAN]

QuietInv ==
  /\ QuietTypeOK
  /\ BoardExact
  /\ \A t \in Clients : ClientChecks(t)

LEMMA QuietInit == BoardInit => QuietInv
<1> SUFFICES ASSUME BoardInit PROVE QuietInv
  OBVIOUS
<1> USE BoardAssumption DEF BoardInit
<1>1. QuietTypeOK
  BY DEF QuietTypeOK
<1>2. BoardExact
  BY DEF BoardExact, Complete, ShownOf, Empty, Row, Part
<1>3. \A t \in Clients : ClientChecks(t)
  BY DEF ClientChecks
<1> QED BY <1>1, <1>2, <1>3 DEF QuietInv

(* In between two transactions only the number of complete ones matters. *)
LEMMA QuietLater ==
  ASSUME QuietInv, UNCHANGED <<clientVars, quiet>>, BoardExact',
         publisher' \in {"main", "wait"}, Complete' = Complete
  PROVE  QuietInv'
<1>1. QuietTypeOK'
  BY DEF QuietInv, QuietTypeOK, clientVars
<1>2. ASSUME NEW t \in Clients PROVE ClientChecks(t)'
  <2>1. ClientChecks(t)
    BY DEF QuietInv
  <2> QED BY <2>1 DEF ClientChecks, clientVars
<1> QED BY <1>1, <1>2 DEF QuietInv

(* While publish shifts nobody is quiet. *)
LEMMA NobodyQuiet ==
  ASSUME QuietInv, UNCHANGED clientVars, BoardExact',
         quiet' \in [Clients -> BOOLEAN], \A t \in Clients : ~quiet'[t]
  PROVE  QuietInv'
<1>1. QuietTypeOK'
  BY DEF QuietInv, QuietTypeOK, clientVars
<1>2. ASSUME NEW t \in Clients PROVE ClientChecks(t)'
  <2>1. ClientChecks(t)
    BY DEF QuietInv
  <2> QED BY <2>1 DEF ClientChecks, clientVars
<1> QED BY <1>1, <1>2 DEF QuietInv

LEMMA PublisherQuiet ==
  ASSUME BoardInv, QuietInv, Publisher
  PROVE  QuietInv'
<1> USE BoardAssumption
<1>0. /\ published \in Nat /\ row \in Row /\ quiet \in [Clients -> BOOLEAN]
      /\ board \in [Row -> Entry] /\ 0 \in Row
      /\ publisher = "shift" => \A t \in Clients : ~quiet[t]
  BY DEF BoardInv, BoardTypeOK, QuietInv, QuietTypeOK, ClientChecks, Row
<1>1. CASE Publishes
  <2>1. Complete' = Complete /\ publisher' = "wait" /\ published' >= 1 /\ board' = board
    BY <1>0, <1>1 DEF Publishes, Complete
  <2>2. BoardExact'
    BY <1>1, <2>1 DEF QuietInv, BoardExact, Publishes
  <2> QED BY <1>1, <2>1, <2>2, QuietLater DEF Publishes
<1>2. CASE WriterEnters
  <2>1. BoardExact'
    <3>1. /\ publisher = "wait" /\ publisher' = "shift" /\ row' = Rows - 1 /\ parts' = {}
          /\ board' = board /\ published' = published /\ published >= 1
          /\ Complete = published - 1
      BY <1>2 DEF WriterEnters, QuietInv, BoardExact, Complete
    <3>2. \A r \in Row, q \in Part : board[r][q] = ShownOf(published - 1, r)
      BY <3>1 DEF QuietInv, BoardExact
    <3> QED BY <3>1, <3>2 DEF BoardExact, Row
  <2>2. quiet' \in [Clients -> BOOLEAN] /\ \A t \in Clients : ~quiet'[t]
    BY <1>2 DEF WriterEnters
  <2> QED BY <1>2, <2>1, <2>2, NobodyQuiet DEF WriterEnters
<1>3. CASE NextRow
  <2>1. BoardExact'
    BY <1>0, <1>3 DEF NextRow, QuietInv, BoardExact, Row
  <2> QED BY <1>0, <1>3, <2>1, NobodyQuiet DEF NextRow
<1>4. CASE WriterLeaves
  <2>1. BoardExact'
    <3>1. /\ publisher' = "main" /\ Complete' = published /\ board' = board
          /\ \A r \in Row : r > 0 \/ r = 0
      BY <1>4 DEF WriterLeaves, Complete, Row
    <3>2. \A r \in Row, q \in Part : board[r][q] = ShownOf(published, r)
      BY <1>4, <3>1 DEF WriterLeaves, QuietInv, BoardExact
    <3> QED BY <3>1, <3>2 DEF BoardExact
  <2> QED BY <1>0, <1>4, <2>1, NobodyQuiet DEF WriterLeaves
<1>5. ASSUME NEW q \in Part, Shifts(q) PROVE QuietInv'
  <2>1. /\ row \in Row /\ row - 1 \in Row /\ row > 0 /\ board[row - 1] \in Entry
        /\ Writes(row, q, board[row - 1]) /\ published >= 1
    BY <1>0, <1>5 DEF Shifts, Row, QuietInv, BoardExact
  <2>2. /\ parts' = parts \cup {q}
        /\ \A s \in Row, u \in Part :
             board'[s][u] = IF s = row /\ u = q THEN board[row - 1][q] ELSE board[s][u]
    <3>1. BoardTypeOK /\ parts' = parts \cup {q}
      BY <2>1 DEF Writes, BoardInv
    <3> QED BY <2>1, <3>1, WritesEntry
  <2>3. board[row - 1][q] = ShownOf(published, row)
    <3>1. board[row - 1][q] = ShownOf(published - 1, row - 1)
      BY <1>5, <2>1 DEF Shifts, QuietInv, BoardExact, Row
    <3> QED BY <1>0, <2>1, <3>1 DEF ShownOf, Row
  <2>4. /\ publisher = "shift" /\ publisher' = publisher /\ row' = row /\ published' = published
        /\ UNCHANGED <<clientVars, quiet>>
    BY <1>5 DEF Shifts
  <2>5. ASSUME NEW s \in Row, NEW u \in Part
        PROVE  board'[s][u] = IF s > row \/ (s = row /\ u \in parts')
                              THEN ShownOf(published, s) ELSE ShownOf(published - 1, s)
    <3>1. board[s][u] = IF s > row \/ (s = row /\ u \in parts)
                        THEN ShownOf(published, s) ELSE ShownOf(published - 1, s)
      BY <2>4 DEF QuietInv, BoardExact
    <3> QED BY <2>2, <2>3, <3>1
  <2>6. BoardExact'
    BY <2>1, <2>4, <2>5 DEF BoardExact
  <2> QED BY <1>0, <2>4, <2>6, NobodyQuiet
<1>6. ASSUME NEW q \in Part, Fills(q) PROVE QuietInv'
  <2> DEFINE e == [seq |-> published, deal |-> published]
  <2>1. row = 0 /\ e \in Entry /\ e[q] = published /\ Writes(0, q, e) /\ published >= 1
    BY <1>0, <1>6 DEF Fills, QuietInv, BoardExact, Entry, Part
  <2> HIDE DEF e
  <2>2. /\ parts' = parts \cup {q}
        /\ \A s \in Row, u \in Part :
             board'[s][u] = IF s = 0 /\ u = q THEN published ELSE board[s][u]
    <3>1. BoardTypeOK /\ parts' = parts \cup {q}
      BY <2>1 DEF Writes, BoardInv
    <3> QED BY <1>0, <2>1, <3>1, WritesEntry
  <2>3. ShownOf(published, 0) = published
    BY <1>0, <2>1 DEF ShownOf
  <2>4. /\ publisher = "shift" /\ publisher' = publisher /\ row' = row /\ published' = published
        /\ UNCHANGED <<clientVars, quiet>>
    BY <1>6 DEF Fills
  <2>5. ASSUME NEW s \in Row, NEW u \in Part
        PROVE  board'[s][u] = IF s > row \/ (s = row /\ u \in parts')
                              THEN ShownOf(published, s) ELSE ShownOf(published - 1, s)
    <3>1. board[s][u] = IF s > row \/ (s = row /\ u \in parts)
                        THEN ShownOf(published, s) ELSE ShownOf(published - 1, s)
      BY <2>4 DEF QuietInv, BoardExact
    <3> QED BY <2>1, <2>2, <2>3, <3>1
  <2>6. BoardExact'
    BY <2>1, <2>4, <2>5 DEF BoardExact
  <2> QED BY <1>0, <2>4, <2>6, NobodyQuiet
<1> QED
  BY <1>1, <1>2, <1>3, <1>4, <1>5, <1>6 DEF Publisher

(* A step of client t leaves the board and the other clients alone. *)
LEMMA OneClientQuiet ==
  ASSUME QuietInv, NEW t \in Clients, UNCHANGED <<board, writerVars>>, QuietTypeOK',
         \A u \in Clients \ {t} :
           /\ client'[u] = client[u] /\ index'[u] = index[u] /\ above'[u] = above[u]
           /\ errors'[u] = errors[u] /\ printed'[u] = printed[u] /\ quiet'[u] = quiet[u],
         ClientChecks(t)'
  PROVE  QuietInv'
<1>0. Complete' = Complete
  BY DEF Complete, writerVars
<1>1. BoardExact'
  BY <1>0 DEF QuietInv, BoardExact, writerVars
<1>2. \A u \in Clients : ClientChecks(u)'
  <2> SUFFICES ASSUME NEW u \in Clients, u # t PROVE ClientChecks(u)'
    OBVIOUS
  <2>1. ClientChecks(u)
    BY DEF QuietInv
  <2> QED BY <1>0, <2>1 DEF ClientChecks, writerVars
<1> QED BY <1>1, <1>2 DEF QuietInv

(* What an undisturbed client sees of the board.                            *)
LEMMA QuietBoard ==
  ASSUME BoardInv, QuietInv, NEW t \in Clients, quiet[t], NEW r \in Row
  PROVE  /\ publisher \in {"main", "wait"}
         /\ board[r].seq = ShownOf(Complete, r)
         /\ board[r].deal = ShownOf(Complete, r)
<1>1. publisher \in {"main", "wait"}
  BY DEF QuietInv, ClientChecks
<1>2. \A q \in Part : board[r][q] = ShownOf(Complete, r)
  BY <1>1 DEF QuietInv, BoardExact
<1> QED BY <1>1, <1>2 DEF Part

LEMMA CompleteNat ==
  ASSUME BoardInv, QuietInv
  PROVE  Complete \in Nat
  BY DEF BoardInv, BoardTypeOK, QuietInv, BoardExact, Complete

(* check_board counts an entry when none below it is used.                  *)
LEMMA OneLess ==
  ASSUME NEW n \in Nat, NEW i \in Nat \ {0}
  PROVE  ShownOf(n, i - 1) - 1 = ShownOf(n, i) <=> n >= i
  BY DEF ShownOf

LEMMA ClientQuiet ==
  ASSUME BoardInv, QuietInv, NEW t \in Clients, Client(t)
  PROVE  QuietInv'
<1> USE BoardAssumption
<1>0. /\ BoardTypeOK /\ QuietTypeOK /\ ClientChecks(t)
      /\ client[t] \in {"main", "first", "compare", "remember"} => Len(printed[t]) = 0
      /\ client[t] \in {"compare", "remember"} => index[t] \in 1 .. Rows - 1
      /\ client[t] = "deal" => index[t] \in Row
      /\ index[t] \in 0 .. Rows
      /\ 0 \in Row /\ Complete \in Nat
  BY CompleteNat DEF BoardInv, BoardTypeOK, Reading, QuietInv, Row
<1>c. UNCHANGED <<board, writerVars>> /\ Complete' = Complete /\ publisher' = publisher
  BY DEF Client, ClientEnters, ReadsFirst, Compares, Remembers, PrintsSeq, PrintsDeal,
         ClientLeaves, Complete, writerVars
<1>e. \A r \in Row : board[r].seq \in Nat /\ board[r].deal \in Nat
  BY <1>0, EntryParts DEF BoardTypeOK
<1>1. CASE ClientEnters(t)
  <2>1. QuietTypeOK'
    BY <1>0, <1>1 DEF ClientEnters, QuietTypeOK
  <2>2. /\ client'[t] = "first" /\ errors'[t] = 0 /\ Len(printed'[t]) = 0
        /\ quiet'[t] => publisher \in {"main", "wait"}
    BY <1>0, <1>1 DEF ClientEnters, ClientGoes, ClientChecks, BoardTypeOK, QuietTypeOK
  <2>3. ClientChecks(t)'
    BY <1>c, <2>2 DEF ClientChecks
  <2> QED
    BY <1>0, <1>1, <1>c, <2>1, <2>3, OneClientQuiet
    DEF ClientEnters, ClientGoes, BoardTypeOK, QuietTypeOK
<1>2. CASE ReadsFirst(t)
  <2>1. QuietTypeOK'
    BY <1>0, <1>2, <1>e DEF ReadsFirst, QuietTypeOK
  <2>2. /\ client'[t] = "compare" /\ errors'[t] = 0 /\ Len(printed'[t]) = 0
        /\ index'[t] = 1 /\ above'[t] = board[0].seq /\ quiet' = quiet
    BY <1>0, <1>2 DEF ReadsFirst, ClientGoes, ClientChecks, BoardTypeOK, QuietTypeOK
  <2>3. ClientChecks(t)'
    BY <1>0, <1>c, <2>2, QuietBoard DEF ClientChecks
  <2> QED
    BY <1>0, <1>2, <1>c, <2>1, <2>3, OneClientQuiet
    DEF ReadsFirst, ClientGoes, BoardTypeOK, QuietTypeOK
<1>3. CASE Compares(t)
  <2>1. QuietTypeOK'
    BY <1>0, <1>3 DEF Compares, QuietTypeOK
  <2>2. /\ client[t] = "compare" /\ client'[t] = "remember"
        /\ errors'[t] = IF above[t] - 1 # board[index[t]].seq THEN errors[t] + 1 ELSE errors[t]
        /\ errors[t] \in Nat
        /\ UNCHANGED <<index, above, printed, quiet>>
    BY <1>0, <1>3 DEF Compares, ClientGoes, BoardTypeOK, QuietTypeOK
  <2>3. index[t] \in Row /\ index[t] \in Nat \ {0}
    BY <1>0, <2>2 DEF Row
  <2>4. quiet[t] => (errors'[t] = 0 <=> Complete >= index[t])
    <3> HAVE quiet[t]
    <3>1. /\ above[t] = ShownOf(Complete, index[t] - 1)
          /\ errors[t] = 0 <=> Complete >= index[t] - 1
          /\ board[index[t]].seq = ShownOf(Complete, index[t])
      BY <1>0, <2>2, <2>3, QuietBoard DEF ClientChecks
    <3>2. above[t] - 1 = board[index[t]].seq <=> Complete >= index[t]
      BY <1>0, <2>3, <3>1, OneLess
    <3> QED BY <1>0, <2>2, <2>3, <3>1, <3>2
  <2>5. ClientChecks(t)'
    BY <1>0, <1>c, <2>2, <2>4 DEF ClientChecks
  <2> QED
    BY <1>0, <1>3, <1>c, <2>1, <2>5, OneClientQuiet
    DEF Compares, ClientGoes, BoardTypeOK, QuietTypeOK
<1>4. CASE Remembers(t)
  <2>0. client[t] = "remember" /\ index[t] \in Row /\ index[t] \in Nat \ {0}
    BY <1>0, <1>4 DEF Remembers, Row
  <2>1. QuietTypeOK'
    BY <1>0, <1>4, <1>e, <2>0 DEF Remembers, QuietTypeOK
  <2>2. /\ above'[t] = board[index[t]].seq
        /\ UNCHANGED <<errors, printed, quiet>>
        /\ \/ client'[t] = "compare" /\ index'[t] = index[t] + 1
           \/ client'[t] = "print" /\ index'[t] = 0 /\ index[t] = Rows - 1
    <3>1. above'[t] = board[index[t]].seq /\ UNCHANGED <<errors, printed, quiet>>
      BY <1>0, <1>4 DEF Remembers, QuietTypeOK
    <3>2. \/ /\ client' = [client EXCEPT ![t] = "compare"]
             /\ index' = [index EXCEPT ![t] = index[t] + 1]
          \/ /\ client' = [client EXCEPT ![t] = "print"]
             /\ index' = [index EXCEPT ![t] = 0]
             /\ index[t] + 1 = Rows
      BY <1>4 DEF Remembers, ClientGoes
    <3> QED BY <1>0, <2>0, <3>1, <3>2 DEF BoardTypeOK
  <2>3. quiet[t] => /\ errors[t] = 0 <=> Complete >= index[t]
                    /\ board[index[t]].seq = ShownOf(Complete, index[t])
    BY <1>0, <2>0, QuietBoard DEF ClientChecks
  <2>4. ClientChecks(t)'
    <3>1. (index[t] + 1) - 1 = index[t]
      BY <2>0
    <3> QED BY <1>0, <1>c, <2>0, <2>2, <2>3, <3>1 DEF ClientChecks
  <2> QED
    BY <1>0, <1>4, <1>c, <2>1, <2>4, OneClientQuiet
    DEF Remembers, ClientGoes, BoardTypeOK, QuietTypeOK
<1>5. CASE PrintsSeq(t)
  <2> DEFINE i == index[t]
             new == [seq |-> board[i].seq, deal |-> 0]
  <2>1. /\ client[t] = "print" /\ client'[t] = "deal" /\ i \in Row /\ Len(printed[t]) = i
        /\ printed'[t] = Append(printed[t], new) /\ new \in Entry
        /\ UNCHANGED <<index, errors, quiet, above>>
    BY <1>0, <1>5, <1>e DEF PrintsSeq, ClientGoes, BoardTypeOK, BoardInv, Reading, Row, Entry, Part
  <2>n. new.seq = board[i].seq /\ i = index[t] /\ i \in Nat
    BY <2>1 DEF Row
  <2> HIDE DEF i, new
  <2>2. /\ Len(printed'[t]) = i + 1
        /\ printed'[t][i + 1] = new
        /\ \A n \in 1 .. i : printed'[t][n] = printed[t][n]
    BY <1>0, <2>1, <2>n, AppendProperties DEF BoardTypeOK
  <2>3. ClientChecks(t)'
    <3>1. ASSUME quiet[t], NEW n \in 1 .. i + 1
          PROVE  /\ printed'[t][n].seq = ShownOf(Complete, n - 1)
                 /\ n <= i => printed'[t][n].deal = ShownOf(Complete, n - 1)
      <4>1. CASE n = i + 1
        <5>1. n - 1 = i /\ ~(n <= i)
          BY <2>n, <4>1
        <5>2. board[i].seq = ShownOf(Complete, i)
          BY <2>1, <3>1, QuietBoard
        <5> QED BY <2>2, <2>n, <4>1, <5>1, <5>2
      <4>2. CASE n # i + 1
        <5>1. n \in 1 .. i /\ n \in 1 .. Len(printed[t]) /\ n <= index[t]
          BY <2>1, <2>n, <4>2
        <5> QED BY <1>0, <2>2, <3>1, <5>1 DEF ClientChecks
      <4> QED BY <4>1, <4>2
    <3> QED BY <1>0, <1>c, <2>1, <2>2, <2>n, <3>1 DEF ClientChecks
  <2>4. QuietTypeOK'
    BY <1>0, <2>1 DEF QuietTypeOK
  <2> QED
    BY <1>0, <1>5, <1>c, <2>3, <2>4, OneClientQuiet
    DEF PrintsSeq, ClientGoes, BoardTypeOK, QuietTypeOK
<1>6. CASE PrintsDeal(t)
  <2> DEFINE i == index[t]
             old == printed[t][i + 1]
             new == [old EXCEPT !.deal = board[i].deal]
  <2>1. /\ client[t] = "deal" /\ client'[t] = "print" /\ i \in Row /\ Len(printed[t]) = i + 1
        /\ index'[t] = i + 1
        /\ printed'[t] = [printed[t] EXCEPT ![i + 1] = new]
        /\ UNCHANGED <<errors, quiet, above>>
    BY <1>0, <1>6 DEF PrintsDeal, ClientGoes, BoardTypeOK, BoardInv, Reading
  <2>2. i \in Nat /\ i + 1 \in 1 .. Len(printed[t]) /\ old \in Entry
    BY <1>0, <2>1 DEF BoardTypeOK, Row
  <2>3. new.seq = old.seq /\ new.deal = board[i].deal
    <3> HIDE DEF i, old
    <3> QED BY <2>2 DEF Entry, Part
  <2>n. i = index[t] /\ old = printed[t][i + 1]
    OBVIOUS
  <2> HIDE DEF i, old, new
  <2>4. /\ Len(printed'[t]) = i + 1
        /\ printed'[t][i + 1] = new
        /\ \A n \in 1 .. i : printed'[t][n] = printed[t][n]
    BY <1>0, <2>1, <2>2 DEF BoardTypeOK
  <2>5. ClientChecks(t)'
    <3>1. ASSUME quiet[t], NEW n \in 1 .. i + 1
          PROVE  /\ printed'[t][n].seq = ShownOf(Complete, n - 1)
                 /\ printed'[t][n].deal = ShownOf(Complete, n - 1)
      <4>0. printed[t][n].seq = ShownOf(Complete, n - 1)
        BY <1>0, <2>1, <3>1 DEF ClientChecks
      <4>1. CASE n = i + 1
        <5>1. n - 1 = i
          BY <2>2, <4>1
        <5>2. board[i].deal = ShownOf(Complete, i)
          BY <2>1, <3>1, QuietBoard
        <5> QED BY <2>3, <2>4, <2>n, <4>0, <4>1, <5>1, <5>2
      <4>2. CASE n # i + 1
        <5>1. n \in 1 .. i /\ n \in 1 .. Len(printed[t]) /\ n <= index[t]
          BY <2>1, <2>2, <2>n, <4>2
        <5> QED BY <1>0, <2>4, <3>1, <5>1 DEF ClientChecks
      <4> QED BY <4>1, <4>2
    <3> QED BY <1>0, <1>c, <2>1, <2>4, <3>1 DEF ClientChecks
  <2>6. QuietTypeOK'
    BY <1>0, <2>1 DEF QuietTypeOK
  <2> QED
    BY <1>0, <1>6, <1>c, <2>5, <2>6, OneClientQuiet
    DEF PrintsDeal, ClientGoes, BoardTypeOK, QuietTypeOK
<1>7. CASE ClientLeaves(t)
  <2>1. QuietTypeOK'
    BY <1>0, <1>7 DEF ClientLeaves, QuietTypeOK
  <2>2. client'[t] = "main" /\ errors'[t] = 0 /\ ~quiet'[t]
    BY <1>0, <1>7 DEF ClientLeaves, ClientGoes, BoardTypeOK, QuietTypeOK
  <2>3. ClientChecks(t)'
    BY <2>2 DEF ClientChecks
  <2> QED
    BY <1>0, <1>7, <1>c, <2>1, <2>3, OneClientQuiet
    DEF ClientLeaves, ClientGoes, BoardTypeOK, QuietTypeOK
<1> QED
  BY <1>1, <1>2, <1>3, <1>4, <1>5, <1>6, <1>7 DEF Client

LEMMA QuietStep == BoardInv /\ QuietInv /\ [BoardNext]_boardVars => QuietInv'
<1> SUFFICES ASSUME BoardInv, QuietInv, [BoardNext]_boardVars PROVE QuietInv'
  OBVIOUS
<1>1. CASE UNCHANGED boardVars
  <2>1. Complete' = Complete
    BY <1>1 DEF boardVars, writerVars, Complete
  <2>2. QuietTypeOK' /\ BoardExact'
    BY <1>1, <2>1 DEF boardVars, writerVars, clientVars, QuietInv, QuietTypeOK, BoardExact
  <2>3. ASSUME NEW t \in Clients PROVE ClientChecks(t)'
    <3>1. ClientChecks(t)
      BY DEF QuietInv
    <3> QED BY <1>1, <2>1, <3>1 DEF boardVars, writerVars, clientVars, ClientChecks
  <2> QED BY <2>2, <2>3 DEF QuietInv
<1> QED
  BY <1>1, PublisherQuiet, ClientQuiet DEF BoardNext

(* A client that publish does not disturb prints the last transactions, in  *)
(* order and each with its own deal, and its check_board finds an error     *)
(* exactly when two entries or more have not been used yet, for any number  *)
(* of rows and clients and however many of them read at once.               *)
THEOREM QuietClientsRight == BoardSpec => []QuietTableRight
<1>1. BoardInv /\ QuietInv => QuietTableRight
  <2> SUFFICES ASSUME BoardInv, QuietInv, NEW t \in Clients, quiet[t]
               PROVE  /\ \A n \in 1 .. Len(printed[t]) :
                           /\ printed[t][n].seq = Shown(n - 1)
                           /\ n <= index[t] => printed[t][n].deal = Shown(n - 1)
                      /\ client[t] \in {"print", "deal"} =>
                           (errors[t] = 0 <=> Complete >= Rows - 1)
    BY DEF QuietTableRight
  <2>1. ClientChecks(t)
    BY DEF QuietInv
  <2>2. \A n : Shown(n - 1) = ShownOf(Complete, n - 1)
    BY DEF Shown, ShownOf
  <2> QED BY <2>1, <2>2 DEF ClientChecks
<1> QED
  BY <1>1, BoardInvInit, BoardInvStep, QuietInit, QuietStep, PTL DEF BoardSpec

-----------------------------------------------------------------------------
(* The shell of lab 3 *)

LEMMA MinusOne == -1 \notin Nat
  OBVIOUS

(* The table of processes is one of records with the four fields. *)
TableOK ==
  /\ child = [q \in Pids |-> child[q]]
  /\ \A q \in Pids : child[q] = [state |-> child[q].state, program |-> child[q].program,
                                 holds |-> child[q].holds, keeps |-> child[q].keeps]

(* Between the fork and the wait the shell still has to close the pipe.     *)
WaitedInv ==
  /\ TableOK
  /\ ForegroundWaited
  /\ sh \in {"simple", "pipe", "left", "right"} => pid = 0
  /\ sh \in {"close write end", "close read end"} =>
       IF background THEN pid = 0 ELSE pid \in Children

LEMMA WaitedInit == SishInit => WaitedInv
  BY ProcessAssumption
  DEF SishInit, ProcessInit, WaitedInv, TableOK, ForegroundWaited, Children, Free

(* A process that runs keeps its entry while the shell is there to wait. *)
LEMMA ChildKeepsEntry ==
  ASSUME TableOK, Running, NEW q \in Pids, Execs(q) \/ ProgramEnds(q)
  PROVE  TableOK' /\ Children' = Children
<1>1. CASE Execs(q)
  <2>1. child[q].state = "forked"
    BY <1>1 DEF Execs
  <2>2. \A r \in Pids : child'[r] = IF r # q THEN child[r]
          ELSE IF child[q].program = "none" THEN [Free EXCEPT !.state = "zombie"]
          ELSE [child[q] EXCEPT !.state = "running", !.holds = child[q].keeps]
    BY <1>1 DEF Execs, TableOK, Dead
  <2>3. child' = [r \in Pids |-> child'[r]]
    BY <1>1 DEF Execs, TableOK
  <2>4. TableOK'
    BY <2>2, <2>3 DEF TableOK, Free
  <2>5. Children' = Children
    BY <2>1, <2>2 DEF Children, TableOK, Free
  <2> QED BY <2>4, <2>5
<1>2. CASE ProgramEnds(q)
  <2>1. child[q].state = "running"
    BY <1>2 DEF ProgramEnds
  <2>2. \A r \in Pids : child'[r] = IF r # q THEN child[r] ELSE [Free EXCEPT !.state = "zombie"]
    BY <1>2 DEF ProgramEnds, TableOK, Dead
  <2>3. child' = [r \in Pids |-> child'[r]]
    BY <1>2 DEF ProgramEnds, TableOK
  <2>4. TableOK'
    BY <2>2, <2>3 DEF TableOK, Free
  <2>5. Children' = Children
    BY <2>1, <2>2 DEF Children, TableOK, Free
  <2> QED BY <2>4, <2>5
<1> QED BY <1>1, <1>2

(* After its end the table still is one. *)
LEMMA TableAfterEnd ==
  ASSUME TableOK, NEW q \in Pids, Execs(q) \/ ProgramEnds(q)
  PROVE  TableOK'
<1>1. \A r \in Pids : child'[r] \in
        {child[r], Free, [Free EXCEPT !.state = "zombie"],
         [child[r] EXCEPT !.state = "running", !.holds = child[r].keeps]}
  BY DEF Execs, ProgramEnds, TableOK, Dead
<1>2. child' = [r \in Pids |-> child'[r]]
  BY DEF Execs, ProgramEnds, TableOK
<1>3. ASSUME NEW r \in Pids
      PROVE  child'[r] = [state |-> child'[r].state, program |-> child'[r].program,
                          holds |-> child'[r].holds, keeps |-> child'[r].keeps]
  <2>1. CASE child'[r] = child[r]
    BY <2>1 DEF TableOK
  <2>2. CASE child'[r] \in {Free, [Free EXCEPT !.state = "zombie"]}
    BY <2>2 DEF Free
  <2>3. CASE child'[r] = [child[r] EXCEPT !.state = "running", !.holds = child[r].keeps]
    BY <2>3 DEF TableOK
  <2> QED BY <1>1, <2>1, <2>2, <2>3
<1> QED BY <1>2, <1>3 DEF TableOK

LEMMA ForkedChild ==
  ASSUME TableOK, NEW q \in Pids, NEW program, NEW keeps, Forks(q, program, keeps)
  PROVE  TableOK' /\ Children' = Children \cup {q}
<1>1. \A r \in Pids : child'[r] = IF r # q THEN child[r]
        ELSE [state |-> "forked", program |-> program, holds |-> shellHolds, keeps |-> keeps]
  BY DEF Forks, TableOK
<1>2. child' = [r \in Pids |-> child'[r]]
  BY DEF Forks, TableOK
<1>3. TableOK'
  BY <1>1, <1>2 DEF TableOK
<1>4. Children' = Children \cup {q}
  BY <1>1 DEF Children
<1> QED BY <1>3, <1>4

LEMMA ReapedChild ==
  ASSUME TableOK, NEW q, Reaps(q)
  PROVE  TableOK' /\ Children' = Children \ {q}
  BY DEF Reaps, TableOK, Children, Free

LEMMA EndedShell ==
  ASSUME TableOK, NEW how, ShellEnds(how)
  PROVE  TableOK'
  BY DEF ShellEnds, TableOK, Free

LEMMA WaitedStep == WaitedInv /\ [SishNext]_sishVars => WaitedInv'
<1> SUFFICES ASSUME WaitedInv, [SishNext]_sishVars PROVE WaitedInv'
  OBVIOUS
<1> USE DEF WaitedInv, ForegroundWaited
<1>0. 0 \notin Pids /\ -1 \notin Pids /\ Children \subseteq Pids /\ Zombies \subseteq Children
  <2>1. 0 \notin Pids /\ Children \subseteq Pids /\ Zombies \subseteq Children
    BY ProcessAssumption DEF Children, Zombies
  <2>2. -1 \notin Pids
    BY MinusOne, ProcessAssumption
  <2> QED BY <2>1, <2>2
<1>1. ASSUME NEW line \in Lines, ReadsLine(line) PROVE WaitedInv'
  BY <1>0, <1>1 DEF ReadsLine, TableOK, Children
<1>2. CASE CrashesOnEmptyLine \/ ReadsExit \/ ForkFails
  <2>1. TableOK'
    BY <1>2, EndedShell DEF CrashesOnEmptyLine, ReadsExit, ForkFails
  <2>2. sh' \in {"crash", "exit 0", "exit 1"}
    BY <1>2 DEF CrashesOnEmptyLine, ReadsExit, ForkFails, ShellEnds
  <2> QED BY <2>1, <2>2
<1>3. ASSUME NEW q \in Pids, ForksSimple(q) PROVE WaitedInv'
  <2>1. TableOK' /\ Children' = Children \cup {q}
    BY <1>3, ForkedChild DEF ForksSimple
  <2> QED BY <1>0, <1>3, <2>1 DEF ForksSimple, Remember, AfterForks
<1>4. CASE MakesPipe \/ PipeFails
  BY <1>0, <1>4 DEF MakesPipe, PipeFails, TableOK, Children
<1>5. ASSUME NEW q \in Pids, ForksLeft(q) PROVE WaitedInv'
  <2>1. TableOK' /\ Children' = Children \cup {q}
    BY <1>5, ForkedChild DEF ForksLeft
  <2> QED BY <1>0, <1>5, <2>1 DEF ForksLeft
<1>6. ASSUME NEW q \in Pids, ForksRight(q) PROVE WaitedInv'
  <2>1. TableOK' /\ Children' = Children \cup {q}
    BY <1>6, ForkedChild DEF ForksRight
  <2>2. sh' = "close write end" /\ background' = background
    BY <1>6 DEF ForksRight, commandVars
  <2>3. CASE background
    BY <1>6, <2>1, <2>2, <2>3 DEF ForksRight, Remember
  <2>4. CASE ~background
    BY <1>6, <2>1, <2>2, <2>4 DEF ForksRight, Remember
  <2> QED BY <2>3, <2>4
<1>7. CASE ClosesWriteEnd \/ ClosesReadEnd
  <2>1. TableOK' /\ Children' = Children /\ pid' = pid /\ background' = background
    BY <1>7 DEF ClosesWriteEnd, ClosesReadEnd, commandVars, TableOK, Children
  <2>2. sh \in {"close write end", "close read end"}
    BY <1>7 DEF ClosesWriteEnd, ClosesReadEnd
  <2>3. sh' \in {"close read end", IF background THEN "prompt" ELSE "wait"}
    BY <1>7 DEF ClosesWriteEnd, ClosesReadEnd, AfterForks
  <2>4. CASE background
    BY <1>0, <2>1, <2>2, <2>3, <2>4
  <2>5. CASE ~background
    BY <2>1, <2>2, <2>3, <2>5
  <2> QED BY <2>4, <2>5
<1>8. CASE WaitsForCommand
  <2>1. PICK q \in WaitResults : /\ sh' = IF q = pid \/ q = -1 THEN "prompt" ELSE "wait"
                                 /\ Reaps(q)
    BY <1>8 DEF WaitsForCommand
  <2>2. TableOK' /\ Children' = Children \ {q}
    BY <2>1, ReapedChild
  <2>3. pid \in Children /\ pid' = pid
    BY <1>8 DEF WaitsForCommand
  <2>4. q \in Zombies
    BY <2>3 DEF WaitResults
  <2> QED BY <1>0, <2>1, <2>2, <2>3, <2>4
<1>9. ASSUME NEW q \in Pids, Child(q) PROVE WaitedInv'
  <2>1. UNCHANGED <<sh, pid, background>> /\ TableOK'
    BY <1>9, TableAfterEnd DEF Child, Execs, ProgramEnds, commandVars
  <2>2. Running => Children' = Children
    BY <1>9, ChildKeepsEntry DEF Child
  <2>3. ~Running => sh \in {"exit 0", "exit 1", "crash"}
    BY DEF Running
  <2> QED BY <2>1, <2>2, <2>3
<1>10. CASE UNCHANGED sishVars
  BY <1>10 DEF sishVars, processVars, commandVars, TableOK, Children
<1> QED
  BY <1>1, <1>2, <1>3, <1>4, <1>5, <1>6, <1>7, <1>8, <1>9, <1>10
  DEF SishNext, Types, Shell

(* The shell of lab 3 is back at the prompt only when the foreground        *)
(* command has ended, and while it waits that command is still to be waited *)
(* for, for every number of processes and pipes.                            *)
THEOREM WaitsForForeground == SishSpec => []ForegroundWaited
<1>1. WaitedInv => ForegroundWaited
  BY DEF WaitedInv
<1> QED
  BY <1>1, WaitedInit, WaitedStep, PTL DEF SishSpec

-----------------------------------------------------------------------------
(* The shell of lab 2 *)

FirstWaitedInv ==
  /\ TableOK
  /\ ForegroundWaited
  /\ sh = "fork" => pid = 0

LEMMA FirstWaitedInit == FirstInit => FirstWaitedInv
  BY ProcessAssumption
  DEF FirstInit, ProcessInit, FirstWaitedInv, TableOK, ForegroundWaited, Children, Free

LEMMA FirstWaitedStep == FirstWaitedInv /\ [FirstNext]_firstVars => FirstWaitedInv'
<1> SUFFICES ASSUME FirstWaitedInv, [FirstNext]_firstVars PROVE FirstWaitedInv'
  OBVIOUS
<1> USE DEF FirstWaitedInv, ForegroundWaited
<1>0. 0 \notin Pids /\ Children \subseteq Pids /\ Zombies \subseteq Children
  BY ProcessAssumption DEF Children, Zombies
<1>1. ASSUME NEW line \in Lines, ReadsCommand(line) PROVE FirstWaitedInv'
  <2>1. child' = child /\ sh' = "fork" /\ pid' = 0
    BY <1>1 DEF ReadsCommand
  <2> QED BY <2>1 DEF TableOK
<1>2. CASE CrashesOnBlankLine \/ FirstReadsExit
  <2>1. TableOK'
    BY <1>2, EndedShell DEF CrashesOnBlankLine, FirstReadsExit
  <2>2. sh' \in {"crash", "exit 0"}
    BY <1>2 DEF CrashesOnBlankLine, FirstReadsExit, ShellEnds
  <2> QED BY <2>1, <2>2
<1>3. ASSUME NEW q \in Pids, ForksCommand(q) PROVE FirstWaitedInv'
  <2>1. TableOK' /\ Children' = Children \cup {q}
    BY <1>3, ForkedChild DEF ForksCommand
  <2>2. CASE cmd.bg
    BY <1>0, <1>3, <2>1, <2>2 DEF ForksCommand
  <2>3. CASE ~cmd.bg
    BY <1>3, <2>1, <2>3 DEF ForksCommand
  <2> QED BY <2>2, <2>3
<1>4. CASE ForkRefused
  <2>1. child' = child /\ sh' = "prompt" /\ pid' = 0
    BY <1>4 DEF ForkRefused
  <2> QED BY <1>0, <2>1 DEF TableOK, Children
<1>5. CASE WaitsForPid
  <2>1. PICK q \in WaitResults : /\ sh' = IF q = pid THEN "prompt" ELSE "wait"
                                 /\ Reaps(q)
    BY <1>5 DEF WaitsForPid
  <2>2. TableOK' /\ Children' = Children \ {q}
    BY <2>1, ReapedChild
  <2>3. pid \in Children /\ pid' = pid
    BY <1>5 DEF WaitsForPid
  <2> QED BY <2>1, <2>2, <2>3
<1>6. ASSUME NEW q \in Pids, FirstChild(q) PROVE FirstWaitedInv'
  <2>1. UNCHANGED <<sh, pid>> /\ TableOK'
    BY <1>6, TableAfterEnd DEF FirstChild, Execs, ProgramEnds
  <2>2. Running => Children' = Children
    BY <1>6, ChildKeepsEntry DEF FirstChild
  <2>3. ~Running => sh \in {"exit 0", "exit 1", "crash"}
    BY DEF Running
  <2> QED BY <2>1, <2>2, <2>3
<1>7. CASE UNCHANGED firstVars
  BY <1>7 DEF firstVars, processVars, TableOK, Children
<1> QED
  BY <1>1, <1>2, <1>3, <1>4, <1>5, <1>6, <1>7 DEF FirstNext, FirstShell

(* So is the shell of lab 2: it goes on past the ends of background         *)
(* commands until wait returns the one it forked.                           *)
THEOREM FirstWaitsForForeground ==
  FirstInit /\ [][FirstNext]_firstVars => []ForegroundWaited
<1>1. FirstWaitedInv => ForegroundWaited
  BY DEF FirstWaitedInv
<1> QED
  BY <1>1, FirstWaitedInit, FirstWaitedStep, PTL
=============================================================================
