\* demo: a buffer of 2 and a text of 5, so both threads have to wait.
\* conta: 3 threads, so that one can take the mutex twice between two others.
\* lab-04p: every array of 4, and 3 of the 4 numbers of threads divide it.
\* stocks: 3 rows and 3 transactions, so a row is left empty, filled and lost.
\* The shells: two pipes at a time, and three children, those that nobody has
\* waited for included; both limits are met.
CONSTANTS
  charA = charA
  charB = charB
  N = 2
  Chars = {charA, charB, "nul"}
  NUL = "nul"
  Text <- SomeText
  nrThreads = 3
  num = 2
  CharA = 1
  CharValues = 4
  SIZE = 4
  Arguments = {1, 2, 3, 4}
  Rows = 3
  Clients = {1, 2}
  MaxTransactions = 3
  Pids = {1, 2, 3}
  Pipes = {1, 2}
  Lines <- SomeLines
SPECIFICATION Spec
INVARIANTS NoLostWakeup InTurn CountExact NoneSkipped QuietTableRight ForegroundWaited
PROPERTIES CharsImplementFifo TextPrinted AllCounted ProgramsEnd PromptComesBack
