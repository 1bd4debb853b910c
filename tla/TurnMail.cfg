CONSTANTS
  m1 = m1  m2 = m2  m3 = m3
  Mails = {m1, m2, m3}
  Sender <- From
  Text <- Plain
  MaxFiles = 1
  FirstTurn = 1
  LastTurn = 3
  Faults = {"exporting", "remaking", "running", "summary", "reports", "opening", "closing", "nmr"}
  MaxFaults = 2
SPECIFICATION MailSpec
INVARIANTS
  AtMostOnce
  WholeTurns
  ReportsAreTrue
PROPERTY
  SettledMailsAreExecuted
