SPECIFICATION ConnectionSpec
CONSTANTS
  Accounts = {a1, a2}
  Anonymous = Anonymous
  Nothing = Nothing
  Sockets = {1, 2, 3, 4}
  Candidates = 2
  Compressed = TRUE
SYMMETRY MCSymmetry
CONSTRAINT FewLeftOpen
INVARIANTS
  StoresOfTheSession
  ComesBack
