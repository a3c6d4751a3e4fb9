SPECIFICATION Spec
CONSTANTS
  r1 = r1
  r2 = r2
  w1 = w1
  w2 = w2
  Requests = {r1, r2}
  Wallets = {w1, w2}
  NoWallet = NoWallet
  Emails <- MCEmails
  DefaultEmail <- MCDefaultEmail
  Spellings = {"lower", "checksum"}
  MaxKeys = 1
  RateMax = 1
  MaxUsers = 2
  MaxIssued = 3
  MaxLinks = 2
SYMMETRY MCSymmetry
CONSTRAINT MCApart
CHECK_DEADLOCK FALSE
INVARIANTS EmailsUnique LoginIsOwn LetThrough
