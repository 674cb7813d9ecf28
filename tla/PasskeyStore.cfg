SPECIFICATION Spec
SYMMETRY Swaps
CONSTANTS
  r1 = r1  r2 = r2  r3 = r3  r4 = r4
  phone = phone  laptop = laptop  tablet = tablet
  h1 = h1  h2 = h2
  NoRec = NoRec  NoChallenge = NoChallenge
  Rec = {r1, r2, r3, r4}
  Cred = {phone, laptop, tablet}
  CredOf <- Creds
  NameOf <- Names
  Known = {r1}
  Challenge = {h1, h2}
  MaxPasskeys = 2
  MaxCount = 1
  MaxEpoch = 2
INVARIANTS PasskeyInv DeletedStaysDeleted AnsweredSurvives OneTryPerChallenge OneRecordPerKey
PROPERTIES CounterMovesForward
