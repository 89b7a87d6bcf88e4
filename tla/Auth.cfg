SPECIFICATION FairSpec
CONSTANTS
  v1 = v1
  v2 = v2
  cli1 = cli1
  b1 = b1
  pw = pw
  padded = padded
  blank = blank
  long = long
  sec1 = sec1
  sec2 = sec2
  Servers = {v1, v2}
  Clis = {cli1}
  Browsers = {b1}
  Passwords = {pw, padded, blank, long}
  Hashable = {pw, padded, blank}
  NoPassword = NoPassword
  Trimmed <- MCTrimmed
  Secrets = {sec1, sec2}
  NoSecret = NoSecret
  Settings <- MCSettings
  Random = Random
  NoUser = NoUser
  Second = 2
  MaxClock = 5
  MaxStops = 2
INVARIANT AuthInv
INVARIANT SessionLivesItsTtl
PROPERTY PasswordKept
PROPERTY StartSettles
CHECK_DEADLOCK FALSE
