SPECIFICATION Spec
CONSTANTS
  MaxMessages = 2
  Loads = {l1}
  MaxEvents = 1
  Items = {i1, i2}
  NoItem = NoItem
  Confirms = {c1, c2}
  Refreshes = {r1}
  Toggles = {t1, t2}
  MaxUnread = 1
  MaxTakes = 2
  Uploads = {f1, f2, f3}
  MaxStorage = 4
  Effects = {e1, e2, e3}
  Users = {u1, u2}
  DMs = {d1, d2}
  NoDM = NoDM
  MaxCKs = 2
  Alice = Alice
  Bob = Bob
  MaxSent = 3
  MaxDhKeys = 4
  MaxSkip = 1
  MaxRepeats = 1
  Pinners = {w1, w2}
  Pinnable = {m1, m2}
  NoPinnable = NoPinnable
  MaxNews = 1
CONSTRAINT Watched
VIEW View
INVARIANTS
  ClientTypesOK
  DeletedStaysDeleted
  NothingElseMissing
  ChosenAreGone
  FlagIsServers
  TakesAreTheUsers
  AnyOrderOpens
  QuotaIsKept
  UrlsAreReleased
  NoMessageStaysHidden
  PinsAgree
PROPERTIES
  ReadsOnce
  ChatKeysAreAgreed
CHECK_DEADLOCK FALSE
