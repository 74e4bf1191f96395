SPECIFICATION Spec
CONSTANTS
  Users = {u1, u2}
  NoUser = NoUser
  Handlers = {h1, h2}
  MaxCalls = 3
  MaxEvents = 1
  MaxFaults = 1
  MaxAttempts = 2
  Shares = {h1, h2}
  NoShare = NoShare
  Sockets = {u1, u2}
  Tags = {mic, screen}
  NoTrack = NoTrack
  UserSockets = {w1, w2}
  PushUsers = {a1, a2}
  NoOwner = NoOwner
  Endpoints = {p1, p2}
  NoEndpoint = NoEndpoint
  Enables = {n1, n2}
SYMMETRY Symm
VIEW View
INVARIANTS
  CallsTypeOK
  ParticipantsAreInCall
  MediaIsAsShown
  EveryTrackIsPlayed
  StatusFollowsSockets
  PushFollowsSignIn
CHECK_DEADLOCK FALSE
