SPECIFICATION FairSpec
CONSTANTS
  Users = {u1, u2}
  Nobody = Nobody
  Kinds = {"recommendation"}
  MaxSessions = 2
  MaxTurns = 1
  MaxMounts = 2
  MaxReloads = 1
INVARIANTS TypeOK ShownBelongs StorageFollowsChat PendingIsAwaited HistoryComplete
PROPERTIES SendingEnds
CHECK_DEADLOCK FALSE
CONSTRAINT TwoAtOnce
