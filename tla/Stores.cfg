CONSTANTS
  Request = {s1, s2, s3}
  NoSession = NoSession
  Version = {v0, v1}
  Boilerplate = v0
  NoDraft = NoDraft
  MaxFlights = 3
SPECIFICATION Spec
INVARIANTS StoreTypeOK AnsweredTurnsKept CacheWasSaved DraftTypeOK SavedMeansStored DeletedStaysDeleted
PROPERTY WorkIsStored
CHECK_DEADLOCK FALSE
