CONSTANTS
  ann = ann  bob = bob  gone = gone  team = team  p1 = p1  p2 = p2  q1 = q1  q2 = q2
  User <- Users
  Project <- Projects
  Request <- Requests
  Team <- Teams
  Orphanage = Orphanage
  Owner <- Owners
  Starts <- Tables
  None = None
  MaxSignIns = 2
  MaxRequests = 2
  MaxChanges = 1
  MaxErrors = 1
SPECIFICATION Spec
INVARIANTS RacingSessionsAgree BackfillMeetsSessions DeletedIsNeverServed MovesAreEarned
CHECK_DEADLOCK FALSE
