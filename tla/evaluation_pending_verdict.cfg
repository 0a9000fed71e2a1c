SPECIFICATION MCSpec
CONSTANTS
  None = None
  Ordinals = {1, 2}
  Notices = {1}
  Announcements = {1, 2}
  Assessments <- MCAssessments
  Narratives = {1, 2}
  MaxReceives = 2
  MaxFaults = 1
  MaxLate = 1
INVARIANT EvidenceIsReliable
CHECK_DEADLOCK FALSE
