SPECIFICATION Spec
CONSTANTS
  ABSENT = ABSENT
  null = null
  Parts = {"rpm versions", "deb versions", "specs", "alternatives", "channel", "nesting",
           "debian file", "apt list", "directory", "questions", "refused", "strings",
           "infos", "merging infos"}
INVARIANTS
  VersionsAreOrdered
  FilesReadBack
  QueriesMatch
  InfosExplain
\* Bounds on what is compared, and the end of what is read, stop the model.
CHECK_DEADLOCK FALSE
