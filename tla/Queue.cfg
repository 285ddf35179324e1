\* One after the other a send and a download of two files: requests against the
\* attempt, a restart, write failures and updates, with a worker that goes on.
SPECIFICATION FairSpec
CONSTANTS
  Job = {1, 2}
  Sends <- FirstSends
  File = {1, 2}
  MaxJobs = 1
  MaxGeneration = 2
  MaxRestarts = 1
  DiskFails = TRUE
  Updates = TRUE
INVARIANTS
  RunningIsWorkedOn
  CompletedIsTrue
  UpdateIsAlone
PROPERTIES
  CancelHolds
  FateIsFinal
  FilesAreKept
  JobsEnd
