\* Two fair agents on one table, two racing administrators, failing steps, lost answers and crashes.
SPECIFICATION FairSpec
CONSTANTS
  None = None
  Agents = {a1, a2}
  Admins = {d1, d2}
  MaxVersion = 3
  Cached <- MCCached
  GitHub <- MCGitHub
  Revision <- LastMigrates
  ClientLabelled = TRUE
  PsqlWorks = TRUE
  MaxRequests = 2
  MaxFaults = 1
INVARIANTS
  OutcomeTrue
  ClaimedOnce
PROPERTIES
  OnlyEligibleReleases
  RequestsAreTaken
