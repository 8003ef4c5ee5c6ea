\* A decision is cached, and the policy's time passes.
SPECIFICATION FairSpec
CONSTANTS
  Policies = {p1}
  Licenses = {}
  Records = {r1}
  Nil = Nil
  Callers <- Readers
  Actions = {"read"}
  Offers <- Written
  Texts = {}
  SeedOffers <- Timed
  Writers = {w1}
  MaxTime = 1
  MaxWrites = 0
CHECK_DEADLOCK FALSE
PROPERTY StaleExpires
