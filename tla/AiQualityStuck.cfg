SPECIFICATION Spec
CONSTANTS
  s1 = s1
  s2 = s2
  p1 = p1
  p2 = p2
  a1 = a1
  a2 = a2
  b1 = b1
  b2 = b2
  v1 = v1
  v2 = v2
  NoSubmission = NoSubmission
  NoPrompt = NoPrompt
  Submissions = {s1}
  Processes = {p1, p2}
  Slots = {a1, b1}
  ProcessOf <- MCProcessOf
  Concurrency = 1
  RetryDelays = 1
  MAX_AUTO_RETRY_ATTEMPTS = 3
  SlowSessions = FALSE
  Prompts = {v1}
  MaxCopies = 1
  MaxCrashes = 1
PROPERTY StuckWaitsForAdministrator
