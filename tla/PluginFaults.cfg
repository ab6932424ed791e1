CONSTANTS
  Deliveries = {d1, d2}
  Events <- FaultEvents
  Versions = {v1209, v1212, v1223, v1301}
  Texts = {t6, t7, t07, tBig}
  Number <- MCNumber
  MaxInt = 9
  References <- MCReferences
  Authors = {member, stranger, bot}
  Members = {member}
  Bot = bot
  AllowAll = FALSE
  MaxCrashes = 1
  Nil = Nil
  member = member
  stranger = stranger
  bot = bot
  v1209 = v1209
  v1212 = v1212
  v1223 = v1223
  v1301 = v1301
  t6 = t6
  t7 = t7
  t07 = t07
  tBig = tBig
SPECIFICATION FairSpec
CHECK_DEADLOCK FALSE
INVARIANTS FiledOnce BackportAccounted MirrorComplete NoWaitCycle
PROPERTIES LocksRefined AllHandled
