SPECIFICATION NotificationsSpec
CONSTANTS
  Recipients = {u1}
  Messages = {m1}
  EmailWorkers = {w1, w2}
  RetryDelays = 1
  MaxLapses = 1
  MaxPushLapses = 1
  Readers = {u1}
  LastMessage = 2
  DigestWorkers = {w1, w2}
  BatchSize = 1
  Nobody = Nobody
  Subscribers = {u1}
  Topics = {t1, t2}
  NtfyWorkers = {w1, w2}
  NoTopic = NoTopic
  Challenges = {c1, c2}
  Devices = {d1, d2}
  MaximumCodeAttempts = 2
  EmailChallengeHourLimit = 2
  NoChallenge = NoChallenge
  GitHub = GitHub
  Configs <- SmtpConfigs
  
PROPERTIES NoticesAsAllowed NoticesImplementLedger NoticesEnd
CHECK_DEADLOCK FALSE
