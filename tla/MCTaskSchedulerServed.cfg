SPECIFICATION FairSpec
CONSTANTS
  p1 = p1  p2 = p2  report = report
  pid1 = pid1  pid2 = pid2
  Pods = {p1, p2}
  Tasks = {report}
  PidOf <- DistinctPids
  NoHolder = NoHolder
  NoPod = NoPod
  StartPaths = {"script", "group", "isolated"}
  UsesRedis = TRUE
  RedisFails = {FALSE}
  TargetFound = {TRUE, FALSE}
  Prepared = {TRUE, FALSE}
  ScheduleBreaks = {TRUE, FALSE}
  SaveFails = {TRUE, FALSE}
  MayStop = {}
  RunNos = {1, 2}
  MaxUserOps = 1
  MaxCrashes = 1
PROPERTY DueIsServed
CHECK_DEADLOCK FALSE
