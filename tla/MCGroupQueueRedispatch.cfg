SPECIFICATION Spec
CONSTANTS
  web = web  im = im  agent = agent  task = task  other = other
  home = home  guest = guest  alice = alice  bob = bob
  warmup = warmup  conv = conv  cron = cron
  NoUser = NoUser
  Folders = {home, guest}
  Users = {alice, bob}
  FolderOf <- MCFolderOf
  Keys <- MCKeys
  KeyOf <- MCKeyOf
  OwnerOf <- MCOwnerOf
  HomeOf <- MCHomeOf
  Jids = {web}
  AgentJids = {}
  TaskJids = {}
  TaskIds = {warmup}
  DbTasks = {}
  Initiators = {}
  HostAtStart = {}
  ModeFolders = {home}
  WriteOutcomes = {TRUE}
  MaxContainers = 2
  MaxHostProcesses = 1
  MaxRetries = 1
  RunNos = {1, 2}
  UserLimit <- NoQuota
  MaxDrift = 2
INVARIANT TypeOK
INVARIANT SlotsMatchRuns
INVARIANT RunsWithinLimits
CHECK_DEADLOCK FALSE
