SPECIFICATION UndisturbedFairSpec
CONSTANTS
  web = web  im = im  agent = agent  task = task  other = other
  home = home  guest = guest  alice = alice  bob = bob
  warmup = warmup  conv = conv  cron = cron
  NoUser = NoUser
  Folders = {home, guest}
  Users = {alice, bob}
  FolderOf <- MCFolderOf
  Keys <- MCKeys
  KeyOf <- MCKeyOf
  OwnerOf <- MCOwnerOf
  HomeOf <- MCHomeOf
  Jids = {web, im, task}
  AgentJids = {}
  TaskJids = {task}
  TaskIds = {cron}
  DbTasks = {}
  Initiators = {alice}
  HostAtStart = {}
  ModeFolders = {}
  WriteOutcomes = {TRUE}
  MaxContainers = 2
  MaxHostProcesses = 1
  MaxRetries = 1
  RunNos = {1, 2}
  UserLimit <- TightQuota
  MaxDrift = 0
INVARIANT QueuedWorkHasWaker
PROPERTY QueuedWorkIsServed
CHECK_DEADLOCK FALSE
