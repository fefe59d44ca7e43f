SPECIFICATION LocalSpec
CONSTANTS
  web = web  im = im  agent = agent  task = task  other = other
  home = home  guest = guest  alice = alice  bob = bob
  warmup = warmup  conv = conv  cron = cron
  NoUser = NoUser
  Folders = {home, guest}
  Users = {alice, bob}
  FolderOf <- MCFolderOf
  Keys <- MCKeys
  KeyOf <- MCKeyOf
  OwnerOf <- MCOwnerOf
  HomeOf <- MCHomeOf
  Jids = {web, im, agent}
  AgentJids = {agent}
  TaskJids = {}
  TaskIds = {conv}
  DbTasks = {}
  Initiators = {}
  HostAtStart = {}
  ModeFolders = {}
  WriteOutcomes = {TRUE, FALSE}
  MaxContainers = 2
  MaxHostProcesses = 1
  MaxRetries = 1
  RunNos = {1, 2}
  UserLimit <- NoQuota
  MaxDrift = 0
INVARIANT OneRunPerKey
INVARIANT ActiveCountMatchesRuns
PROPERTY PoolSpec
CHECK_DEADLOCK FALSE
