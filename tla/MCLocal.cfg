CONSTANTS
  p1 = p1  p2 = p2
  Processes = {p1, p2}
  Heads <- MCHeads
  FilesOf <- MCFilesOf
  Ctc = {"ctc"}
  Trusted = {"re"}
  Speaker = "speaker"
  Package = "package"
  Tar = "tar"
  Lives = 2
  NoHead = NoHead
  Nobody = Nobody
  e1 = e1  e2 = e2
  Loads = {e1, e2}
  Asks <- MCAsks
  Contents = 2
  Loaders = {p1, p2}
  Packages = 2
  Runs = 3
  f1 = f1  f2 = f2
  Inbox <- MCInbox
  Formats = 1
  SettlePolls = 1
  Concurrency = 2
  Retries = 1
  Versions <- MCVersions
  Hosts = {p1, p2}
  Ids = 3
  PoolSize = 2
  Idle = Idle
  AudioFiles <- MCAudio
  Limits = {5, 99}
  StagingFrames = 2
  WavePacket = 2
  Wires <- MCWires
  LongLength = 3
  MaxByte = 6
  OPUS_MAX_FRAMES = 3
  OPUS_MAX_PACKET_SAMPLES = 5
  Exports <- MCExports
  Unlabelled = 99
  LABEL_LENGTH = 12
  SEGMENT_PAUSE_THRESHOLD = 900
  MAX_SEGMENT_DURATION = 30000
  Deployments <- MCDeployments
  ENCODER_RESIDENT_MULTIPLIER = 2
  POOL_RAM_FRACTION_DENOM = 2
  Unlimited = 1000
  Setups <- MCSetups
  Places <- MCPlaces
  Configs <- MCConfigs
  Asked <- MCAsked
  Unset = 99
  Changes = 1
SPECIFICATION MCSpec
SYMMETRY Swap
INVARIANT ModelsAreWhole
INVARIANT CachesAreCurrent
INVARIANT ServiceIsAsAsked
INVARIANT WatchMissesNothing
INVARIANT TripletHasOneUser
INVARIANT SoundIsWhole
INVARIANT CaptionsAreWhole
CHECK_DEADLOCK FALSE
