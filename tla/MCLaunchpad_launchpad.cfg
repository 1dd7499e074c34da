SPECIFICATION LaunchpadSpec
CONSTANTS
  dep = dep
  ann = ann
  bob = bob
  fee = fee
  Account <- MCAccount
  This = This
  Zero = Zero
  NoAddress = NoAddress
  BadAddress = BadAddress
  Deployer = dep
  Base = 8
  TaxCap = 2
  MaxTaxed = 3
  Unit = 2
  Short = 16
  Big = 64
  Invalid = Invalid
  Plan = {"taxed","heavy","over","spread","gated","minted","capped","huge"}
  Wizard <- MCWizard
  Calls <- MCCalls
  MaxCalls = 5
  MaxTime = 2
  cli = cli
  web = web
  Client <- MCClient
  Slug <- MCSlug
  RegistrySlug <- MCRegistrySlug
  Supported = {"bsc", "eth", "spl"}
  EVM = {"bsc", "eth"}
  Registry = {"bsc", "ethereum", "solana"}
  MirrorOrder <- MCOrder
  MirrorResult <- MCResult
  MirrorSaved = NoBook
  WithMeta = {"bsc", "eth"}
  KeyRequired <- MCKey
  PerMin = 2
  Minute = 1
  LiquiditySeen = {0, 999, 5000}
  HoldersSeen = {0, 10}
  Menu = {"deploy", "deploys", "registers", "mirror", "mirrors", "listings", "faults", "token"}
  Offered <- MCOffered
  Using <- MCUsing
  Faulty <- MCFaulty
  NoTx = NoTx
  NoBook = NoBook
  Torn = Torn
  MaxServed = 3
  MaxNow = 1
  MaxWallet = 1
  MaxCrashes = 1
CHECK_DEADLOCK FALSE
INVARIANTS
  LauncherTypeOK
  RegisteredDeployed
  AnswersStored
  LiveMeansDeployed
  HoldingsBacked
  TaxWithinCap
  PermitOnce
