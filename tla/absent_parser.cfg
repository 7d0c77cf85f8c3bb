SPECIFICATION Spec
CONSTANTS
  None = None
  Targets <- MCTargets
  Behaviours = {"crashes", "crashes and hangs"}
  ChainBudget <- MCChainBudget
  Corpora <- MCCorpora
  Answers <- MCAnswers
  UrlCorpora <- MCUrlCorpora
  Readings <- MCReadings
  FuzzInputs = {"a", "b", "c"}
  FuzzSeeds <- MCFuzzSeeds
  FuzzAxes <- MCFuzzAxes
  FuzzBudget = 4
  MutationsPerBase = 2
  Generators <- MCGenerators
  Contents = {"placeholder_png", "qrcode_lib"}
  BenchTargets = {"signal_android"}
  BenchGraphs <- MCBenchGraphs
  PathClassTotal = 4
  Dates = {"2026-05-07", "2026-05-08"}
  BenchBudget <- MCBenchBudget
  DeltaTargets <- MCDeltaTargets
  ToolFindings <- MCToolFindings
  DeltaBudget = 2
  Versions = {1, 2}
  CrashReports <- MCCrashReports
  Words <- MCWords
  LineNumbers = {"172"}
  HarnessBudget = 2
  SeedFiles <- MCSeedFiles
  SeedContents = {"x", "y"}
  SeedBudget = 3
  Engines = {"codeql", "semgrep"}
  Scanned <- MCScanned
  Results <- MCResults
  EngineBudget = 3
  ProposalClaims <- MCProposalClaims
  SectionArtifacts <- MCSectionArtifacts
  Requirements = {"req1", "req2"}
  ArtifactBudget = 3
INVARIANT HighMeansRejected
CHECK_DEADLOCK FALSE
