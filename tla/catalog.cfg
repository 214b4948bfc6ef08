CONSTANTS
  UnitFiles <- NamedFile
  UnitDirs <- OptDir
  DefaultDirs = {1, 2, 4}
  NameOrder <- Names3
  HomeOf <- Homes4
  MyHome = "root"
  Instances = {"a"}
  Trees <- SomeTrees
  Urls <- SomeUrls
  Hosts = {"h1", "h2"}
  Addresses <- Both
  Resolve = TRUE
  MaxMoves = 1
SPECIFICATION Spec
INVARIANTS
  TypeOK
  LastFileDecides
  StopsForABadUrlOnly
  MatchIsTheResolversAnswer
CHECK_DEADLOCK FALSE
