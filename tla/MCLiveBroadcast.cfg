SPECIFICATION Spec
CONSTANTS
  Pushers <- MCPushers
  Viewers <- MCViewers
  Paths <- MCPaths
  PathOf <- MCPathOf
  MaxTags <- MCMaxTags
INVARIANTS
  
  TagsWithoutGap
  
  
  OnlyReplacedDangles
  OneMakerOneHeader
