SPECIFICATION LintSpec
CONSTANTS
  Letters <- MCLetters
  Names <- MCNames
  Packages <- MCPackages
  Manifest <- MCManifest
  Roots <- MCRoots
  TestRoots <- MCTestRoots
  Declarations <- MCDeclarations
  Items <- MCSameName
  MaxItems = 2
  AliasDepth = 3
  RuleFiles = {}
  Spelling <- MCSpelling
  Patterns <- MCPatterns
  Paths <- MCPaths
INVARIANT ExternalAsWritten
CHECK_DEADLOCK FALSE
