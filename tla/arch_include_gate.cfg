SPECIFICATION LintSpec
CONSTANTS
  Letters <- MCLetters
  Names <- MCNames
  Packages <- MCPackages
  Manifest <- MCManifest
  Roots <- MCRoots
  TestRoots <- MCTestRoots
  Declarations <- MCDeclarations
  Items <- MCTestData
  MaxItems = 1
  AliasDepth = 3
  RuleFiles = {}
  Spelling <- MCSpelling
  Patterns <- MCPatterns
  Paths <- MCPaths
INVARIANT IncludesAreMarked
CHECK_DEADLOCK FALSE
