SPECIFICATION LintSpec
CONSTANTS
  Letters <- MCLetters
  Names <- MCNames
  Packages <- MCPackages
  Manifest <- MCManifest
  Roots <- MCRoots
  TestRoots <- MCTestRoots
  Declarations <- MCDeclarations
  Items <- MCItems
  MaxItems = 4
  AliasDepth = 3
  RuleFiles <- MCRuleFiles
  Spelling <- MCSpelling
  Patterns <- MCPatterns
  Paths <- MCPaths
INVARIANTS
  ResolvesToTheNamed
  EndsAtThePublicSurface
  EdgesEndAtModules
  TestCodeIsMarked
  CleanMeansKept
  OnlyTheForbiddenIsReported
  MatchesIsItsLanguage
CHECK_DEADLOCK FALSE
