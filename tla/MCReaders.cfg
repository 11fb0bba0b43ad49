CONSTANTS
  MaxKids = 4
  Kind <- NodeKind
  Orphan <- OrphanKind
  Origin <- MCOrigin
  NULL <- MCNULL
  Reader <- NodeReader
  Docs <- MCDocs
  Unguarded <- UnguardedClass
  Stray <- StrayClass
SPECIFICATION Spec
INVARIANTS
  TypeOK
  NoNullDeref
  ParentLinks
  RoundTrip
  NothingDropped
