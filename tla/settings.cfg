SPECIFICATION Spec
CONSTANTS
  Users = {u1, u2}
  Providers = {openai}
  Templates = {t1, t2}
  Names = {n1, n2}
  Bodies = {b1}
  Secrets = {k1, k2}
  Handlers = {h1, h2}
  Nothing = Nothing
  Empty = Empty
  FilterGroups <- MCFilterGroups
  Keywords <- MCKeywords
  GenaiInputs <- MCGenaiInputs
SYMMETRY Symmetry
INVARIANTS TypeOK NamesUnique KeyIsOwn ChainDecides SlashesDoNotMatter
PROPERTIES QuietPutSticks DeletedStays RefinesKeyRegister
