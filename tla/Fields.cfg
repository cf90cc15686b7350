CONSTANTS
  Letter = {"a", "b", "A"}
  Lower <- MCLower
  Name <- MCName
  Value <- MCValue
  MaxFields = 3
SPECIFICATION Spec
INVARIANTS
  ArgsAreFields
  CookieIsField
