\* One request and all pairs of modifications.
CONSTANTS
  Originals <- MCOriginals
  ModLists <- MCModLists
  Numerals <- MCNumerals
  Digits <- MCDigits
  Float <- MCFloat
  Accepts <- MCAccepts
  NotANumber = NotANumber
  NaN = NaN
  Infinity = Infinity
  Malformed = Malformed
  None = None
SPECIFICATION Spec
INVARIANTS IInv KindsAreKept AppliedMeansAll ReachesWhatItNames
