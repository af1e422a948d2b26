SPECIFICATION Spec
CONSTANTS
  h1 = h1
  h2 = h2
  tv = tv
  movies = movies
  Hashes <- MCHashes
  Names <- MCNames
  Known <- MCKnown
  FirstServer <- MCFirstServer
  FirstCategories <- MCFirstCategories
  MaxMoves = 3
INVARIANT
  TypeOK
PROPERTIES
  SendsWhatWasShown
  AnswersCloseTheirOwn
CHECK_DEADLOCK FALSE
