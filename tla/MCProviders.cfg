CONSTANTS
  L <- MCL
  Top <- MCTop
  H <- MCH
  EncodePoint <- MCEncodePoint
  DecodePoint <- MCDecodePoint
  NoPoint = NoPoint
  Slide <- MCSlide
  Seeds <- MCSeeds
  Messages <- MCMessages
  Strays <- MCStrays
  MaxCalls = 3
  Garbage <- MCGarbage
  MaxFailures = 1
  Chars <- MCChars
  Ascii <- MCAscii
  Callers <- MCCallers
  Contents <- MCContents
  Texts <- MCTexts
  MaxStrings = 6
  MaxWrites = 1
SPECIFICATION MCSpec
INVARIANTS
  TypeOK
  InBounds
  NoLeak
  ScalarsInRange
  OpenContract
  RoundTrip
  Deterministic
  JavaRoundTrip
  Elsewhere
  SignsAsBorn
  VerifiesOwn
  FromKeypair
  OtherSizesRefused
PROPERTIES
  Provides
  StandsIn
CHECK_DEADLOCK FALSE
