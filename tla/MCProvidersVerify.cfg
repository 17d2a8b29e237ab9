CONSTANTS
  L <- MCL
  Top <- MCTop
  H <- MCH
  EncodePoint <- MCEncodePoint
  DecodePoint <- MCDecodePoint
  NoPoint = NoPoint
  Slide <- MCSlide
  Seeds <- MCSeeds
  Messages <- MCMessages
  Strays <- MCStrays
  MaxCalls = 3
  Garbage <- MCGarbage
  MaxFailures = 1
  Chars <- MCChars
  Ascii <- MCAscii
  Callers <- MCForeign
  Contents <- MCContents
  Texts <- MCTexts
  MaxStrings = 6
  MaxWrites = 1
SPECIFICATION MCSpec
INVARIANT DocumentedVerify
CHECK_DEADLOCK FALSE
