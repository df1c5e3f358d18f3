SPECIFICATION Spec
CONSTANTS
  Texts <- MCTexts
  TextLen <- MCTextLen
  UnknownLimit = 3
  Fed <- MCFed
  MaxFields = 4
INVARIANTS TypeOK DecodersAgree DecodesMeaning RoundTrips SizeIsExact
