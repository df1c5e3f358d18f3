SPECIFICATION HandlesSpec
CONSTANTS
  Texts <- MCTexts
  TextLen <- MCTextLen
  UnknownLimit = 2
  Buffers <- MCBuffers
  Documents <- MCDocuments
  Extensions <- MCExtensions
  MaxUnknown = 4
  MaxSize = 8
PROPERTIES FromOwnedSucceeds
