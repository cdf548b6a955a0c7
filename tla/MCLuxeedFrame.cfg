SPECIFICATION Spec
CONSTANTS
    KeyIds <- MCKeyIds
    Rgbs <- MCRgbs
INVARIANTS
    SentVerifies
    AssertsHold
PROPERTIES
    PixelSpec
