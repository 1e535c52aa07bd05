CONSTANTS
  Parts = {"layout", "assembler", "debug_view", "render", "format"}
  Types <- SomeTypes
  Slots <- SomeSlots
  Isas <- SomeIsas
SPECIFICATION PartSpec
INVARIANTS NoSharing EveryOperandHasItsField WordsDecodeExactly AssemblyIsOfOneText ViewIsOfTheMachine PlacesAreTrue FormattingIsSettled
CHECK_DEADLOCK FALSE
