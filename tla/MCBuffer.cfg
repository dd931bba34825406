SPECIFICATION Spec
CONSTANTS
  Capacity = 4
  Byte = {1, 2}
PROPERTY RefinesFifo
