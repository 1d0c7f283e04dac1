\* As many rotations as there are numbers.
SPECIFICATION Spec
CONSTANTS
  MaxLog = 3
  MaxGen = 5
PROPERTIES
  RotatedLogKept
