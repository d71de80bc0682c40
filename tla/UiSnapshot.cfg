CONSTANTS
  Fields = {idle, led, track}
  MaxPublications = 3
SPECIFICATION Spec
PROPERTY RegisterSpec
