\* The frequencies of common video modes and the ends of all ranges.
CONSTANTS
  Freqs <- MCFreqs
  Parents <- MCParents
SPECIFICATION Spec
INVARIANTS FindRegAccepts InSpecification PickIsBest RegistersDecode
