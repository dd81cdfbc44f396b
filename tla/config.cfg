SPECIFICATION Spec
CONSTANTS
  Letter = {"w"}
  Quote = {"single", "double"}
  MaxChars = 6
INVARIANTS TypeOK TokenShape AcceptsExactly RoundTrip AcceptsBalanced
CHECK_DEADLOCK FALSE
