\* A range of a list with the return type INVERTED.
CONSTANTS
  Requests <- InvertedRequests
  Replies = {}
  Message <- MessageOf
  Decoded <- parse_result
SPECIFICATION Spec
INVARIANTS InvertedArrives
CHECK_DEADLOCK FALSE
