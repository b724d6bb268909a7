\* Every command on a connection that was used before or is new.
CONSTANTS
  Requests <- MCRequests
  Replies <- MCReplies
  Message <- MessageOf
  Decoded <- parse_result
SPECIFICATION Spec
INVARIANTS
  Framed
  HeaderExact
  Understood
  BatchRowsArrive
  TwinsAgree
  ReplyDecoded
