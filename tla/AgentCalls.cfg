SPECIFICATION Spec
CONSTANTS
  Questions = {p, q}
  Guests = {q}
  Listeners = {k, l}
  NoQuestion = NoQuestion
INVARIANTS TypeOK ToldOnce RefusedIsNeverHandled
PROPERTY OnlyAPanicIsSilent
CHECK_DEADLOCK FALSE
