SPECIFICATION FairSpec
CONSTANTS
  n1 = n1
  Notes = {n1}
  Uploads = {u1, u2}
  Attachments = {a1}
  NoteOf <- OneNote
  Keys = {k1, k2}
  ChunkCount = 2
  AttachmentSize = 1
  QuotaBytes = 4
  MaxCrashes = 1
CHECK_DEADLOCK FALSE
INVARIANTS CommittedReadable DeletionsMeant AccountKept
PROPERTIES ReservationsEnd LeftoversRemoved
