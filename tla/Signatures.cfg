SPECIFICATION Spec
CONSTANTS
  e1 = e1
  e2 = e2
  h1 = h1
  h2 = h2
  Envelope = {e1, e2}
  Handler = {h1, h2}
  Noticed = {"delivered", "completed", "voided"}
  MaxVersion = 3
SYMMETRY Symmetry
INVARIANTS
  TypeOK
  OutcomeIsGenuine
  VersionsAreNumbered
  SignedCopyOnFile
  FileIsLastUpload
