SPECIFICATION Spec
CONSTANTS
    old = old
    new = new
    cli = cli
    c1 = c1
    c2 = c2
    m1 = m1
    Programs = {old, new}
    Backends = {new}
    Backups = {cli}
    Release <- MCRelease
    Top = 2
    MaxRows = 1
    Nobody = Nobody
    Nothing = Nothing
    Theirs = Theirs
    Connections = {c1, c2}
    Models = {m1}
    SourceOf <- MCSourceOf
    Adders = {a1, a2}
    ServedBy <- MCServedBy
    HandMade <- MCHandMade
    NoFile = NoFile
    Broken = Broken
SYMMETRY Symmetric
INVARIANTS
    SchemaWhole
    BackupIsSound
    EditsKept
