SPECIFICATION Spec
CONSTANTS
    Peers = {p1, p2}
    NoPeer = NoPeer
    Kinds = {"page", "missing", "plain", "raw", "fields", "upload", "form", "update"}
    MaxFile = 2
    Images = {5}
    BufLen = 2
    MaxPost = 2
    Sizes = {0, 9}
    MaxPieces = 2
    Polite = TRUE
    NamedBin = TRUE
    Sector = 2
    Sectors = 2
INVARIANTS
    UploadFaithful
    

    
    
CHECK_DEADLOCK FALSE
