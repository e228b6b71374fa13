CONSTANTS
    MaxBytes = 200
    MaxDimension = 9
    MaxPixels = 30
    MaxSegments = 12
    MaxIfdEntries = 8
    MaxValueCount = 100
    MinAltitude <- MCMinAltitude
    MaxAltitude = 10000
    Sendings <- AllSendings
SPECIFICATION Spec
INVARIANT FateIsTheFilesOwn
INVARIANT StoredFileIsSettled
INVARIANT PartsFollowOneAnother
INVARIANT MetadataAsTaken
