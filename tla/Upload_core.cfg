\* Two exports whose short hashes are the same and a third, two uploads, a DAG that
\* may hold the file at any time.
SPECIFICATION FairSpec
CONSTANTS
    march = march
    april = april
    Content = {march, april, may}
    Hash8 <- Alike
    NoFile = NoFile
    NoTarget = NoTarget
    MaxUploads = 2
INVARIANT
    InBronzeIsTrue
PROPERTY
    DuplicateIsRecognised
CHECK_DEADLOCK FALSE
