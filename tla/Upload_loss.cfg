\* A label changes between the page and the click.
SPECIFICATION Spec
CONSTANTS
    march = march
    april = april
    Content = {march, april}
    Hash8 <- Apart
    NoFile = NoFile
    NoTarget = NoTarget
    MaxUploads = 2
PROPERTY
    LossIsWarnedOf
CHECK_DEADLOCK FALSE
