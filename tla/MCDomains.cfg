\* Three domains.  The word is small, so that products, counters and nr_keys
\* wrap; the total of the weights does not.
CONSTANTS
    d0 = d0  d1 = d1  d2 = d2
    Doms <- MCDoms
    Dom0 = d0
    Word = 128
    Default = 30
    Weights = {0, 1, 25, 40}
    Times = {1, 3}
    Profiles <- MCProfiles
    Vcpus = 2
    MaxEntries = 3
SPECIFICATION Spec
INVARIANT TypeOK TotalIsSum RatiosCurrent RatiosShareAHundred HitrateWithin DivisorsNonzero KeysSuffice
CHECK_DEADLOCK FALSE
