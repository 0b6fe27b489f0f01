CONSTANTS
    Thread = {t1, t2}
    Free = Free
    Step = 3
    Period = 9
    Half = 8
    EnableAfter = 2
    Full = 3
    Configs <- Percentages
    MaxForks = 2
SPECIFICATION Spec
INVARIANT OneTrimmer
PROPERTIES Hysteresis 
