\* Two pages that poll while two presets take turns.
SPECIFICATION LiveSpec
CONSTANTS
    None = None
    Threads = {t1, t2}
    Presets = {p, q}
    Interval = 1
    Ring = 1
    MaxTime = 3
    MaxTokens = 1
INVARIANTS AsksWhatWasListedLast RateNeverOverstates
PROPERTIES SamplerGoesOn
