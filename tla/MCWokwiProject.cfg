\* Two builds, two edits and an interruption anywhere.
CONSTANTS
    rx = rx
    led = led
    p1 = p1
    p2 = p2
    e1 = e1
    e2 = e2
    c1 = c1
    c2 = c2
    Signals = {rx, led}
    Pins = {p1, p2}
    Entrypoints = {e1, e2}
    Chips = {c1, c2}
    Settings <- MCSettings
    Diagrams <- MCDiagrams
    Tracked <- MCTracked
    Layouts <- MCLayouts
    MaxBuilds = 2
    MaxEdits = 2
    MaxFaults = 1
SPECIFICATION FairSpec
INVARIANTS
    PassedBelongsTogether
    BuildsNeverMix
PROPERTIES
    SoundBuildsPass
CHECK_DEADLOCK FALSE
