SPECIFICATION Spec
CONSTANTS
    f1 = f1
    f2 = f2
    startup = startup
    s1 = s1
    s2 = s2
    NumTests = 3
    Statements = {s1, s2}
    FileOf <- FileOfTwo
    CompileCommands <- Commands
    SourceFiles = {f1, f2}
    FilesToLocalize = 2
    Scale = 60
    FirstPackages <- OneOrTwo
CHECK_DEADLOCK FALSE
INVARIANTS CoverageAttributed FaultLocalizedWhenEnding
