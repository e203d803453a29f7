SPECIFICATION ProcessSpec
CONSTANT Modes = {"plain", "hakoniwa"}
INVARIANT CleanupOutsideLoop
