\* Vision's thread, the tool's listener, python errors and deaths of vision.
SPECIFICATION FairPython
INVARIANT InterpreterInv
PROPERTIES RestartHonoured RestartEnds
