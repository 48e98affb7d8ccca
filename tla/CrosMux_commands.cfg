SPECIFICATION Spec
CONSTANT
    Adapters = {1, 2, 3}
INVARIANT TypeOK
INVARIANT MuxFitsMode
INVARIANT ReportedIsEntered
