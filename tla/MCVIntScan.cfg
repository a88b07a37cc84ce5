\* The validator run over test directories: the walk, the per-file magic
\* check, VInt scan and structure analysis, the summary and the report.
CONSTANTS
    Layouts <- MCLayouts
    MaxSamples <- MCMaxSamples
    None = None

SPECIFICATION Spec

\* The validator's run ends once main has handed on the result or the
\* report has raised.
CHECK_DEADLOCK FALSE

INVARIANT TypeOK
INVARIANT ScanAgreesWithDecoder
INVARIANT ScanRoundTrip
INVARIANT MagicDetection
INVARIANT SummaryMatchesDirectory
