\* convert_cql_value(None, <collection type>): does a null collection convert
\* to the empty collection, as spec.md 4.3 and 8 and tests/test_types.py:270 say?
CONSTANTS
    Types <- MCTypes
    Atoms <- MCAtoms
    RowCounts <- MCRowCounts
    NoneV = NoneV
    None <- NoneV

SPECIFICATION Spec

\* One call per behaviour: it returns and nothing follows.
CHECK_DEADLOCK FALSE

INVARIANT NullCollectionIsEmpty
