\* convert_cql_value on every raw value of a set of column types, then
\* get_cql_type_info and estimate_memory_usage for that type.
CONSTANTS
    Types <- MCTypes
    Atoms <- MCAtoms
    RowCounts <- MCRowCounts
    NoneV = NoneV
    None <- NoneV

SPECIFICATION Spec

\* One call per behaviour: it returns and nothing follows.
CHECK_DEADLOCK FALSE

INVARIANT ConversionFollowsType
INVARIANT TypeInfoDescribesValue
