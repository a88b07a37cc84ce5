-------------------------- MODULE MCTypeConversion --------------------------
EXTENDS TypeConversion

T(b, ps) == [b |-> b, ps |-> ps]
IntT == T("int", <<>>)
TextT == T("text", <<>>)

(* Scalars, each collection kind, and nestings whose parameters carry      *)
(* their own brackets and commas.                                          *)
MCTypes ==
    { IntT, TextT, T("udt", <<>>),
      T("list", <<IntT>>), T("set", <<TextT>>), T("map", <<TextT, IntT>>),
      T("tuple", <<IntT, TextT>>),
      T("list", <<T("tuple", <<IntT, TextT>>)>>),
      T("map", <<TextT, T("tuple", <<IntT, TextT>>)>>),
      T("map", <<TextT, T("list", <<IntT>>)>>),
      T("tuple", <<T("map", <<TextT, IntT>>), IntT>>),
      T("set", <<T("tuple", <<IntT, IntT>>)>>) }

MCAtoms == {"r1", "r2"}

(* Row counts for the memory estimate: one row, and counts that put a     *)
(* list column (600 bytes a row) past 100 MiB and past 1000 MiB, and a    *)
(* text column (150 bytes) past 100 MiB only.                             *)
MCRowCounts == {1, 200000, 2000000}
CONSTANTS NoneV
=============================================================================
