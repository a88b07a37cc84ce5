----------------------------- MODULE MCVIntScan -----------------------------
(***************************************************************************)
(* Test directories for the validator. Data.db files for the magic-number *)
(* check and VInt scan are a four-byte header, a body of VInts and ten     *)
(* zero bytes, so the whole body lies before the scan's nine-byte stop     *)
(* margin; each sits in a table directory beside Statistics.db and        *)
(* Index.db files, next to a plain file, and some directories also hold    *)
(* a Data.db that cannot be opened and one under four bytes.               *)
(***************************************************************************)
EXTENDS VIntScan

(* Known generations with zero and non-zero version bytes, a near miss     *)
(* ('ob') and an unknown header whose bytes start multi-byte VInts.        *)
Headers ==
    { <<111, 97, 0, 1>>,        \* 6F 61 00 01: 'oa'
      <<110, 98, 18, 52>>,      \* 6E 62 12 34: 'nb'
      <<111, 98, 0, 0>>,        \* 6F 62 00 00: not a known format
      <<222, 173, 190, 1>> }    \* DE AD BE 01: not a known format

(* Values each side of the one/two/three/four/five-byte boundaries of the  *)
(* spec's encoding, both signs.                                            *)
Boundaries == <<-1, 63, -64, 64, -8192, 8192, -1048577, 134217728>>

(* Bodies: canonical encodings of the boundary values; the non-canonical   *)
(* eight- and nine-byte forms whose first byte has no value bits (FE, FF); *)
(* a two-byte VInt with all value bits set (BF FF); and more one-byte      *)
(* VInts than max_samples.                                                 *)
Bodies ==
    { FoldLeft(LAMBDA acc, v : acc \o EncodeVInt(v), <<>>, Boundaries),
      <<254, 0, 0, 0, 0, 0, 1, 0>> \o <<255, 0, 0, 0, 0, 0, 0, 0, 42>>,
      <<191, 255>> \o EncodeWidth(300, 3),
      [i \in 1..12 |-> i] }

MCFiles == { h \o b \o [i \in 1..10 |-> 0] : h \in Headers, b \in Bodies }

MCMaxSamples == 10

(* Statistics.db: a row count of 5 in the first eight bytes, then bytes     *)
(* that do not spell "Partitioner"; and one that does, behind a count too  *)
(* large to be one.                                                        *)
StatsRows == <<0, 0, 0, 0, 0, 0, 0, 5>> \o [i \in 1..4 |-> 7]
StatsPartitioner == <<1, 0, 0, 0, 0, 0, 0, 0>> \o PartitionerBytes

File(type, readable, bytes) ==
    [isFile |-> TRUE, type |-> type, readable |-> readable, bytes |-> bytes]
NotADir == [dir |-> FALSE, files |-> <<>>]
Table(fs) == [dir |-> TRUE, files |-> fs]

(* A table with one Data.db of MCFiles, a Statistics.db and an Index.db; *)
(* once beside a plain file, once beside a second table whose Data.db    *)
(* files fail (unopenable, or two bytes long); an empty test directory, *)
(* and a missing one.                                                      *)
Good(d) == Table(<<File("Data.db", TRUE, d), File("Statistics.db", TRUE, StatsRows),
                   File("Index.db", TRUE, <<1, 2>>)>>)
Bad == Table(<<File("Statistics.db", TRUE, StatsPartitioner),
               File("Data.db", FALSE, <<>>), File("Data.db", TRUE, <<111, 97>>)>>)
SomeFiles == { <<111, 97, 0, 1>> \o [i \in 1..12 |-> i] \o [i \in 1..10 |-> 0],
               <<222, 173, 190, 1>> \o [i \in 1..12 |-> i] \o [i \in 1..10 |-> 0] }

MCLayouts ==
    { [exists |-> TRUE, entries |-> <<Good(d), NotADir>>] : d \in MCFiles }
    \cup { [exists |-> TRUE, entries |-> <<Good(d), Bad>>] : d \in SomeFiles }
    \cup { [exists |-> TRUE, entries |-> <<NotADir>>],
           [exists |-> FALSE, entries |-> <<>>] }
=============================================================================
