------------------------------ MODULE VIntScan ------------------------------
(***************************************************************************)
(* The compatibility validator (validate_cassandra_compatibility.py) run   *)
(* over a directory of table directories: run_compatibility_tests walks    *)
(* them in iterdir order (which the OS chooses), and for every Data.db and *)
(* Statistics.db file test_file_compatibility reads it, checks a Data.db's *)
(* magic number (analyze_magic_number), scans it left to right decoding   *)
(* every VInt it meets (find_vint_patterns calling decode_vint), and      *)
(* labels its structure (analyze_data_structure); the summary is tallied, *)
(* the report printed and the result handed to an external hook (main).   *)
(*                                                                         *)
(* Bytes are naturals in 0..255 and a file is a sequence of bytes. TLC's   *)
(* integers are 32 bits wide, so the 32-bit magic number is kept as its    *)
(* four bytes (masking with 0xFFFF0000 zeroes the last two) and the files  *)
(* checked are chosen so that every decoded magnitude fits in 31 bits.     *)
(* The encoder is the spec's (spec.md 4.1; the Rust codec is not in src/). *)
(***************************************************************************)
EXTENDS Naturals, Integers, Sequences, SequencesExt

CONSTANTS
    Layouts,        \* test directories: [exists, entries]; an entry is
                    \* [dir, files], a file [isFile, type, readable, bytes]
    MaxSamples,     \* find_vint_patterns(max_samples)
    None

VARIABLES
    layout,         \* the test directory the validator is run on
    tablesLeft,     \* entries of the test directory iterdir has still to yield
    filesLeft,      \* files of the current table directory still to yield
    ti,             \* the current table directory
    tableRes,       \* table_result["files"] of the current table
    tested,         \* results["tables_tested"]: one sequence of file results per table
    summary,        \* results["summary"]
    fileType,       \* the type of the file under test
    data,           \* its bytes
    pc,             \* "start", "table", "file", "magic", "scan", "report", "main", "done"
    magicInfo,      \* result of analyze_magic_number
    pos,            \* `position`: 0-based index of the next byte to look at
    samples,        \* `vint_samples`, in scan order
    report,         \* what generate_compatibility_report did
    stored          \* what main's coordination step did

vars == <<layout, tablesLeft, filesLeft, ti, tableRes, tested, summary,
          fileType, data, pc, magicInfo, pos, samples, report, stored>>

-----------------------------------------------------------------------------
(* decode_vint, lines 101-107: count the leading 1-bits of the first byte, *)
(* at most 8; the shifted byte is not truncated, so bit 7 of t * 2^k is    *)
(* bit 7-k of the original byte.                                          *)
RECURSIVE LeadingOnes(_, _)
LeadingOnes(t, e) ==
    IF (t \div 128) % 2 = 1 /\ e < 8 THEN LeadingOnes(2 * t, e + 1) ELSE e

RECURSIVE LeadingOnesUpTo7(_, _)
LeadingOnesUpTo7(t, e) ==
    IF (t \div 128) % 2 = 1 /\ e < 7 THEN LeadingOnesUpTo7(2 * t, e + 1) ELSE e

(* Mutant of the scanner's count: it stops at 7 extra bytes.              *)
ScanExtraBytesUpTo7(first) == LeadingOnesUpTo7(first, 0)

(* find_vint_patterns, lines 56-63: the scanner's own copy of the count,   *)
(* which fixes the window it hands to decode_vint.                         *)
ScanExtraBytes(first) == LeadingOnes(first, 0)

(* ZigZag decoding, line 131: (value >> 1) ^ (-1 if value & 1 else 0).     *)
ZigZagDecode(m) == IF m % 2 = 1 THEN -(m \div 2) - 1 ELSE m \div 2

Malformed == [valid |-> FALSE, value |-> 0]

(* Mutant: the first byte's value mask is one bit short (6 - extra).       *)
DecodeVIntNarrowMask(b) ==
    IF b = <<>> THEN Malformed
    ELSE
      LET first == b[1]
          extra == LeadingOnes(first, 0)
          fbits == IF extra < 6 THEN 6 - extra ELSE 0
          head  == IF extra = 0 THEN first % 128
                   ELSE IF fbits > 0 THEN first % (2 ^ fbits)
                   ELSE 0
          mag   == FoldLeft(LAMBDA acc, x : acc * 256 + x, head, Tail(b))
      IN  IF Len(b) # extra + 1 THEN Malformed
          ELSE [valid |-> TRUE, value |-> ZigZagDecode(mag)]

(* decode_vint, lines 95-131: empty input and a length that disagrees     *)
(* with the leading 1-bits are errors; otherwise the value bits of the     *)
(* first byte (7 - extra of them, none from 7 extra bytes on) are followed *)
(* by the remaining bytes big-endian, then ZigZag-decoded.                 *)
DecodeVInt(b) ==
    IF b = <<>> THEN Malformed
    ELSE
      LET first == b[1]
          extra == LeadingOnes(first, 0)
          fbits == IF extra < 7 THEN 7 - extra ELSE 0
          head  == IF extra = 0 THEN first % 128
                   ELSE IF fbits > 0 THEN first % (2 ^ fbits)
                   ELSE 0
          mag   == FoldLeft(LAMBDA acc, x : acc * 256 + x, head, Tail(b))
      IN  IF Len(b) # extra + 1 THEN Malformed
          ELSE [valid |-> TRUE, value |-> ZigZagDecode(mag)]

-----------------------------------------------------------------------------
(* The encoder of spec.md 4.1, the inverse the decoder is checked against: *)
(* ZigZag, then the fewest extra bytes e whose 7 + 7e value bits hold the  *)
(* magnitude, e leading 1-bits in the first byte, the magnitude in the     *)
(* first byte's remaining bits and e bytes after it, big-endian.           *)
ZigZagEncode(v) == IF v >= 0 THEN 2 * v ELSE -2 * v - 1

RECURSIVE ExtraNeeded(_, _)
ExtraNeeded(z, e) == IF z < 128 \/ e = 8 THEN e ELSE ExtraNeeded(z \div 128, e + 1)

RECURSIVE LowBytes(_, _)
LowBytes(x, n) == IF n = 0 THEN <<>> ELSE LowBytes(x \div 256, n - 1) \o <<x % 256>>

RECURSIVE ShiftBytes(_, _)
ShiftBytes(x, n) == IF n = 0 THEN x ELSE ShiftBytes(x \div 256, n - 1)

(* The encoding of magnitude z with exactly e extra bytes (z must fit).   *)
EncodeWidth(z, e) == <<256 - 2 ^ (8 - e) + ShiftBytes(z, e)>> \o LowBytes(z, e)

EncodeVInt(v) ==
    LET z == ZigZagEncode(v) IN EncodeWidth(z, ExtraNeeded(z, 0))

-----------------------------------------------------------------------------
(* analyze_magic_number, lines 19-42, for files of at least four bytes:    *)
(* the high 16 bits select a known format; the low 16 are the version.    *)
KnownFormats ==
    (<<111, 97, 0, 0>>  :> "oa") @@    \* 0x6F610000
    (<<110, 98, 0, 0>>  :> "nb") @@    \* 0x6E620000
    (<<109, 99, 0, 0>>  :> "mc") @@    \* 0x6D630000
    (<<108, 100, 0, 0>> :> "ld")       \* 0x6C640000

(* Mutant: the mask keeps 24 bits (0xFFFFFF00).                           *)
FormatCheckWide(d) == <<d[1], d[2], d[3], 0>>

(* magic & 0xFFFF0000, on the four bytes of the big-endian magic.         *)
FormatCheck(d) == <<d[1], d[2], 0, 0>>

(* Mutant: the version is masked with 0xFFFFFF instead of 0xFFFF.          *)
AnalyzeMagicNumberWideVersion(d) ==
    IF Len(d) < 4 THEN [recognized |-> FALSE, name |-> "short", version |-> 0]
    ELSE LET fc == FormatCheck(d) IN
         [recognized |-> fc \in DOMAIN KnownFormats,
          name       |-> IF fc \in DOMAIN KnownFormats THEN KnownFormats[fc]
                         ELSE "Unknown format",
          version    |-> d[2] * 65536 + d[3] * 256 + d[4]]

AnalyzeMagicNumber(d) ==
    IF Len(d) < 4 THEN [recognized |-> FALSE, name |-> "short", version |-> 0]
    ELSE LET fc == FormatCheck(d) IN
         [recognized |-> fc \in DOMAIN KnownFormats,
          name       |-> IF fc \in DOMAIN KnownFormats THEN KnownFormats[fc]
                         ELSE "Unknown format",
          version    |-> d[3] * 256 + d[4]]

-----------------------------------------------------------------------------
(* analyze_data_structure (133-187), as the labels of the patterns it      *)
(* reports. A Data.db always gets its three counts; a Statistics.db its    *)
(* class-reference count, the partitioner line when the bytes contain      *)
(* b'Partitioner', and a row count when its first eight bytes, big-endian, *)
(* are below 1,000,000 (read as bytes: five zero bytes, then under 10^6).  *)
PartitionerBytes == <<80, 97, 114, 116, 105, 116, 105, 111, 110, 101, 114>>
StructurePatterns(type, d) ==
    CASE type = "Data.db" -> {"ascii", "uuid", "length_prefixed"}
      [] type = "Statistics.db" ->
           {"java_refs"}
           \cup (IF PartitionerBytes \in SubSeqs(d) THEN {"partitioner"} ELSE {})
           \cup (IF Len(d) >= 8 /\ \A i \in 1..5 : d[i] = 0
                    /\ d[6] * 65536 + d[7] * 256 + d[8] < 1000000
                 THEN {"row_count"} ELSE {})
      [] OTHER -> {}

(* `any(pattern in file_path.name ...)` (line 268).                          *)
Candidate(f) == f.isFile /\ f.type \in {"Data.db", "Statistics.db"}

(* The result of test_file_compatibility: the except branch (225-231)      *)
(* returns no size_bytes, magic or vint analysis.                           *)
FileResult(type, ok, magic, found, valid, patterns) ==
    [type |-> type, success |-> ok, magic |-> magic, found |-> found,
     valid |-> valid, patterns |-> patterns]
Failed(type) == FileResult(type, FALSE, None, 0, 0, {})

(* Mutant: a Data.db with any magic analysis counts as a valid magic.      *)
TallyAnyMagic(s, r) ==
    IF ~r.success THEN [s EXCEPT !.total = @ + 1, !.failed = @ + 1]
    ELSE [s EXCEPT !.total = @ + 1, !.successful = @ + 1,
                   !.magicValid = @ + (IF r.magic # None THEN 1 ELSE 0),
                   !.vintValid = @ + r.valid, !.vintTotal = @ + r.found]

(* The summary update of run_compatibility_tests (271-286).                 *)
Tally(s, r) ==
    IF ~r.success THEN [s EXCEPT !.total = @ + 1, !.failed = @ + 1]
    ELSE [s EXCEPT !.total = @ + 1, !.successful = @ + 1,
                   !.magicValid = @ + (IF r.magic # None /\ r.magic.recognized THEN 1 ELSE 0),
                   !.vintValid = @ + r.valid, !.vintTotal = @ + r.found]

Record(r) ==
    /\ tableRes' = Append(tableRes, r)
    /\ summary' = Tally(summary, r)
    /\ pc' = "file"

NoMagic == [recognized |-> FALSE, name |-> "none", version |-> 0]

-----------------------------------------------------------------------------
Init ==
    /\ layout \in Layouts
    /\ tablesLeft = {} /\ filesLeft = {} /\ ti = 0
    /\ tableRes = <<>> /\ tested = <<>>
    /\ summary = [total |-> 0, successful |-> 0, failed |-> 0,
                  magicValid |-> 0, vintValid |-> 0, vintTotal |-> 0]
    /\ fileType = "none" /\ data = <<>>
    /\ pc = "start"
    /\ magicInfo = NoMagic
    /\ pos = 0
    /\ samples = <<>>
    /\ report = "none" /\ stored = "none"

PerFile == <<fileType, data, magicInfo, pos, samples>>
Outcome == <<report, stored>>

(* run_compatibility_tests (233-250): a missing path returns the error     *)
(* result at once; otherwise the directory is listed.                      *)
StartRun ==
    /\ pc = "start"
    /\ IF layout.exists
       THEN tablesLeft' = DOMAIN layout.entries /\ pc' = "table"
       ELSE pc' = "report" /\ UNCHANGED tablesLeft
    /\ UNCHANGED <<layout, filesLeft, ti, tableRes, tested, summary>>
    /\ UNCHANGED PerFile /\ UNCHANGED Outcome

(* iterdir yields some entry not yet seen; a table directory is entered    *)
(* (lines 258-265), anything else is passed over.                          *)
NextTable ==
    /\ pc = "table"
    /\ \E t \in tablesLeft :
          /\ tablesLeft' = tablesLeft \ {t}
          /\ IF layout.entries[t].dir
             THEN /\ ti' = t /\ filesLeft' = DOMAIN layout.entries[t].files
                  /\ tableRes' = <<>> /\ pc' = "file"
             ELSE UNCHANGED <<ti, filesLeft, tableRes, pc>>
    /\ UNCHANGED <<layout, tested, summary>> /\ UNCHANGED PerFile /\ UNCHANGED Outcome

(* The table's files are done; it is listed if any file was tested         *)
(* (288-289).                                                              *)
TableDone ==
    /\ pc = "file" /\ filesLeft = {}
    /\ tested' = IF tableRes # <<>> THEN Append(tested, tableRes) ELSE tested
    /\ pc' = "table"
    /\ UNCHANGED <<layout, tablesLeft, filesLeft, ti, tableRes, summary>>
    /\ UNCHANGED PerFile /\ UNCHANGED Outcome

(* iterdir yields a file of the table; a candidate is tested (267-270):    *)
(* open() failing ends in the except branch, else the bytes are read and   *)
(* a Data.db goes to its magic check (206-209), any other to the scan.     *)
NextFile ==
    /\ pc = "file"
    /\ \E f \in filesLeft :
          LET e == layout.entries[ti].files[f] IN
          /\ filesLeft' = filesLeft \ {f}
          /\ IF ~Candidate(e) THEN UNCHANGED <<tableRes, summary, pc, PerFile>>
             ELSE IF ~e.readable
             THEN Record(Failed(e.type)) /\ UNCHANGED PerFile
             ELSE /\ fileType' = e.type /\ data' = e.bytes
                  /\ magicInfo' = NoMagic /\ pos' = 0 /\ samples' = <<>>
                  /\ pc' = IF e.type = "Data.db" THEN "magic" ELSE "scan"
                  /\ UNCHANGED <<tableRes, summary>>
    /\ UNCHANGED <<layout, tablesLeft, ti, tested>> /\ UNCHANGED Outcome

(* test_file_compatibility, lines 206-209: a Data.db file's magic number.  *)
CheckMagic ==
    /\ pc = "magic"
    /\ magicInfo' = AnalyzeMagicNumber(data)
    /\ pc' = "scan"
    /\ UNCHANGED <<layout, tablesLeft, filesLeft, ti, tableRes, tested, summary>>
    /\ UNCHANGED <<fileType, data, pos, samples>> /\ UNCHANGED Outcome

FileFixed == <<layout, tablesLeft, filesLeft, ti, tableRes, tested, summary,
               fileType, data, pc, magicInfo>>

(* The scan loop runs while a full nine-byte window lies ahead of the      *)
(* position and fewer than max_samples were taken (line 49).              *)
Scanning ==
    /\ pc = "scan"
    /\ pos < Len(data) - 9
    /\ Len(samples) < MaxSamples

(* Lines 52-54: a zero byte is passed over.                               *)
SkipZero ==
    /\ Scanning
    /\ data[pos + 1] = 0
    /\ pos' = pos + 1
    /\ UNCHANGED samples /\ UNCHANGED FileFixed /\ UNCHANGED Outcome

(* Lines 56-87: the window the first byte announces is decoded and         *)
(* recorded, valid or not, and the scan moves past it. The window always  *)
(* fits: at most nine bytes start before Len(data) - 9 (so the branch of  *)
(* lines 88-89 cannot be taken).                                           *)
TakeVInt ==
    /\ Scanning
    /\ data[pos + 1] # 0
    /\ LET total == ScanExtraBytes(data[pos + 1]) + 1
           win   == SubSeq(data, pos + 1, pos + total)
       IN  /\ samples' = Append(samples, [at |-> pos, bytes |-> win] @@ DecodeVInt(win))
           /\ pos' = pos + total
    /\ UNCHANGED FileFixed /\ UNCHANGED Outcome

(* The loop ends (line 93); test_file_compatibility adds the vint counts   *)
(* and the structure patterns and returns (211-223); the caller tallies    *)
(* the result (269-286).                                                    *)
ScanEnd ==
    /\ pc = "scan"
    /\ ~(pos < Len(data) - 9 /\ Len(samples) < MaxSamples)
    /\ Record(FileResult(fileType, TRUE,
                         IF fileType = "Data.db" THEN magicInfo ELSE None,
                         Len(samples),
                         Len(SelectSeq(samples, LAMBDA s : s.valid)),
                         StructurePatterns(fileType, data)))
    /\ UNCHANGED <<layout, tablesLeft, filesLeft, ti, tested>>
    /\ UNCHANGED PerFile /\ UNCHANGED Outcome

(* generate_compatibility_report (293-391). An error result prints the     *)
(* error. Otherwise the per-file lines index file_result['size_bytes'],    *)
(* which a failed result lacks, and magic['magic_hex'], which the error    *)
(* dict of a file under four bytes lacks: either raises KeyError out of    *)
(* main. Else the status follows the share of successful tests.            *)
Status(s) ==
    LET n == IF s.total > 1 THEN s.total ELSE 1 IN
    CASE 100 * s.successful >= 90 * n -> "excellent"
      [] 100 * s.successful >= 75 * n -> "good"
      [] 100 * s.successful >= 50 * n -> "needs_work"
      [] OTHER                         -> "critical"
ReportKeyError ==
    \E i \in DOMAIN tested : \E j \in DOMAIN tested[i] :
        \/ ~tested[i][j].success
        \/ tested[i][j].magic # None /\ tested[i][j].magic.name = "short"
Report ==
    /\ pc = "report"
    /\ report' = CASE ~layout.exists -> "error"
                    [] ReportKeyError -> "key_error"
                    [] OTHER          -> Status(summary)
    /\ pc' = IF report' = "key_error" THEN "done" ELSE "main"
    /\ UNCHANGED <<layout, tablesLeft, filesLeft, ti, tableRes, tested, summary>>
    /\ UNCHANGED PerFile /\ UNCHANGED stored

(* main (393-430): the coordination data reads results["summary"], which  *)
(* an error result lacks (KeyError, caught); the hook is an external       *)
(* command that may be missing or fail (caught), or run.                    *)
Store ==
    /\ pc = "main"
    /\ stored' \in IF layout.exists THEN {"stored", "warned"} ELSE {"warned"}
    /\ pc' = "done"
    /\ UNCHANGED <<layout, tablesLeft, filesLeft, ti, tableRes, tested, summary>>
    /\ UNCHANGED PerFile /\ UNCHANGED report

(* The walk is over.                                                       *)
TablesDone ==
    /\ pc = "table" /\ tablesLeft = {}
    /\ pc' = "report"
    /\ UNCHANGED <<layout, tablesLeft, filesLeft, ti, tableRes, tested, summary>>
    /\ UNCHANGED PerFile /\ UNCHANGED Outcome

Next ==
    \/ StartRun \/ NextTable \/ TableDone \/ NextFile \/ TablesDone
    \/ CheckMagic \/ SkipZero \/ TakeVInt \/ ScanEnd \/ Report \/ Store

Spec == Init /\ [][Next]_vars /\ WF_vars(Next)

-----------------------------------------------------------------------------
Byte == 0..255

MagicResults ==
    [recognized : BOOLEAN,
     name : {"oa", "nb", "mc", "ld", "Unknown format", "short", "none"},
     version : 0..65535]

TypeOK ==
    /\ data \in Seq(Byte)
    /\ pc \in {"start", "table", "file", "magic", "scan", "report", "main", "done"}
    /\ tablesLeft \subseteq DOMAIN layout.entries
    /\ report \in {"none", "error", "key_error", "excellent", "good", "needs_work", "critical"}
    /\ stored \in {"none", "stored", "warned"}
    /\ magicInfo \in MagicResults
    /\ pos \in 0..Len(data)
    /\ \A i \in 1..Len(samples) :
          /\ samples[i].at \in 0..Len(data)
          /\ samples[i].bytes \in Seq(Byte)
          /\ samples[i].valid \in BOOLEAN
          /\ samples[i].value \in Int

(* The scanner and the decoder agree on VInt lengths: every window          *)
(* find_vint_patterns cuts (by its own count of leading 1-bits) is one      *)
(* decode_vint accepts, so no sample of a well-formed file is reported      *)
(* invalid, including a window led by 0xFF (nine bytes).                    *)
ScanAgreesWithDecoder ==
    \A i \in 1..Len(samples) : samples[i].valid

(* Every window the scan decodes as valid is the spec's encoding, at the   *)
(* window's width, of the value decode_vint returned: the decoder reads    *)
(* exactly the bits the encoder writes, including the 8- and 9-byte forms  *)
(* whose first byte carries no value bits (spec.md 4.1).                   *)
ScanRoundTrip ==
    \A i \in 1..Len(samples) :
        samples[i].valid =>
            EncodeWidth(ZigZagEncode(samples[i].value), Len(samples[i].bytes) - 1)
                = samples[i].bytes

(* Magic-number detection (spec.md 4.2, 8): once checked, a Data.db is        *)
(* recognized exactly when its first two bytes are those of a known        *)
(* format generation, whatever the version bytes, and is then reported     *)
(* under that generation's name.                                           *)
Generations == [p \in {<<111, 97>>, <<110, 98>>, <<109, 99>>, <<108, 100>>} |->
                  CASE p = <<111, 97>> -> "oa" [] p = <<110, 98>> -> "nb"
                    [] p = <<109, 99>> -> "mc" [] OTHER -> "ld"]

MagicDetection ==
    fileType = "Data.db" /\ pc # "magic" /\ Len(data) >= 4 =>
        /\ magicInfo.recognized = (<<data[1], data[2]>> \in DOMAIN Generations)
        /\ magicInfo.recognized => magicInfo.name = Generations[<<data[1], data[2]>>]

(* The summary run_compatibility_tests hands to the report counts the      *)
(* directory, whatever order iterdir yields tables and files in: every     *)
(* Data.db and Statistics.db file of every table directory once, the ones  *)
(* open() failed on as failed, and as valid magic numbers exactly the      *)
(* readable Data.db files of a known format generation.                    *)
DirFiles ==
    UNION { { <<t, f>> : f \in { g \in DOMAIN layout.entries[t].files :
                                    Candidate(layout.entries[t].files[g]) } }
            : t \in { u \in DOMAIN layout.entries : layout.entries[u].dir } }
FileAt(tf) == layout.entries[tf[1]].files[tf[2]]
KnownMagic(e) ==
    e.type = "Data.db" /\ e.readable /\ Len(e.bytes) >= 4
    /\ <<e.bytes[1], e.bytes[2]>> \in DOMAIN Generations
SummaryMatchesDirectory ==
    pc \in {"report", "main", "done"} /\ layout.exists =>
        /\ summary.total = Cardinality(DirFiles)
        /\ summary.failed = Cardinality({tf \in DirFiles : ~FileAt(tf).readable})
        /\ summary.magicValid = Cardinality({tf \in DirFiles : KnownMagic(FileAt(tf))})
        /\ summary.total = FoldSeq(LAMBDA r, n : n + Len(r), 0, tested)
=============================================================================
