----------------------------- MODULE ExportJob -----------------------------
(***************************************************************************)
(* run_export and export_with (irodori-io/src/export.rs): the rows of a    *)
(* result through an encoder into a file, as a job that reports progress   *)
(* and can be cancelled, and the preview of the file by whoever imports it *)
(* next.                                                                   *)
(*                                                                         *)
(* The job runtime (irodori_jobs) and the writer are external: either may  *)
(* fail at any call.                                                       *)
(***************************************************************************)
EXTENDS TabularImport

CONSTANTS Formats,          \* the formats and options a user may ask for
          Results(_),       \* the rows that may be exported with a format
          Tokens,           \* what texts are made of
          ProgressEvery,    \* ExportConfig::progress_every_rows
          MaxRows,          \* ImportPreviewOptions::max_rows
          SampleRows        \* 100: the rows infer_csv_schema looks at

CellTypes == {"null", "bool", "int", "float", "text"}
Cells     == {Null} \cup [type : CellTypes \ {"null"}, text : Seq(Tokens)]

SchemaColumn == [name : Seq(Tokens), sqlType : Tokens, nullable : BOOLEAN]

DelimitedOptions ==
  [ delimiter : Tokens, quote : Tokens, includeHeader : BOOLEAN,
    nullValue : Seq(Tokens), lineEnding : Seq(Tokens),
    quoteStyle : {"necessary", "always", "never"} ]

KnownFormat(format) ==
  /\ format.columns \in Seq(Seq(Tokens))
  /\ \/ format.kind \in {"insert", "json", "ndjson", "avro", "parquet"}
     \/ format.kind = "delimited" /\ format.options \in DelimitedOptions
     \/ /\ format.kind = "script" /\ format.batchSize \in Nat
        /\ format.createTable \in {Absent} \cup Seq(SchemaColumn)

\* A record of a binary format has a value for each column; the other formats
\* take rows of any length.
RowFits(row, format) ==
  format.kind \in {"avro", "parquet"} => Len(row) = Len(format.columns)

\* A format is one of those there are, and what may be exported with it are
\* rows of cells that fit it.  A token of a text is no keyword.
ASSUME ExportAssumption ==
  /\ ProgressEvery \in Nat /\ MaxRows \in Nat /\ SampleRows \in Nat
  /\ "INSERT" \notin Tokens
  /\ \A format \in Formats :
       /\ KnownFormat(format)
       /\ \A table \in Results(format) :
            /\ table \in Seq(Seq(Cells))
            /\ \A r \in DOMAIN table : RowFits(table[r], format)

VARIABLES rows,           \* the rows to export
          encoder,        \* the encoder
          output,         \* what was written
          rowsWritten,    \* rows the encoder has taken
          pc,             \* where export_with is
          cancelled,      \* it has seen the cancellation
          job,            \* the job's status and its artifacts
          cancelAt,       \* rows_written when the job was asked to stop
          preview         \* what the importing side sees

vars == <<rows, encoder, output, rowsWritten, pc, cancelled, job, cancelAt, preview>>

Format == encoder.format

-----------------------------------------------------------------------------
Init ==
  \E format \in Formats :
    /\ rows \in Results(format)
    /\ LET new == NewEncoder(format) IN
       /\ encoder = new.encoder
       /\ output = new.out
       /\ pc = IF new.ok THEN "rows" ELSE "over"
       /\ job = [ status |-> IF new.ok THEN "running" ELSE "none",
                  artifacts |-> {} ]
    /\ rowsWritten = 0
    /\ cancelled = FALSE
    /\ cancelAt = Absent
    /\ preview = Absent

\* An error of a row, of the writer or of the job runtime ends the job.
JobFails == /\ pc' = "over"
            /\ job' = [job EXCEPT !.status = "failed"]

RequestCancel ==
  /\ pc # "over" /\ cancelAt = Absent
  /\ cancelAt' = rowsWritten
  /\ UNCHANGED <<rows, encoder, output, rowsWritten, pc, cancelled, job, preview>>

\* Slip: progress is reported, and a cancellation seen, only once.
DueOnce(n) == n = AtLeastOne(ProgressEvery)
Due(n) == n % AtLeastOne(ProgressEvery) = 0

\* The next row, whether the encoder takes it or not.
ExportRow ==
  /\ pc = "rows" /\ rowsWritten < Len(rows)
  /\ LET written == WriteRow(encoder, rows[rowsWritten + 1]) IN
     /\ output' = output \o written.out
     /\ encoder' = written.encoder
     /\ IF written.ok
        THEN /\ rowsWritten' = rowsWritten + 1
             /\ pc' = IF Due(rowsWritten + 1) THEN "progress" ELSE "rows"
             /\ UNCHANGED job
        ELSE JobFails /\ UNCHANGED rowsWritten
  /\ UNCHANGED <<rows, cancelled, cancelAt, preview>>

ReportProgress(ok) ==
  /\ pc = "progress"
  /\ IF ok THEN pc' = "check" /\ UNCHANGED job ELSE JobFails
  /\ UNCHANGED <<rows, encoder, output, rowsWritten, cancelled, cancelAt, preview>>

CheckCancel ==
  /\ pc = "check"
  /\ cancelled' = (cancelAt # Absent)
  /\ pc' = IF cancelled' THEN "finish" ELSE "rows"
  /\ UNCHANGED <<rows, encoder, output, rowsWritten, job, cancelAt, preview>>

RowsAreOver ==
  /\ pc = "rows" /\ rowsWritten = Len(rows)
  /\ pc' = "finish"
  /\ UNCHANGED <<rows, encoder, output, rowsWritten, cancelled, job, cancelAt,
                 preview>>

\* A cancelled export is finished as well.
Finish ==
  /\ pc = "finish"
  /\ LET finished == FinishEncoder(encoder) IN
     /\ output' = output \o finished.out
     /\ encoder' = finished.encoder
     /\ IF ~finished.ok THEN JobFails
        ELSE pc' = (IF cancelled THEN "outcome" ELSE "last") /\ UNCHANGED job
  /\ UNCHANGED <<rows, rowsWritten, cancelled, cancelAt, preview>>

ReportLast(ok) ==
  /\ pc = "last"
  /\ IF ok THEN pc' = "outcome" /\ UNCHANGED job ELSE JobFails
  /\ UNCHANGED <<rows, encoder, output, rowsWritten, cancelled, cancelAt, preview>>

\* run_export: what the report is turned into.
Outcome ==
  /\ pc = "outcome"
  /\ pc' = "over"
  /\ job' = IF cancelled THEN [status |-> "cancelled", artifacts |-> {}]
            ELSE [status |-> "succeeded", artifacts |-> {rowsWritten}]
  /\ UNCHANGED <<rows, encoder, output, rowsWritten, cancelled, cancelAt, preview>>

\* The writer fails, having taken some of a row or of the end, or nothing.
WriterFails ==
  /\ pc \in {"rows", "finish"}
  /\ LET piece == IF pc = "finish" THEN FinishEncoder(encoder).out
                  ELSE IF rowsWritten < Len(rows)
                       THEN WriteRow(encoder, rows[rowsWritten + 1]).out
                       ELSE << >>
     IN  /\ piece # << >>
         /\ \E n \in {0, Len(piece) - 1} : output' = output \o SubSeq(piece, 1, n)
  /\ JobFails
  /\ UNCHANGED <<rows, encoder, rowsWritten, cancelled, cancelAt, preview>>

\* The file is previewed with the options it was written with.
Preview ==
  /\ pc = "over" /\ preview = Absent
  /\ \/ /\ Format.kind = "delimited"
        /\ preview' = PreviewDelimited(output,
                         [ delimiter  |-> Format.options.delimiter,
                           quote      |-> Format.options.quote,
                           hasHeader  |-> Format.options.includeHeader,
                           nullValues |-> {Format.options.nullValue},
                           maxRows    |-> MaxRows ])
     \/ Format.kind = "json" /\ preview' = PreviewJson(output, MaxRows)
     \/ Format.kind = "ndjson" /\ preview' = PreviewNdjson(output, MaxRows)
  /\ UNCHANGED <<rows, encoder, output, rowsWritten, pc, cancelled, job, cancelAt>>

Next == \/ RequestCancel \/ ExportRow \/ RowsAreOver
        \/ \E ok \in BOOLEAN : ReportProgress(ok)
        \/ CheckCancel \/ Finish
        \/ \E ok \in BOOLEAN : ReportLast(ok)
        \/ Outcome \/ WriterFails
        \/ Preview

Spec == Init /\ [][Next]_vars

-----------------------------------------------------------------------------
(* What is true of an export. *)

Exported == SubSeq(rows, 1, rowsWritten)
Whole    == job.status \in {"succeeded", "cancelled"}

\* The rows of the statements of a script, as literals.
Statement(literalRows, clause) ==
  <<"INSERT">> \o Joined(literalRows, <<",">>) \o clause \o <<";">>

Literals(literalOf(_), exported) ==
  [r \in DOMAIN exported |->
     Tuple([i \in DOMAIN exported[r] |-> literalOf(exported[r][i])])]

\* A script in batches: all of them full, except for the last.
Batches(literalRows, size, clause) ==
  LET n == (Len(literalRows) + size - 1) \div size IN
  FlattenSeq([b \in 1 .. n |->
    Statement(SubSeq(literalRows, (b - 1) * size + 1,
                     IF b = n THEN Len(literalRows) ELSE b * size), clause)])

\* A line without fields, or of an empty one that is not quoted, is no line
\* to a reader.
IsBlankLine(fields, o) ==
  fields = << >> \/ (o.quoteStyle # "always" /\ fields = <<<< >>>>)

\* Lines end as a reader expects it, and the header is one; an object has
\* each column once.
Readable(format, table) ==
  IF format.kind = "delimited"
  THEN /\ format.options.lineEnding \in Seq(LineBreaks) \ {<< >>}
       /\ format.options.includeHeader =>
            ~IsBlankLine(format.columns, format.options)
  ELSE /\ \A i, j \in DOMAIN format.columns :
            format.columns[i] = format.columns[j] => i = j
       /\ \A r \in DOMAIN table : Len(table[r]) = Len(format.columns)

\* The object of a row whose columns have names of their own.
ObjectOf(format, row) ==
  [i \in DOMAIN row |-> [name |-> format.columns[i], value |-> JsonValue(row[i])]]

\* A column of floats takes an integer that is no f64 as the one next to it.
LosesDigits(type, cell) ==
  type = "float" /\ cell.type = "int" /\ AsDouble(cell.text) # cell.text

\* A job that succeeded has written every row, one that was cancelled the
\* rows it reports, each of them once, in order and to the end of the file,
\* whatever the encoder had kept back; in a Parquet file but for the digits
\* that an integer loses among floats.  What a delimited file holds is what a
\* reader finds in it (PreviewReadsBack).
OutputIsTheRows ==
  Whole =>
    /\ job.status = "succeeded" => /\ rowsWritten = Len(rows)
                                   /\ job.artifacts = {Len(rows)}
    /\ CASE Format.kind = "insert" ->
              output = Batches(Literals(InsertLiteral, Exported), 1, << >>)
         [] Format.kind = "script" ->
              output = (IF Format.createTable = Absent THEN << >>
                        ELSE CreateTable(encoder).out)
                         \o Batches(Literals(SqlLiteral, Exported),
                                    AtLeastOne(Format.batchSize),
                                    UpsertClause(encoder))
         [] Format.kind = "avro" -> output = Exported
         [] Format.kind = "parquet" ->
              /\ Len(output) = 1
              /\ \A i \in DOMAIN Format.columns :
                   LET column == output[1][i] IN
                   /\ Len(column.cells) = rowsWritten
                   /\ \A r \in 1 .. rowsWritten :
                        /\ \/ column.cells[r].text = rows[r][i].text
                           \/ LosesDigits(column.type, rows[r][i])
                        /\ column.cells[r].type \in {"null", column.type}
                        /\ column.cells[r].type = "null" <=> rows[r][i].type = "null"
         [] Format.kind = "json" ->
              /\ Len(output) = IF rowsWritten = 0 THEN 2 ELSE 2 * rowsWritten + 1
              /\ output[1] = Mark("[") /\ output[Len(output)] = Mark("]")
              /\ \A r \in 2 .. rowsWritten : output[2 * r - 1] = Mark(",")
              /\ Readable(Format, Exported) =>
                   \A r \in 1 .. rowsWritten :
                     output[2 * r] = Object(ObjectOf(Format, rows[r]))
         [] Format.kind = "ndjson" ->
              /\ Len(output) = 2 * rowsWritten
              /\ \A r \in 1 .. rowsWritten : output[2 * r] = Mark("nl")
              /\ Readable(Format, Exported) =>
                   \A r \in 1 .. rowsWritten :
                     output[2 * r - 1] = Object(ObjectOf(Format, rows[r]))
         [] OTHER -> TRUE

\* What a cell comes back as.
ReadAs(cell) ==
  IF Format.kind = "delimited"
  THEN InferDelimitedCell(FieldText(cell, Format.options),
                          {Format.options.nullValue})
  ELSE JsonValue(cell)

FieldTexts(row, o) == [i \in DOMAIN row |-> FieldText(row[i], o)]

\* The rows a reader finds.
KeptRows(exported, format) ==
  FlattenSeq([r \in DOMAIN exported |->
    IF format.kind = "delimited"
         /\ IsBlankLine(FieldTexts(exported[r], format.options), format.options)
    THEN << >> ELSE <<exported[r]>>])

Admits(type, cell) == \/ cell.type \in {"null", type}
                      \/ type = "float" /\ cell.type = "int"
                      \/ type = "text"

\* What was exported is what is imported: every row but the blank lines, in
\* order, cell by cell and under its column, whatever separators, quotes and
\* line breaks a text contains; and a column's type admits its cells.
PreviewReadsBack ==
  Whole /\ preview # Absent /\ Readable(Format, rows) =>
    LET kept  == KeptRows(Exported, Format)
        shown == FirstRows(kept, MaxRows)
    IN  /\ preview.rows = [r \in DOMAIN shown |->
                             [i \in DOMAIN shown[r] |-> ReadAs(shown[r][i])]]
        /\ preview.totalRowsSeen = Len(kept)
        /\ preview.truncated <=> Len(kept) > Len(shown)
        /\ \A i \in DOMAIN preview.columns :
             \A r \in DOMAIN preview.rows :
               Admits(preview.columns[i].inferredType, preview.rows[r][i])
        /\ shown # << >> /\ (Format.kind = "delimited" =>
                               Format.options.includeHeader) =>
             [i \in DOMAIN preview.columns |-> preview.columns[i].sourceName]
               = Format.columns

\* The table that is made of an exported file takes its rows: as many
\* statements as rows and, in the rows its schema was inferred from, only
\* literals of a column's type where that is not text.  Of the rows behind
\* the sample nothing is known, and "NaN" counts as a float, though no dialect
\* takes it as it is written.
InsertsFitTheSchema ==
  Whole /\ Format.kind = "delimited" /\ Format.options.quote = "q"
        /\ preview # Absent =>
    LET header  == Format.options.includeHeader
        schema  == InferCsvSchema(output, Format.options.delimiter, header,
                                  SampleRows)
        inserts == GenerateInserts(output, Format.options.delimiter, header)
        sample  == FirstRows(ImportRecords(output, Format.options.delimiter,
                                           header), SampleRows)
        FitsType(type, literal) ==
          \/ type = "text" \/ literal = <<"NULL">>
          \/ type = "bool" /\ literal \in {<<"true">>, <<"false">>}
          \/ type = "int" /\ IsInt(literal)
          \/ type = "float" /\ IsFloat(literal)
    IN  /\ Cardinality({i \in DOMAIN inserts : inserts[i] = "INSERT"})
             = preview.totalRowsSeen
        /\ \A r \in DOMAIN sample : \A i \in DOMAIN sample[r] :
             FitsType(schema[i], ImportLiteral(sample[r][i]))

\* A job that was asked to stop takes no more rows than up to the next time
\* it looks.
CancelStopsSoon ==
  cancelAt # Absent => rowsWritten <= cancelAt + AtLeastOne(ProgressEvery)
=============================================================================
