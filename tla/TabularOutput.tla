--------------------------- MODULE TabularOutput ---------------------------
(***************************************************************************)
(* The encoders of query results (irodori-io/src/tabular.rs).              *)
(*                                                                         *)
(* A text is a sequence of tokens: "q" is the quote, "'" the quote of SQL, *)
(* "cr" and "nl" are line breaks.  A cell is its type and the text that    *)
(* to_string gives for it; a float that is not finite is written "NaN".    *)
(* The integers 2^53 and 2^53 + 1 are tokens of their own: the second is   *)
(* the smallest that no f64 holds.                                         *)
(* An encoder is its format and what it has not written yet.  An operation *)
(* gives the encoder that comes out of it, what it has written, and        *)
(* whether it succeeded; what was written before an error stays written.   *)
(***************************************************************************)
EXTENDS Naturals, Sequences, FiniteSetsExt, SequencesExt, TLC

CONSTANT Absent    \* Option::None

CellOf(type, text) == [type |-> type, text |-> text]
Null == CellOf("null", << >>)

Finite(cell) == cell.text # <<"NaN">>

Result(ok, out, encoder) == [ok |-> ok, out |-> out, encoder |-> encoder]

\* The texts of a sequence with a separator between them.
Joined(texts, separator) ==
  FlattenSeq([i \in DOMAIN texts |->
                IF i = 1 THEN texts[i] ELSE separator \o texts[i]])

-----------------------------------------------------------------------------
(* DelimitedEncoder. *)

LineBreaks == {"nl", "cr"}

ValidOptions(o) == /\ o.delimiter # o.quote
                   /\ o.delimiter \notin LineBreaks
                   /\ o.quote \notin LineBreaks

NeedsQuote(field, o) ==
  \E i \in DOMAIN field : field[i] \in {o.delimiter, o.quote} \cup LineBreaks

Quoted(field, quote) ==
  <<quote>> \o FlattenSeq([i \in DOMAIN field |->
                 IF field[i] = quote THEN <<quote, quote>> ELSE <<field[i]>>])
            \o <<quote>>

FieldFits(field, o) == o.quoteStyle = "never" => ~NeedsQuote(field, o)

\* Slip: a field is quoted, the quotes in it are not doubled.
WriteFieldAsItIs(field, o) ==
  IF o.quoteStyle = "always" \/ (o.quoteStyle = "necessary" /\ NeedsQuote(field, o))
  THEN <<o.quote>> \o field \o <<o.quote>> ELSE field

WriteField(field, o) ==
  IF o.quoteStyle = "always" \/ (o.quoteStyle = "necessary" /\ NeedsQuote(field, o))
  THEN Quoted(field, o.quote) ELSE field

\* A line, or as much of it as comes before the field that does not fit.
WriteFields(encoder, fields) ==
  LET o    == encoder.format.options
      bad  == {i \in DOMAIN fields : ~FieldFits(fields[i], o)}
      good == IF bad = {} THEN Len(fields) ELSE Min(bad) - 1
      line == Joined([i \in 1 .. good |-> WriteField(fields[i], o)],
                     <<o.delimiter>>)
  IN  IF bad = {} THEN Result(TRUE, line \o o.lineEnding, encoder)
      ELSE Result(FALSE, line \o (IF good > 0 THEN <<o.delimiter>> ELSE << >>),
                  encoder)

FieldText(cell, o) == IF cell.type = "null" THEN o.nullValue ELSE cell.text

WriteDelimitedRow(encoder, row) ==
  WriteFields(encoder, [i \in DOMAIN row |->
                          FieldText(row[i], encoder.format.options)])

-----------------------------------------------------------------------------
(* SqlInsertEncoder and SqlScriptEncoder.  Identifiers are written as they  *)
(* are: quoting them is the dialect's.                                      *)

SqlText(text) == Quoted(text, "'")

InsertLiteral(cell) ==
  CASE cell.type = "null" -> <<"NULL">>
    [] cell.type = "text" -> SqlText(cell.text)
    [] OTHER              -> cell.text

SqlLiteral(cell) ==
  CASE cell.type = "null"  -> <<"NULL">>
    [] cell.type = "text"  -> SqlText(cell.text)
    [] cell.type = "float" -> IF Finite(cell) THEN cell.text ELSE <<"NULL">>
    [] OTHER               -> cell.text

Tuple(literals) == <<"(">> \o Joined(literals, <<",">>) \o <<")">>

WriteInsertRow(encoder, row) ==
  Result(TRUE,
         <<"INSERT">> \o Tuple([i \in DOMAIN row |-> InsertLiteral(row[i])])
           \o <<";">>,
         encoder)

UpdateColumns(encoder) ==
  LET mode == encoder.format.mode IN
  IF mode.update # << >> THEN mode.update
  ELSE SelectSeq(encoder.format.columns,
                 LAMBDA column : ~Contains(mode.conflict, column))

\* The clause of an upsert, none for an insert; an upsert needs columns to
\* find the row by and columns to change.
UpsertFits(encoder) ==
  encoder.format.mode.kind = "upsert" =>
    encoder.format.mode.conflict # << >> /\ UpdateColumns(encoder) # << >>
UpsertClause(encoder) ==
  IF encoder.format.mode.kind = "upsert" THEN <<"UPSERT">> ELSE << >>

\* Slip: the batch is kept once it is written.
FlushBatchKeep(encoder) ==
  Result(TRUE,
         IF encoder.batch = << >> THEN << >>
         ELSE <<"INSERT">> \o Joined(encoder.batch, <<",">>)
                \o UpsertClause(encoder) \o <<";">>,
         encoder)

\* The statement is opened before its last clause is looked at.
FlushBatch(encoder) ==
  LET opened == <<"INSERT">> \o Joined(encoder.batch, <<",">>) IN
  IF encoder.batch = << >> THEN Result(TRUE, << >>, encoder)
  ELSE IF ~UpsertFits(encoder) THEN Result(FALSE, opened, encoder)
  ELSE Result(TRUE, opened \o UpsertClause(encoder) \o <<";">>,
              [encoder EXCEPT !.batch = << >>])

AtLeastOne(n) == IF n = 0 THEN 1 ELSE n

WriteScriptRow(encoder, row) ==
  LET literals == [i \in DOMAIN row |-> SqlLiteral(row[i])]
      more     == [encoder EXCEPT !.batch = Append(@, Tuple(literals))]
  IN  IF Len(more.batch) >= AtLeastOne(encoder.format.batchSize)
      THEN FlushBatch(more) ELSE Result(TRUE, << >>, more)

\* write_create_table
CreateTable(encoder) ==
  LET schema == encoder.format.createTable IN
  IF schema = << >> THEN Result(FALSE, << >>, encoder)
  ELSE Result(TRUE,
              <<"CREATE", "(">>
                \o Joined([i \in DOMAIN schema |->
                             schema[i].name \o <<schema[i].sqlType>>
                               \o (IF schema[i].nullable THEN << >>
                                   ELSE <<"NOT NULL">>)], <<",">>)
                \o <<")", ";">>,
              encoder)

-----------------------------------------------------------------------------
(* JsonEncoder and NdjsonEncoder.  Their output is a sequence of items, a  *)
(* mark or an object; an object is a sequence of names with values.        *)

Mark(mark)     == [mark |-> mark, object |-> << >>]
Object(object) == [mark |-> "object", object |-> object]

\* A number of JSON is finite.
JsonValue(cell) ==
  IF cell.type = "float" /\ ~Finite(cell) THEN CellOf("int", <<"0">>) ELSE cell

ColumnName(encoder, i) == IF i <= Len(encoder.format.columns)
                          THEN encoder.format.columns[i]
                          ELSE <<"col", "_", ToString(i - 1)>>

\* The map keeps its keys in the order of insertion, each of them once.
InsertKey(object, name, value) ==
  LET at == {i \in DOMAIN object : object[i].name = name} IN
  IF at = {} THEN Append(object, [name |-> name, value |-> value])
  ELSE [i \in DOMAIN object |->
          IF i \in at THEN [name |-> name, value |-> value] ELSE object[i]]

RowObject(encoder, row) ==
  Object(FoldLeft(LAMBDA object, i : InsertKey(object, ColumnName(encoder, i),
                                               JsonValue(row[i])),
                  << >>, [i \in DOMAIN row |-> i]))

WriteJsonRow(encoder, row) ==
  Result(TRUE,
         (IF encoder.first THEN << >> ELSE <<Mark(",")>>)
           \o <<RowObject(encoder, row)>>,
         [encoder EXCEPT !.first = FALSE])

WriteNdjsonRow(encoder, row) ==
  Result(TRUE, <<RowObject(encoder, row), Mark("nl")>>, encoder)

-----------------------------------------------------------------------------
(* AvroEncoder and ParquetEncoder keep their rows until the end; a Parquet  *)
(* file has one type for each of its columns.                               *)

\* What the schema parser takes for the names of a record's fields.
AvroNames(columns) ==
  /\ \A i \in DOMAIN columns :
       /\ columns[i] # << >> /\ Head(columns[i]) \notin {"0", "1", "2"}
       /\ \A k \in DOMAIN columns[i] :
            columns[i][k] \in {"a", "b", "text", "true", "NaN", "NULL", "_",
                              "0", "1", "2"}
  /\ \A i, j \in DOMAIN columns : columns[i] = columns[j] => i = j

AvroRecord(encoder, row) ==
  [i \in 1 .. Len(encoder.format.columns) |-> row[i]]

ColumnCells(rows, i) ==
  [r \in DOMAIN rows |-> IF i <= Len(rows[r]) THEN rows[r][i] ELSE Null]

ParquetType(cells) ==
  LET Has(type) == \E r \in DOMAIN cells : cells[r].type = type IN
  IF Has("text") \/ (Has("bool") /\ (Has("int") \/ Has("float"))) THEN "text"
  ELSE IF Has("float") THEN "float"
  ELSE IF Has("int") THEN "int"
  ELSE IF Has("bool") THEN "bool" ELSE "text"

\* An integer as an f64: beyond 2^53 it may be none.
AsDouble(text) == IF text = <<"2^53+1">> THEN <<"2^53">> ELSE text

ParquetCell(cell, type) ==
  CASE cell.type = "null"                      -> Null
    [] type = "text" /\ cell.type # "null"     -> CellOf("text", cell.text)
    [] type = "float" /\ cell.type = "int"     -> CellOf("float", AsDouble(cell.text))
    [] type \in {"bool", "int", "float"} /\ cell.type = type -> cell
    [] OTHER                                   -> Null

ParquetColumn(rows, i) ==
  LET cells == ColumnCells(rows, i)
      type  == ParquetType(cells)
  IN  [ type |-> type,
        cells |-> [r \in DOMAIN cells |-> ParquetCell(cells[r], type)] ]

\* finish gives the writer away: a second one finds none and does nothing.
FinishParquet(encoder) ==
  IF ~encoder.open THEN Result(TRUE, << >>, encoder)
  ELSE Result(TRUE,
              <<[i \in DOMAIN encoder.format.columns |->
                   ParquetColumn(encoder.batch, i)]>>,
              [encoder EXCEPT !.open = FALSE])

-----------------------------------------------------------------------------
(* The encoder of a format: what its constructor writes, a row, the end.    *)

NewEncoder(format) ==
  LET encoder == [format |-> format, batch |-> << >>, first |-> TRUE, open |-> TRUE]
  IN  CASE format.kind = "delimited" ->
             IF ~ValidOptions(format.options) THEN Result(FALSE, << >>, encoder)
             ELSE IF format.options.includeHeader
                  THEN WriteFields(encoder, format.columns)
                  ELSE Result(TRUE, << >>, encoder)
        [] format.kind = "script" ->
             IF format.createTable = Absent THEN Result(TRUE, << >>, encoder)
             ELSE CreateTable(encoder)
        [] format.kind = "avro" ->
             Result(AvroNames(format.columns), << >>, encoder)
        [] format.kind = "json" -> Result(TRUE, <<Mark("[")>>, encoder)
        [] OTHER                -> Result(TRUE, << >>, encoder)

WriteRow(encoder, row) ==
  CASE encoder.format.kind = "delimited" -> WriteDelimitedRow(encoder, row)
    [] encoder.format.kind = "insert"    -> WriteInsertRow(encoder, row)
    [] encoder.format.kind = "script"    -> WriteScriptRow(encoder, row)
    [] encoder.format.kind = "json"      -> WriteJsonRow(encoder, row)
    [] encoder.format.kind = "ndjson"    -> WriteNdjsonRow(encoder, row)
    [] encoder.format.kind = "avro"      ->
         Result(TRUE, << >>,
                [encoder EXCEPT !.batch = Append(@, AvroRecord(encoder, row))])
    [] encoder.format.kind = "parquet"   ->
         Result(TRUE, << >>, [encoder EXCEPT !.batch = Append(@, row)])

FinishEncoder(encoder) ==
  CASE encoder.format.kind = "script"  -> FlushBatch(encoder)
    [] encoder.format.kind = "json"    -> Result(TRUE, <<Mark("]")>>, encoder)
    [] encoder.format.kind = "avro"    ->
         Result(TRUE, encoder.batch, [encoder EXCEPT !.batch = << >>])
    [] encoder.format.kind = "parquet" -> FinishParquet(encoder)
    [] OTHER                           -> Result(TRUE, << >>, encoder)
=============================================================================
