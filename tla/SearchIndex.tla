------------------------------ MODULE SearchIndex ------------------------------
(***************************************************************************)
(* The search index: Indexer.run of search/indexing/indexer.py compares    *)
(* hashes of the fields of every entity with those of its rows, deletes    *)
(* and upserts the rows that differ, with embeddings for strings, and a    *)
(* trigger counts the rows of every path in ai_search_paths.               *)
(*                                                                         *)
(* An entity is a function from the paths it has to values; the path "t"   *)
(* holds its title, which is repeated in all its rows.                     *)
(***************************************************************************)
EXTENDS Integers, FiniteSets, Sequences, SequencesExt

Entities == 1..2

Paths == {"t", "f"}

\* A number, a string, and a string that exceeds the context of the model.
Values == {"5", "text", "long text"}

FieldType(value) == IF value = "5" THEN "integer" ELSE "string"

Tokens(value) == IF value = "text" THEN 1 ELSE 4

MaxTokens == 3       \* the context of the embedding model
TokenBudget == 2     \* the context without the safety margin
MaxBatchSize == 2    \* EMBEDDING_MAX_BATCH_SIZE

NoHash == <<>>

NoRow == [hash |-> NoHash]

NoEmbedding == <<>>

\* The rows of ai_search_index and the counts of ai_search_paths.
Empty ==
  [rows  |-> [key \in Entities \X Paths |-> NoRow],
   paths |-> [key \in Paths \X {"integer", "string"} |-> 0]]

\* get_title_from_fields
Title(fields) == IF "t" \in DOMAIN fields THEN fields["t"] ELSE "UNKNOWN"

\* Faulty: the title, which is stored in every row, is not hashed.
ContentHash_NoTitle(path, value, title) == <<path, value, FieldType(value)>>

\* _compute_content_hash
ContentHash(path, value, title) == <<path, value, FieldType(value), title>>

\* _make_indexable_record
Record(path, value, title, embedding) ==
  [title |-> title, value |-> value, type |-> FieldType(value),
   hash |-> ContentHash(path, value, title), embedding |-> embedding]

-----------------------------------------------------------------------------
(* The statements and the trigger *)

Add(paths, path, type, n) == [paths EXCEPT ![<<path, type>>] = @ + n]

\* ai_search_paths_maintain, after a row has changed.
Maintain(paths, path, before, after) ==
  IF before # NoRow /\ after # NoRow /\ before.type = after.type THEN paths
  ELSE LET without == IF before = NoRow THEN paths ELSE Add(paths, path, before.type, -1)
       IN  IF after = NoRow THEN without ELSE Add(without, path, after.type, 1)

PutRow(index, key, row) ==
  [rows  |-> [index.rows EXCEPT ![key] = row],
   paths |-> Maintain(index.paths, key[2], index.rows[key], row)]

-----------------------------------------------------------------------------
(* Indexing *)

\* _get_all_existing_hashes: none are fetched when all is to be indexed.
ExistingHash(index, key, force) == IF force THEN NoHash ELSE index.rows[key].hash

\* _determine_changes: the fields of an entity whose hash differs.
FieldsToUpsert(index, entity, fields, force) ==
  SetToSeq({<<entity, path>> : path \in
    {p \in DOMAIN fields :
       ExistingHash(index, <<entity, p>>, force) # ContentHash(p, fields[p], Title(fields))}})

\* Paths that have a hash and that the entity does not have any longer.
PathsToDelete(index, entity, fields, force) ==
  SetToSeq({<<entity, path>> : path \in
    {p \in Paths \ DOMAIN fields : ExistingHash(index, <<entity, p>>, force) # NoHash}})

\* _flush_buffer: embeddings are matched with the fields they were asked for by position.
Flush(buffers, entities) ==
  LET Text(key)  == <<key[2], entities[key[1]][key[2]]>>
      embeddings == [i \in DOMAIN buffers.embeddable |-> Text(buffers.embeddable[i])]
      Row(key, embedding) ==
        <<key, Record(key[2], entities[key[1]][key[2]], Title(entities[key[1]]), embedding)>>
  IN  [i \in DOMAIN buffers.others |-> Row(buffers.others[i], NoEmbedding)] \o
      [i \in DOMAIN buffers.embeddable |-> Row(buffers.embeddable[i], embeddings[i])]

NoBuffers == [embeddable |-> <<>>, others |-> <<>>, tokens |-> 0]

\* _generate_upsert_batches: strings that exceed the context are skipped, and a batch is
\* closed when the next string would exceed the budget or the size of a batch.
Buffer(state, key, entities) ==
  LET value == entities[key[1]][key[2]]
      full  == /\ state.buffers.embeddable # <<>>
               /\ \/ state.buffers.tokens + Tokens(value) > TokenBudget
                  \/ Len(state.buffers.embeddable) >= MaxBatchSize
      kept  == IF full THEN NoBuffers ELSE state.buffers
  IN  IF FieldType(value) # "string"
      THEN [state EXCEPT !.buffers.others = Append(@, key)]
      ELSE IF Tokens(value) > MaxTokens THEN state
      ELSE [batches |-> IF full THEN Append(state.batches, Flush(state.buffers, entities))
                        ELSE state.batches,
            buffers |-> [kept EXCEPT !.embeddable = Append(@, key),
                                     !.tokens = @ + Tokens(value)]]

UpsertBatches(keys, entities) ==
  LET last == FoldLeft(LAMBDA state, key : Buffer(state, key, entities),
                       [batches |-> <<>>, buffers |-> NoBuffers], keys)
  IN  last.batches \o
      IF last.buffers.embeddable \o last.buffers.others # <<>>
      THEN <<Flush(last.buffers, entities)>> ELSE <<>>

\* _process_chunk: changes are determined for all entities of the chunk first.
ProcessChunk(index, chunk, entities, force) ==
  LET deletes == FlattenSeq([i \in DOMAIN chunk |->
                   PathsToDelete(index, chunk[i], entities[chunk[i]], force)])
      upserts == FlattenSeq([i \in DOMAIN chunk |->
                   FieldsToUpsert(index, chunk[i], entities[chunk[i]], force)])
      deleted == FoldLeft(LAMBDA ix, key : PutRow(ix, key, NoRow), index, deletes)
  IN  FoldLeft(LAMBDA ix, record : PutRow(ix, record[1], record[2]),
               deleted, FlattenSeq(UpsertBatches(upserts, entities)))

\* Indexer.run over the entities in this order, or a dry run.
RunIndexer(index, order, entities, force, chunk_size) ==
  LET chunks == IF chunk_size = 1 THEN [i \in DOMAIN order |-> <<order[i]>>] ELSE <<order>>
  IN  FoldLeft(LAMBDA ix, chunk : ProcessChunk(ix, chunk, entities, force), index, chunks)

-----------------------------------------------------------------------------
(* What is claimed of it *)

Versions == UNION {[present -> Values] : present \in SUBSET Paths}

\* The first entity may be anything, the second has a title or is like a version.
AllEntities == {<<v, w>> : v \in Versions, w \in {[t |-> "text"], [t |-> "text", f |-> "text"], [f |-> "5"]}}

TooLong(value) == FieldType(value) = "string" /\ Tokens(value) > MaxTokens

Embedding(path, value) == IF FieldType(value) = "string" THEN <<path, value>> ELSE NoEmbedding

\* The row of an entity after it has been indexed: what could not be embedded stays as it
\* was, and so do paths that are gone when hashes are ignored.
RowAfter(index, key, fields, force) ==
  IF key[2] \notin DOMAIN fields THEN IF force THEN index.rows[key] ELSE NoRow
  ELSE IF TooLong(fields[key[2]]) THEN index.rows[key]
  ELSE Record(key[2], fields[key[2]], Title(fields), Embedding(key[2], fields[key[2]]))

CountsMatch(index) ==
  \A path \in Paths, type \in {"integer", "string"} :
    index.paths[<<path, type>>] =
      Cardinality({e \in Entities : LET row == index.rows[<<e, path>>]
                                    IN  row # NoRow /\ row.type = type})

\* After entities have changed, indexing some of them brings exactly their rows up to
\* date, titles and embeddings included, and the counts of paths match the rows.
IndexExact(entities) ==
  \A old, new \in entities : \A force \in BOOLEAN, chunk_size \in 1..2 :
    \A order \in {<<1>>, <<1, 2>>} :
      LET before == RunIndexer(Empty, <<1, 2>>, old, FALSE, 2)
          after  == RunIndexer(before, order, new, force, chunk_size)
      IN  /\ \A key \in Entities \X Paths :
               after.rows[key] =
                 IF key[1] \in ToSet(order) THEN RowAfter(before, key, new[key[1]], force)
                 ELSE before.rows[key]
          /\ CountsMatch(after)
=============================================================================
