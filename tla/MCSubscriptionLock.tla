-------------------------- MODULE MCSubscriptionLock --------------------------
(***************************************************************************)
(* Subscriptions and their relation on which SubscriptionLock is checked.  *)
(* The modules about the data behind subscriptions hold no state: what     *)
(* they claim of every small input is evaluated in the initial state.      *)
(***************************************************************************)
EXTENDS SubscriptionLock, SubscriptionRelations, DomainTree, Catalogue,
        ModelMigration, SearchIndex, SearchFilter, TLC

Results == INSTANCE SearchResults

Fields == INSTANCE DomainFields

Indexed == INSTANCE SearchFields

Lang == INSTANCE QueryLanguage

WfMigration == INSTANCE WorkflowMigration

Checks == INSTANCE ProductChecks

Tables == INSTANCE Schema

Text == INSTANCE FullText

View == INSTANCE SubscriptionView

Pages == INSTANCE Ranges

Asking == INSTANCE SearchQueries

Columns == INSTANCE SearchColumns

CONSTANTS s1, s2

OneUsesTheOther == {<<s2, s1>>}

NotRelated == {}

Symmetry == Permutations(Processes)

\* get_recursive_relations returns what bounded walks through the relations reach,
\* however these are cyclic; and the tree of a subscription that clients get tells for all
\* its blocks by which instances they are used.
TraversalIsExact == Init => TraversalExact /\ View!ViewExact(View!Dumps)

\* SubscriptionModel.save stores the tree of the model and nothing else, and leaves
\* the blocks of other subscriptions alone; SubscriptionModel.from_subscription and
\* ProductBlockModel.from_db load it again; fields are read from the annotations of a model
\* as these are meant, and values are stored over existing rows without loss.
SaveIsExact == Init => SaveExact /\ LoadExact /\ Fields!TypesExact /\ Fields!ValuesExact

\* The helpers of migrations on the catalogue: delete() and create() are inverse, but for
\* the entries that existed before the upgrade, and converting resource type relations to
\* instance relations loses no relation.
HelpersAreExact == Init => DowngradeExact /\ NoRelationLost

\* Repeating `db migrate-domain-models' makes the database agree with the models, and the
\* downgrade of an upgrade that deletes nothing but fixed inputs undoes it; the migrations of
\* `db migrate-workflows' and `db migrate-tasks' do what was chosen and can be undone,
\* and the task that validates products reports what they leave unrepaired; the schema
\* migrations leave behind the tables, keys and tasks that the code expects.
MigrationIsExact ==
  Init => /\ MigrationConverges(Pairs) /\ MigrationReverts(Pairs)
          /\ WfMigration!WorkflowMigrationExact
          /\ Checks!MigrationsPass(Checks!Stored, Checks!M!Codes)
          /\ Checks!FixedInputsExact(Checks!Stores, Checks!Registries)
          /\ Checks!OnlyUniform(Checks!Stores, Checks!Registries)
          /\ Tables!SchemaExact

\* Indexing brings the rows of the entities and the counts of their paths up to date; the
\* fields it extracts from instances have the types that filters expect from the classes.
\* The text that the database keeps for searches in lists is as recent as its triggers promise.
IndexIsExact ==
  Init => /\ IndexExact(AllEntities)
          /\ Indexed!FieldsExact /\ Indexed!SchemaExact /\ Indexed!LabelsExact
          /\ Text!FullTextExact

\* Results, pages, counts and highlights of a search are exact, and so are the pages of lists;
\* a search that finds nothing is broadened step by step; what is checked before counting
\* runs, and what is found is reported with the paths and the words that match.
ResultsAreExact ==
  Init => /\ Results!ResultsExact(Results!AllValues) /\ Pages!RangesExact
          /\ Asking!FallbackExact(Asking!Filters) /\ Asking!RelaxingBroadens /\ Asking!RelaxingMayNarrow
          /\ Columns!ColumnsExact

\* Structured search selects what the query means, must_not next to should alone excepted,
\* and so does the query language of lists, as a filter of tables and as a text search.
TranslationIsExact ==
  Init => /\ TranslationExact(FlatQueries \cup NestedQueries)
          /\ Lang!ParserExact(Lang!ColumnKeys \cup Lang!OtherKeys) /\ Lang!SqlExact(Lang!ColumnKeys)
          /\ Lang!TextExact(Lang!ColumnKeys \cup Lang!OtherKeys)
          /\ Lang!FiltersExact /\ Lang!PhrasesExact

=============================================================================
