-------------------------------- MODULE Ranges --------------------------------
(* Numbers and ranges of them (utils/functional.py) and pages of results                 *)
(* (db/range/range.py, api/helpers.py).                                                  *)
EXTENDS Integers, Sequences, SequencesExt, FiniteSets

Top == 5                    \* the highest number that is taken, and the longest list
Numbers == 0..Top

SortedSeq(S) == SetToSortSeq(S, <)

\* first_available_or_next.
FirstAvailable(taken, start) ==
  LET top == IF taken = {} THEN 0 ELSE CHOOSE m \in taken : \A n \in taken : n <= m
      stop == IF start >= top + 2 THEN start + 1 ELSE top + 2
      free == (start..(stop - 1)) \ taken
  IN  CHOOSE m \in free : \A n \in free : m <= n

\* expand_ranges: single numbers and pairs, which are empty when they go down.
Expanded(ranges, inclusive) ==
  SortedSeq(UNION {LET r == ranges[i] IN
                   IF Len(r) = 1 THEN {r[1]}
                   ELSE r[1]..(IF inclusive THEN r[2] ELSE r[2] - 1) : i \in DOMAIN ranges})

\* itertools.groupby: the items with the same key that follow each other.
Groups(items, key) ==
  LET starts == {i \in DOMAIN items : i = 1 \/ key[i] # key[i - 1]}
      bounds == SortedSeq(starts \cup {Len(items) + 1})
  IN  [g \in 1..(Len(bounds) - 1) |-> SubSeq(items, bounds[g], bounds[g + 1] - 1)]

\* to_ranges: numbers that follow each other have the same distance to their place.
ToRanges(numbers) ==
  LET groups == Groups(numbers, [i \in DOMAIN numbers |-> numbers[i] - i])
  IN  [g \in DOMAIN groups |-> <<Head(groups[g]), Last(groups[g]) + 1>>]

\* group_by_key: a key that comes back replaces what it had.
GroupByKey(items) ==
  LET groups == Groups(items, [i \in DOMAIN items |-> items[i][1]])
      last(k) == CHOOSE g \in DOMAIN groups :
                   /\ Head(groups[g])[1] = k
                   /\ \A h \in (g + 1)..Len(groups) : Head(groups[h])[1] # k
      keys == {items[i][1] : i \in DOMAIN items}
  IN  [k \in keys |-> [i \in DOMAIN groups[last(k)] |-> groups[last(k)][i][2]]]

\* The first free number is the lowest one from start on that is not taken.
FirstIsExact ==
  \A taken \in SUBSET Numbers : \A start \in 0..(Top + 3) :
    LET n == FirstAvailable(taken, start) IN
    /\ n >= start /\ n \notin taken
    /\ (start..(n - 1)) \subseteq taken

\* Turning numbers into ranges and back loses none, in the fewest ranges that there are.
RangesRoundTrip ==
  \A S \in SUBSET Numbers :
    LET r == ToRanges(SortedSeq(S)) IN
    /\ Expanded(r, FALSE) = SortedSeq(S)
    /\ \A i \in 1..(Len(r) - 1) : r[i][2] < r[i + 1][1]

\* Ranges that overlap or repeat give each number once.
ExpandedOnce ==
  \A a, b, c \in Numbers : \A inclusive \in BOOLEAN :
    LET r == <<<<a, b>>, <<c>>>>
        e == Expanded(r, inclusive)
    IN  /\ \A n \in Numbers :
             n \in ToSet(e) <=> (n = c \/ (a <= n /\ (n < b \/ (inclusive /\ n = b))))
        /\ \A i \in 1..(Len(e) - 1) : e[i] < e[i + 1]

\* Grouping keeps all values of every key, in their order, exactly when the items of a key
\* follow each other: get_root_blocks_to_instance_ids sorts its rows for that.
GroupingIsExact ==
  \A items \in UNION {[1..n -> {"a", "b"} \X {1, 2}] : n \in 0..4} :
    LET of(k) == SelectSeq(items, LAMBDA x : x[1] = k)
        together(k) == \A h, i, j \in DOMAIN items :
          h < i /\ i < j /\ items[h][1] = k /\ items[j][1] = k => items[i][1] = k
        grouped == GroupByKey(items)
    IN  \A k \in DOMAIN grouped :
          /\ together(k) => grouped[k] = [i \in DOMAIN of(k) |-> of(k)[i][2]]
          /\ ~together(k) => Len(grouped[k]) < Len(of(k))

(* ----------------------------------- Pages ------------------------------------ *)
\* apply_range_to_query: an offset and a limit, one row more than the limit to see whether
\* there is a next page; no limit is no range. apply_range_to_statement: a slice.
Slice(rows, from, to) ==
  LET end == IF to < Len(rows) THEN to ELSE Len(rows) IN
  [i \in 1..(IF end > from THEN end - from ELSE 0) |-> rows[from + i]]

ByOffset(rows, offset, limit) ==
  IF limit = 0 THEN rows ELSE Slice(rows, offset, offset + limit + 1)

Refused == <<"refused">>

BySlice(rows, from, to) == IF from >= to THEN Refused ELSE Slice(rows, from, to)

\* add_response_range: the page and the total of the Content-Range header.
RangePage(rows, from, to) == [page |-> BySlice(rows, from, to), total |-> Len(rows)]

\* A page of first items, as the GraphQL resolvers ask for it: one more shows that there
\* is a next page and is cut off.
Page(rows, after, first) ==
  LET fetched == BySlice(rows, after, after + first + 1) IN
  [items |-> Slice(fetched, 0, first), next |-> Len(fetched) > first,
   last |-> after + Len(Slice(fetched, 0, first)) - 1]

\* Pages that follow each other give every row once and in order, and the last one, and
\* only the last one, tells that there is no more, and where the next one starts; both ways of asking fetch the same.
PagesAreExact ==
  \A n \in 0..Top : \A first \in 1..3 :
    LET rows == [i \in 1..n |-> i]
        pages == [p \in 1..(Top + 1) |-> Page(rows, (p - 1) * first, first)]
    IN  /\ FlattenSeq([p \in DOMAIN pages |-> pages[p].items]) = rows
        /\ \A p \in DOMAIN pages : pages[p].next <=> p * first < n
        /\ \A p \in DOMAIN pages : pages[p].next => pages[p].last + 1 = p * first
        /\ \A after \in 0..n :
             ByOffset(rows, after, first) = BySlice(rows, after, after + first + 1)

\* A range is refused exactly when it holds nothing, and the total counts all rows.
RangeIsExact ==
  \A n \in 0..Top : \A from, to \in 0..Top :
    LET rows == [i \in 1..n |-> "row"]
        r == RangePage(rows, from, to)
    IN  /\ (r.page = Refused) <=> to <= from
        /\ r.page # Refused => Len(r.page) <= to - from /\ r.total = n

RangesExact ==
  FirstIsExact /\ RangesRoundTrip /\ ExpandedOnce /\ GroupingIsExact /\ PagesAreExact
    /\ RangeIsExact
=============================================================================
