------------------------------ MODULE TuiTables ------------------------------
(***************************************************************************)
(* The tables of trade-tui: which rows a search leaves, which row an index *)
(* stands for, and which one the screen highlights.  The event loop        *)
(* (app.rs) and the drawing (render.rs) each have a copy of the search;    *)
(* both copies are here.  A text is reduced to the words found in it.      *)
(***************************************************************************)
EXTENDS Naturals, FiniteSets, Sequences, SequencesExt

Screens == {"Help", "Overview", "Strategies", "Orders", "Positions", "Risk", "Events",
            "Replay", "Commands"}
NoQuery == ""
NoRow == [id |-> "none"]

\* The elements of a sequence at these positions, in their order.
At(seq, positions) ==
  [k \in 1..Cardinality(positions) |->
     seq[CHOOSE p \in positions : Cardinality({q \in positions : q <= p}) = k]]

\* An ordered table as a sequence: BTreeMaps iterate in the order of their keys.
Ordered(rows, keys) ==
  LET present == At(keys, {k \in DOMAIN keys : \E row \in rows : row.id = keys[k]})
  IN [k \in DOMAIN present |-> CHOOSE row \in rows : row.id = present[k]]

QueryMatches(query, words) == query = NoQuery \/ query \in words

\* app.rs: the rows that select_next counts and that a key acts on.
\* Mutant: strategies are searched by id only.
AppMatches_IdOnly(screen, table, query) ==
  {k \in DOMAIN table :
     QueryMatches(query, IF screen = "Strategies" THEN {table[k].id} ELSE table[k].words)}
AppMatches(screen, table, query) == {k \in DOMAIN table : QueryMatches(query, table[k].words)}

\* render.rs: what is drawn.  The list of events is searched in more of their text.
RenderMatches(screen, table, query) ==
  {k \in DOMAIN table :
     QueryMatches(query, IF screen = "Events" THEN table[k].words \union table[k].more_words
                         ELSE table[k].words)}

Searched == {"Strategies", "Orders", "Events"}
Visible(screen, table, query) ==
  IF screen \in Searched THEN At(table, AppMatches(screen, table, query)) ELSE table
Drawn(screen, table, query) ==
  IF screen \in Searched THEN At(table, RenderMatches(screen, table, query)) ELSE table

Nth(rows, index) == IF index < Len(rows) THEN rows[index + 1] ELSE NoRow

\* The account pages show the first account when the index is past the end.
NthOrFirst(rows, index) == IF index < Len(rows) THEN rows[index + 1] ELSE Nth(rows, 0)

Pick(screen, rows, index) ==
  IF screen \in {"Overview", "Risk"} THEN NthOrFirst(rows, index) ELSE Nth(rows, index)
Selected(screen, table, query, index) == Pick(screen, Visible(screen, table, query), index)
Highlighted(screen, table, query, index) == Pick(screen, Drawn(screen, table, query), index)

NextIndex(current, len) ==
  IF len = 0 THEN 0 ELSE IF current + 1 < len THEN current + 1 ELSE len - 1
PreviousIndex(current) == IF current = 0 THEN 0 ELSE current - 1
=============================================================================
