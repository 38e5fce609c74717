----------------------------- MODULE CleanupConf -----------------------------
(***************************************************************************)
(* How data_clean and prepare4models read their configuration: the entries  *)
(* of the JSON message are taken one after the other into a list with one   *)
(* set of actions per column (dataclean_conf_preliminery), then the schema  *)
(* of the data set decides for which columns a cleanup task is configured   *)
(* (dataclean_conf).                                                        *)
(***************************************************************************)
EXTENDS Integers, Sequences

CONSTANTS
  ColumnIds,     \* column ids a message may name
  NoColumn,    \* the id of an action whose "colid" could not be read
  Index,       \* the column "index" of a schema
  RowLists,    \* what the "rows" of an entry may be
  NotARow,     \* an element of such a list that is no row number
  AsNumber,    \* the id create_const_fix makes of a column id; see below
  Unreadable,  \* AsNumber of an id that is not a number
  Entries,     \* the entries "actions" may have
  MaxEntries,  \* bound on the length of a message
  Headers      \* the first lines schema files may have, as lists of ids

ASSUME ColumnIdsAssumption == {NoColumn, Index, Unreadable} \cap ColumnIds = {}

\* const_value_fix keeps the id of its column in an int.  An id that is not a
\* number cannot be read into it; one that is comes back as the character with
\* that code, which is never the id itself.
ASSUME AsNumberAssumption ==
  /\ AsNumber \in [ColumnIds -> ColumnIds \cup {Unreadable}]
  /\ \A c \in ColumnIds : AsNumber[c] # c

Kinds == {"filter.rows", "fix.missing", "normalized"}

\* One entry of "actions".  whole: every attribute its algorithm needs is there
\* and readable.
EntryType ==
  [action : Kinds \cup {"other"},
   colid  : ColumnIds \cup {NoColumn},
   algo   : {"", "const", "linear", "znorm", "tnorm", "other"},
   rows   : RowLists,
   whole  : BOOLEAN]

ASSUME InputAssumption ==
  /\ RowLists \subseteq Seq(Nat \cup {NotARow})
  /\ NotARow \notin Nat
  /\ Entries \subseteq EntryType
  /\ MaxEntries \in Nat
  /\ Headers \subseteq Seq(ColumnIds \cup {Index})

\* The fixes and the normalizations without an action of their own.
Default == [algo |-> "", rows |-> {}]

VARIABLES
  message,   \* the entries of "actions" that were taken so far
  header,    \* what the schema file says
  located,   \* "datasource", "export" and "actions" are in the message
  reading,   \* "read", "schema", "done"
  refused,   \* the entry at which reading ended, if one was refused
  actions,   \* dataclean_conf_preliminery::actions
  conf,      \* dataclean_conf::actions
  configured \* how the configuration ended

confVars == <<message, header, located, reading, refused, actions, conf, configured>>

input == <<header, located>>

None == [action |-> "none"]

Elements(seq) == {seq[i] : i \in DOMAIN seq}

-----------------------------------------------------------------------------
ConfInit ==
  /\ message = <<>>
  /\ header \in Headers
  /\ located \in BOOLEAN
  /\ reading = "read"
  /\ refused = None
  /\ actions = <<>>
  /\ conf = <<>>
  /\ configured = "running"

\* The column whose actions an entry goes to.
Target(e) == IF e.action = "fix.missing" /\ e.algo = "const"
             THEN AsNumber[e.colid] ELSE e.colid

\* The actions and algorithms there are; the ones that differ only in their name
\* are left out.
Known(e) ==
  \/ e.action = "filter.rows"
  \/ e.action = "fix.missing" /\ e.algo \in {"const", "linear"}
  \/ e.action = "normalized" /\ e.algo = "znorm"

\* Only filter.rows does not look whether its "colid" could be read.
Accepted(e) ==
  /\ Known(e)
  /\ e.whole
  /\ e.action # "filter.rows" => e.colid \in ColumnIds /\ Target(e) # Unreadable

\* json_error and invalid_conf are no std::exception: read_configuration lets
\* them pass and turns everything else into json_error.
Refusal(e) == IF e.action = "normalized" /\ e.algo = "tnorm"
              THEN "invalid_conf" ELSE "json_error"

\* Reading a list ends at the first element that cannot be read, and what was
\* read before it is the list.
Taken(list) ==
  {list[i] : i \in {j \in DOMAIN list : \A k \in 1 .. j : list[k] # NotARow}}

\* The part of a column's actions an entry sets.
Field(e) ==
  CASE e.action = "filter.rows" -> [drop |-> Taken(e.rows)]
    [] e.action = "fix.missing" -> [fix |-> [algo |-> e.algo, rows |-> Taken(e.rows)]]
    [] e.action = "normalized"  -> [norm |-> e.algo]

Fresh(id) == [id |-> id, drop |-> {}, fix |-> Default, norm |-> ""]

With(act, field) ==
  [k \in DOMAIN act |-> IF k \in DOMAIN field THEN field[k] ELSE act[k]]

\* std::find by id.
PlacesOf(list, id) == {i \in DOMAIN list : list[i].id = id}
FirstOf(places) == CHOOSE i \in places : \A j \in places : i <= j

\* Mutants: an entry replaces all actions of its column; it is appended anyway.
InsertWhole(list, id, field) ==
  IF PlacesOf(list, id) = {}
  THEN Append(list, With(Fresh(id), field))
  ELSE [list EXCEPT ![FirstOf(PlacesOf(list, id))] = With(Fresh(id), field)]

InsertAnew(list, id, field) == Append(list, With(Fresh(id), field))

\* insert: a new set of actions for the column, or the one part of it is
\* overwritten.
Insert(list, id, field) ==
  IF PlacesOf(list, id) = {}
  THEN Append(list, With(Fresh(id), field))
  ELSE LET i == FirstOf(PlacesOf(list, id))
       IN  [list EXCEPT ![i] = With(list[i], field)]

\* "datasource" and "export" are read first; without them there is nothing.
RefuseMessage ==
  /\ reading = "read"
  /\ ~located
  /\ reading' = "done"
  /\ configured' = "json_error"
  /\ UNCHANGED <<input, message, refused, actions, conf>>

\* read_actions, the next entry.
TakeEntry ==
  /\ reading = "read"
  /\ located
  /\ Len(message) < MaxEntries
  /\ \E e \in Entries :
       /\ Accepted(e)
       /\ message' = Append(message, e)
       /\ actions' = Insert(actions, Target(e), Field(e))
  /\ UNCHANGED <<input, reading, refused, conf, configured>>

\* The exception of one entry ends it all.
RefuseEntry ==
  /\ reading = "read"
  /\ located
  /\ Len(message) < MaxEntries
  /\ \E e \in Entries :
       /\ ~Accepted(e)
       /\ refused' = e
       /\ configured' = Refusal(e)
  /\ reading' = "done"
  /\ UNCHANGED <<input, message, actions, conf>>

EndOfEntries ==
  /\ reading = "read"
  /\ located
  /\ reading' = "schema"
  /\ UNCHANGED <<input, message, refused, actions, conf, configured>>

\* get_schema takes "index" out without looking whether it was found.  Erasing
\* the end of the vector takes its last element, if there is one, or crashes.
Schemas ==
  LET places == {i \in DOMAIN header : header[i] = Index}
      Without(i) == SubSeq(header, 1, i - 1) \o SubSeq(header, i + 1, Len(header))
  IN  IF places # {} THEN {Without(FirstOf(places))}
      ELSE IF header # <<>> THEN {Without(Len(header))}
      ELSE {}

\* Mutant: only the first column of the message says what is dropped.
DropsOfFirst == IF actions = <<>> THEN {} ELSE actions[1].drop

\* The rows any column is to drop are dropped from all of them.
AllDrops == UNION {act.drop : act \in Elements(actions)}

\* make_actions: the fix and the normalization of a column, or the defaults.
MakeActions(id) ==
  IF PlacesOf(actions, id) = {}
  THEN [Fresh(id) EXCEPT !.drop = AllDrops]
  ELSE [actions[FirstOf(PlacesOf(actions, id))] EXCEPT !.drop = AllDrops]

\* dataclean_conf::dataclean_conf.
Finalize ==
  /\ reading = "schema"
  /\ \/ \E schema \in Schemas :
          /\ conf' = [i \in DOMAIN schema |-> MakeActions(schema[i])]
          /\ configured' = "configured"
     \/ /\ Index \notin Elements(header)
        /\ configured' = "crashed"
        /\ UNCHANGED conf
  /\ reading' = "done"
  /\ UNCHANGED <<input, message, refused, actions>>

Configured == reading = "done" /\ UNCHANGED confVars

ConfNext ==
  \/ RefuseMessage
  \/ TakeEntry \/ RefuseEntry \/ EndOfEntries
  \/ Finalize
  \/ Configured

ConfSpec == ConfInit /\ [][ConfNext]_confVars
-----------------------------------------------------------------------------
(***************************************************************************)
(* Properties.                                                              *)
(***************************************************************************)

RowNumbers == (UNION {Elements(list) : list \in RowLists}) \ {NotARow}

ColumnActions ==
  [id : ColumnIds \cup {NoColumn}, drop : SUBSET RowNumbers,
   fix : [algo : {"", "const", "linear"}, rows : SUBSET RowNumbers],
   norm : {"", "znorm"}]

\* Every variable has the type its C++ counterpart has, and a column is in the
\* list once.
ConfTypeOK ==
  /\ message \in Seq(Entries) /\ header \in Headers /\ located \in BOOLEAN
  /\ reading \in {"read", "schema", "done"}
  /\ refused \in Entries \cup {None}
  /\ actions \in Seq(ColumnActions)
  /\ \A i, j \in DOMAIN actions : i # j => actions[i].id # actions[j].id
  /\ \A i \in DOMAIN conf : conf[i].drop \subseteq RowNumbers
  /\ configured \in {"running", "configured", "json_error", "invalid_conf", "crashed"}

\* The places of the message that hold an entry for a column.
EntriesFor(id, kind) ==
  {i \in DOMAIN message : message[i].action = kind /\ Target(message[i]) = id}
LastOf(places) == CHOOSE i \in places : \A j \in places : j <= i

\* The rows of a list that stand before everything that is no row.
Rows(list) ==
  {r \in Elements(list) :
     \E i \in DOMAIN list : list[i] = r /\ NotARow \notin Elements(SubSeq(list, 1, i))}

\* What the message asks for, read backwards: the last filter.rows, fix.missing
\* and normalized of a column.
Asked(id) ==
  LET drops == EntriesFor(id, "filter.rows")
      fixes == EntriesFor(id, "fix.missing")
      norms == EntriesFor(id, "normalized")
  IN  [id   |-> id,
       drop |-> IF drops = {} THEN {} ELSE Rows(message[LastOf(drops)].rows),
       fix  |-> IF fixes = {} THEN Default
                ELSE [algo |-> message[LastOf(fixes)].algo,
                      rows |-> Rows(message[LastOf(fixes)].rows)],
       norm |-> IF norms = {} THEN "" ELSE message[LastOf(norms)].algo]

\* However the entries of several columns and kinds alternate, every column ends
\* up with the last entry of each kind and keeps the others.
LastEntryWins ==
  \A i \in DOMAIN actions : actions[i] = Asked(actions[i].id)

\* A cleanup task of every column of the schema, in its order, drops exactly the
\* rows that the last filter.rows of any column names, be it in the schema or
\* not, up to what is no row number in its list; its fix and its normalization
\* are the last ones asked for it.
ConfigurationIsComplete ==
  configured = "configured" /\ Index \in Elements(header) =>
    LET named == {Target(message[i]) : i \in DOMAIN message}
        drops == UNION {Asked(id).drop : id \in named}
    IN  /\ \A i \in DOMAIN conf :
             conf[i] = [Asked(conf[i].id) EXCEPT !.drop = drops]
        /\ \A i, j \in DOMAIN header :
             i < j /\ Index \notin {header[i], header[j]} =>
               \E k, l \in DOMAIN conf :
                 k < l /\ conf[k].id = header[i] /\ conf[l].id = header[j]

\* What test_actions_entries says: a message with a "const" fix of a column can
\* be read, and the actions then have one for that column.
ConstFixIsTaken ==
  \A e \in Elements(message) \cup {refused} :
    /\ e.action = "fix.missing"
    /\ e.algo = "const" /\ e.whole /\ e.colid \in ColumnIds
    => PlacesOf(actions, e.colid) # {}
==============================================================================
