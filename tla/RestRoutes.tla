----------------------------- MODULE RestRoutes -----------------------------
(***************************************************************************)
(* Routes that are generated for a table (src/apps/djing2/lib/fastapi):    *)
(* which columns a route gives and takes, pages, lists and what the        *)
(* routes for one row answer.  A row is a function from names of columns   *)
(* to values, a table a function from keys to rows.                        *)
(***************************************************************************)
EXTENDS Integers, FiniteSets, SequencesExt

CONSTANT nothing                         \* None, null

-----------------------------------------------------------------------------
(* build_model_and_schema_fields.  A process keeps for each model an object with
   the columns its schemas have named, and for each schema the names that are no
   columns.  A call adds to the object of its model, which the caller before it
   holds, and keeps a copy for the next one.  If both are there and not empty,
   the caller gets the object as it is.

   A schema is [name, model, columns, computed]; objs are the objects made so far,
   last the one kept for each model, held those the callers hold. *)

NoFields == [objs |-> <<>>, last |-> <<>>, seen |-> {}, held |-> <<>>]

Build(st, s) ==
  LET kept == IF s.model \in DOMAIN st.last THEN st.last[s.model] ELSE 0
      both == IF kept = 0 THEN s.columns ELSE st.objs[kept] \cup s.columns
      objs == IF kept = 0 THEN st.objs ELSE [st.objs EXCEPT ![kept] = both]
  IN  IF kept # 0 /\ st.objs[kept] # {} /\ s.computed # {} /\ s \in st.seen
      THEN [st EXCEPT !.held = Append(@, kept)]
      ELSE [objs |-> Append(objs, both),
            last |-> [m \in DOMAIN st.last \cup {s.model} |->
                        IF m = s.model THEN Len(objs) + 1 ELSE st.last[m]],
            seen |-> st.seen \cup {s},
            held |-> Append(st.held, Len(objs) + 1)]

(* The columns of each route, when all of them are made. *)
RouteColumns(schemas) ==
  LET st == FoldLeft(Build, NoFields, schemas)
  IN  [i \in DOMAIN schemas |-> st.objs[st.held[i]]]

(* format_object: the names that are asked for, or all; a null is left out only of
   columns, and only of those that are asked for. *)
Shown(columns, computed, wanted, row) ==
  IF wanted = {} THEN columns \cup computed
  ELSE {c \in columns \cap wanted : row[c] # nothing} \cup (computed \cap wanted)

-----------------------------------------------------------------------------
(* paginate_qs_path_decorator: rows first to last of a page, and the pages its
   answer names.  Page is any number, page_size one of 1 .. MAX_LIMIT. *)

Skip(page, size) == IF page > 0 THEN (page - 1) * size ELSE 0
Page(list, page, size) ==
  SubSeq(list, Skip(page, size) + 1,
         IF Skip(page, size) + size > Len(list) THEN Len(list) ELSE Skip(page, size) + size)
NextPage(list, page, size) == IF Len(list) - size * page > 0 THEN page + 1 ELSE nothing
PreviousPage(page) == IF page > 1 THEN page - 1 ELSE nothing

(* What a client reads that follows next from a page on. *)
ReadFrom(list, page, size) ==
  LET last == IF NextPage(list, page, size) = nothing THEN page
              ELSE CHOOSE p \in page .. (page + Len(list) + 3) :
                     /\ NextPage(list, p, size) = nothing
                     /\ \A q \in page .. (p - 1) : NextPage(list, q, size) # nothing
  IN  FoldLeft(LAMBDA read, i : read \o Page(list, page + i, size), <<>>,
               [i \in 1 .. (last - page + 1) |-> i - 1])

(* filter_qs_by_fields_dependency: the filters that are given, all of them;
   search_qs_by_fields_dependency: some field contains the text. *)
Filtered(rows, params) ==
  {r \in rows : \A f \in DOMAIN params : params[f] # nothing => r[f] = params[f]}
Searched(rows, fields, text) ==
  {r \in rows : text = {} \/ \E f \in fields : r[f] # nothing /\ text \subseteq r[f]}

(* CustomSearchFilter: a number that is none is taken for zero, one below it is an error. *)
SearchLength(given, number) ==
  IF ~given THEN 10 ELSE IF number = nothing THEN 0 ELSE number

-----------------------------------------------------------------------------
(* The routes of CrudRouter: status and what becomes of the table. *)

Row(table, status, after) == [status |-> status, table |-> IF status < 400 THEN after ELSE table]

GetOne(table, key) == Row(table, IF key \in DOMAIN table THEN 200 ELSE 404, table)

(* _create: what is null or equal to the default of the schema is left to the
   model; a number for a relation is its key.  refs are columns with relations and
   the keys they may have, required those without a default of the model. *)
Given(payload, defaults) ==
  {f \in DOMAIN payload : payload[f] # nothing /\ (f \in DOMAIN defaults => payload[f] # defaults[f])}

Create(table, key, payload, defaults, refs, required, modelDefaults) ==
  LET given == Given(payload, defaults)
      row   == [f \in given \cup DOMAIN modelDefaults |->
                  IF f \in given THEN payload[f] ELSE modelDefaults[f]]
  IN  IF \E f \in given \cap DOMAIN refs : payload[f] \notin refs[f] THEN Row(table, 404, table)
      ELSE IF ~(required \subseteq given) THEN Row(table, 500, table)
      ELSE Row(table, 201, [k \in DOMAIN table \cup {key} |-> IF k = key THEN row ELSE table[k]])

(* _update: the columns of the route that are named, others are dropped.  A relation
   is set by its column with _id; its name, the key of the row and a value the
   table refuses are errors of the server. *)
Update(table, key, payload, columns, relations, refs) ==
  LET named == columns \cap DOMAIN payload
  IN  IF key \notin DOMAIN table THEN Row(table, 404, table)
      ELSE IF \/ "id" \in named \/ named \cap relations # {}
              \/ \E f \in named \cap DOMAIN refs : payload[f] \notin refs[f]
           THEN Row(table, 500, table)
      ELSE Row(table, 200, [table EXCEPT ![key] =
                 [f \in DOMAIN @ |-> IF f \in named THEN payload[f] ELSE @[f]]])

(* _delete_one: of the whole table, whatever filter_qs lets the others see. *)
Delete(table, key) ==
  Row(table, IF key \in DOMAIN table THEN 204 ELSE 404,
      [k \in DOMAIN table \ {key} |-> table[k]])

-----------------------------------------------------------------------------
(* Comments of customers: their authors may delete them. *)

Removable(comment, user) == comment.author = user
DeleteComment(table, key, user) ==
  IF key \in DOMAIN table /\ ~Removable(table[key], user) THEN Row(table, 403, table)
  ELSE Delete(table, key)

(* The list of addresses: with a parent that is not positive, those without one,
   of all types. *)
AddressList(rows, parent, type) ==
  CASE parent # nothing /\ parent <= 0 -> {r \in rows : r.parent = nothing}
    [] OTHER -> {r \in rows : /\ parent # nothing => r.parent = parent
                              /\ type # nothing => r.type = type}

(* The lists of the export: customers who are on and lack something an
   individual must have. *)
Lacking(customers, has) == {c \in customers : c.active /\ c.legals = 0 /\ ~has[c]}
=============================================================================
