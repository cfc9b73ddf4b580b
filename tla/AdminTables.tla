---------------------------- MODULE AdminTables ----------------------------
(***************************************************************************)
(* The tables the administrators work on, what one transaction of theirs   *)
(* comes to, and the audit log it leaves.  A transaction first reads       *)
(* without locks; what it reads under a lock and writes it finds as it is  *)
(* at its commit.  The operators get the tables twice, s as they were read *)
(* first and t as they are at the commit.                                  *)
(***************************************************************************)
EXTENDS Naturals, FiniteSets, Sequences

CONSTANTS Rows,    \* the rows there may ever be: pairs of a table and a number
          Texts,   \* codes, names and models, what one may type
          Bad,     \* stands for every text a validation refuses
          NoRow, Gone,   \* a row that is not there yet, and one that was deleted
          None, Unset,
          Unknown  \* what the audit log does not tell

Of(table) == {x \in Rows : x[1] = table}

\* The status of a broadcast.
Progress == {"draft", "scheduled", "running", "cancelled"}

\* on: is_active, enabled, is_blocked, resolved, stop_requested;
\* mark: is_recommended, test_mode, trial_used; value: the model of a mode or a
\* plan, a display name, the status of a broadcast, whether a user is reachable.
Row == [code: Texts \cup {None}, on: BOOLEAN, mark: BOOLEAN,
        value: Texts \cup {None, "reachable", "unreachable"} \cup Progress,
        plan: Of("plan") \cup {None}]

\* A row as the audit log tells of it, which never tells how far a broadcast is.
KnownRow == [code: Texts \cup {None, Unknown}, on: BOOLEAN \cup {Unknown},
             mark: BOOLEAN \cup {Unknown},
             value: Texts \cup {None, "reachable", "unreachable", Unknown},
             plan: Of("plan") \cup {None, Unknown}]

ASSUME TablesAssumption ==
  /\ NoRow \notin Row /\ Gone \notin Row /\ NoRow \notin KnownRow /\ Gone \notin KnownRow
  /\ {NoRow, Gone, Unknown} \cap Texts = {}
  /\ Progress \cap (Texts \cup {None, Unknown}) = {}
  /\ Texts # {}

\* One field, and a row with some fields written over.
field :> v == [f \in {field} |-> v]
new @@ old ==
  [f \in DOMAIN new \cup DOMAIN old |-> IF f \in DOMAIN new THEN new[f] ELSE old[f]]

New(code, value, plan) == [code |-> code, on |-> TRUE, mark |-> FALSE, value |-> value, plan |-> plan]

-----------------------------------------------------------------------------
(* The audit log, kept as what a reader of all its entries knows.           *)

Says(x, what) == [verb |-> "says", about |-> x, what |-> what]
Flips(x, field) == [verb |-> "flips", about |-> x, what |-> field]
Creates(x, what) == [verb |-> "creates", about |-> x, what |-> what]
Deletes(x) == [verb |-> "deletes", about |-> x, what |-> None]
Sets(what) == [verb |-> "sets", about |-> None, what |-> what]
Grants(n) == [verb |-> "grants", about |-> None, what |-> n]
Takes(n) == [verb |-> "takes", about |-> None, what |-> n]
Notes == [verb |-> "notes", about |-> None, what |-> None]

Blank == [code |-> Unknown, on |-> Unknown, mark |-> Unknown, value |-> Unknown, plan |-> Unknown]

\* A cleared url switches its button off, whatever the entry says of the rest.
Implied(what) ==
  IF "legal.url" \in DOMAIN what /\ what["legal.url"] = ""
    THEN "legal.enabled" :> FALSE @@ what ELSE what

Replay(book, e) ==
  LET x == e.about IN
  CASE e.verb = "says" -> [book EXCEPT !.rows[x] = e.what @@ @]
    [] e.verb = "flips" -> [book EXCEPT !.rows[x][e.what] = IF @ = Unknown THEN Unknown ELSE ~@]
    [] e.verb = "creates" -> [book EXCEPT !.rows[x] = e.what @@ Blank]
    [] e.verb = "deletes" -> [book EXCEPT !.rows[x] = Gone]
    [] e.verb = "sets" -> [book EXCEPT !.settings = Implied(e.what) @@ @]
    [] e.verb = "grants" -> [book EXCEPT !.credits = @ + e.what]
    [] e.verb = "takes" -> [book EXCEPT !.credits = @ - e.what]
    [] e.verb = "notes" -> book

\* What is known of a row is true of it.
Agrees(known, row) ==
  IF {known, row} \cap {NoRow, Gone} # {} THEN known = row
  ELSE \A field \in DOMAIN row : known[field] \in {Unknown, row[field]}

-----------------------------------------------------------------------------
(* How a transaction ends.                                                  *)

Done(t, entry) == [end |-> "done", tables |-> t, entry |-> entry]
Refused == [end |-> "refused"]     \* TelegramAdminError, AdminValidationError, ValueError
Broken == [end |-> "broken"]       \* any other exception

Exists(t, x) == t.rows[x] \notin {NoRow, Gone}

\* SELECT ... FOR UPDATE, and an error when there is no such row.
Locked(t, x, outcome) == IF Exists(t, x) THEN outcome ELSE Refused

Put(t, x, what) == [t EXCEPT !.rows[x] = what @@ @]
Flip(t, x, field) == [t EXCEPT !.rows[x][field] = ~@]

Taken(t, x, code) == \E y \in Of(x[1]) \ {x} : Exists(t, y) /\ t.rows[y].code = code

\* Mutant of Conflict: the codes of the table have no unique index.
NoConflict(t, x, code) == FALSE

\* The unique index on the code.
Conflict(t, x, code) == Taken(t, x, code)

\* The foreign key of promo_codes, payments and subscriptions to plans.
Orphan(t, plan) == plan # None /\ ~Exists(t, plan)

\* Looked up without a lock, inserted, and refused by the indexes as the caller
\* takes it.
Insert(s, t, x, row, said, conflict) ==
  IF row.code = Bad \/ Taken(s, x, row.code) THEN Refused
  ELSE IF Conflict(t, x, row.code) \/ Orphan(t, row.plan) THEN conflict
  ELSE Done([t EXCEPT !.rows[x] = row], Creates(x, said))

\* An active price for the model; and any price for it.
Priced(s, model) == \E p \in Of("price") : Exists(s, p) /\ s.rows[p].code = model /\ s.rows[p].on
Known(s, model) == \E p \in Of("price") : Exists(s, p) /\ s.rows[p].code = model

\* Subscriptions, also old ones, and payments of the plan, and promos for it only.
Bought(t, x) == x \in t.paid \/ t.sub = x
Promoted(t, x) == \E p \in Of("promo") : Exists(t, p) /\ t.rows[p].plan = x
InUse(t, x) == Bought(t, x) \/ Promoted(t, x)

\* ON DELETE SET NULL for the promos; for the others RESTRICT.
WithoutPlan(t, x) ==
  [t EXCEPT !.rows = [y \in Rows |->
     CASE y = x -> Gone
       [] y \in Of("promo") \ {x} /\ Exists(t, y) /\ t.rows[y].plan = x ->
            [t.rows[y] EXCEPT !.plan = None]
       [] OTHER -> t.rows[y]]]

Delete(t, x) == IF Bought(t, x) THEN Broken ELSE Done(WithoutPlan(t, x), Deletes(x))

\* A setting that was not there is inserted, and its key is unique.
SetKeys(s, t, what) ==
  IF \E k \in DOMAIN what : s.settings[k] = Unset /\ t.settings[k] # Unset THEN Broken
  ELSE Done([t EXCEPT !.settings = Implied(what) @@ @], Sets(what))
=============================================================================
