------------------------ MODULE AdministrationProofs ------------------------
(* What Administration promises holds for any tables, administrators, forms *)
(* and wizards.                                                             *)
EXTENDS Administration, TLAPS

Fields == {"code", "on", "mark", "value", "plan"}

\* Tables of the right shape, in which no code is there twice.
IsTables(t) ==
  /\ t = [rows |-> t.rows, settings |-> t.settings, credits |-> t.credits,
          sub |-> t.sub, active |-> t.active, paid |-> t.paid]
  /\ t.rows \in [Rows -> Row \cup {NoRow, Gone}]
  /\ t.credits \in Nat /\ t.sub \in Of("plan") /\ t.paid \subseteq Of("plan")

Apart(t) ==
  \A x, y \in Rows :
    x # y /\ x[1] = y[1] /\ Exists(t, x) /\ Exists(t, y) /\ t.rows[x].code # None
      => t.rows[x].code # t.rows[y].code

\* What is known of the tables is true of them.
Tells(b, t) ==
  /\ b = [rows |-> b.rows, settings |-> b.settings, credits |-> b.credits,
          sub |-> b.sub, active |-> b.active, paid |-> b.paid]
  /\ b.rows \in [Rows -> KnownRow \cup {NoRow, Gone}]
  /\ \A x \in Rows : Agrees(b.rows[x], t.rows[x])
  /\ b.settings = t.settings
  /\ b.credits = t.credits

\* Only plans are ever deleted, and none that is in use.
UseKept(t, u) ==
  \A x \in Rows : Exists(t, x) /\ ~Exists(u, x) => x \in Of("plan") /\ ~InUse(t, x)

\* What a transaction that ends well does for the tables it finds.
Sound(t, o) ==
  /\ o.end # "pending"
  /\ o.end = "done" =>
       /\ IsTables(o.tables) /\ Apart(o.tables) /\ UseKept(t, o.tables)
       /\ \A b : Tells(b, t) => Tells(Replay(b, o.entry), o.tables)

-----------------------------------------------------------------------------
(* Rows that are there are rows, and what agrees with them is known field   *)
(* by field.                                                                *)
LEMMA ExistingRow ==
  ASSUME NEW t, IsTables(t), NEW x \in Rows
  PROVE  /\ Exists(t, x) => t.rows[x] \in Row
         /\ ~Exists(t, x) => t.rows[x] \in {NoRow, Gone}
BY DEF IsTables, Exists

\* A row has its five columns, each of its type.
LEMMA RowShape ==
  ASSUME NEW r \in Row
  PROVE  /\ DOMAIN r = Fields
         /\ r.code \in Texts \cup {None} /\ r.on \in BOOLEAN /\ r.mark \in BOOLEAN
         /\ r.value \in Texts \cup {None, "reachable", "unreachable"} \cup Progress
         /\ r.plan \in Of("plan") \cup {None}
BY DEF Row, Fields

\* Of a row that is there every column is told rightly or not at all.
LEMMA AgreesRow ==
  ASSUME NEW known \in KnownRow \cup {NoRow, Gone}, NEW r \in Row
  PROVE  Agrees(known, r) <=> known \in KnownRow /\ \A f \in Fields : known[f] \in {Unknown, r[f]}
<1>1. r \notin {NoRow, Gone} /\ (known \in KnownRow => known \notin {NoRow, Gone})
  BY TablesAssumption
<1>2. DOMAIN r = Fields
  BY RowShape
<1> QED
  BY <1>1, <1>2 DEF Agrees

\* That a row is not there, or was deleted, is told as it is.
LEMMA AgreesGone ==
  ASSUME NEW known \in KnownRow \cup {NoRow, Gone}, NEW r \in {NoRow, Gone}
  PROVE  Agrees(known, r) <=> known = r
BY DEF Agrees

-----------------------------------------------------------------------------
(* The shapes a change can have.                                            *)

\* A row is written, and its code is free.
LEMMA WriteRow ==
  ASSUME NEW t, IsTables(t), Apart(t), NEW x \in Rows, NEW row \in Row,
         row.code = None \/ ~Taken(t, x, row.code)
                         \/ (Exists(t, x) /\ row.code = t.rows[x].code)
  PROVE  LET u == [t EXCEPT !.rows[x] = row] IN
         /\ IsTables(u) /\ Apart(u) /\ UseKept(t, u)
         /\ u.settings = t.settings /\ u.credits = t.credits
         /\ u.rows = [t.rows EXCEPT ![x] = row]
<1> DEFINE u == [t EXCEPT !.rows[x] = row]
<1>1. /\ u.rows = [t.rows EXCEPT ![x] = row] /\ IsTables(u)
      /\ u.settings = t.settings /\ u.credits = t.credits
  BY DEF IsTables
<1>2. \A y \in Rows : u.rows[y] = IF y = x THEN row ELSE t.rows[y]
  BY <1>1 DEF IsTables
<1>3. \A y \in Rows : Exists(u, y) <=> y = x \/ Exists(t, y)
  BY <1>2, TablesAssumption DEF Exists
<1> HIDE DEF u
<1>4. UseKept(t, u)
  BY <1>3 DEF UseKept
<1>5. Apart(u)
  <2> SUFFICES ASSUME NEW y \in Rows, NEW z \in Rows, y # z, y[1] = z[1], Exists(u, y), Exists(u, z),
                      u.rows[y].code # None
               PROVE  u.rows[y].code # u.rows[z].code
    BY DEF Apart
  <2>1. CASE y # x /\ z # x
    BY <2>1, <1>2, <1>3 DEF Apart
  <2>2. ASSUME NEW v \in Rows, v # x, v[1] = x[1], Exists(t, v), row.code # None
        PROVE  t.rows[v].code # row.code
    <3>1. v \in Of(x[1]) \ {x}
      BY <2>2 DEF Of
    <3>2. CASE ~Taken(t, x, row.code)
      BY <3>1, <3>2, <2>2 DEF Taken
    <3>3. CASE Exists(t, x) /\ row.code = t.rows[x].code
      BY <3>3, <2>2 DEF Apart
    <3> QED
      BY <3>2, <3>3, <2>2
  <2>3. CASE y = x
    BY <2>3, <2>2, <1>2, <1>3
  <2>4. CASE z = x
    <3>1. CASE row.code = None
      BY <3>1, <2>4, <1>2
    <3>2. CASE row.code # None
      BY <3>2, <2>4, <2>2, <1>2, <1>3
    <3> QED
      BY <3>1, <3>2
  <2> QED
    BY <2>1, <2>3, <2>4
<1> QED
  BY <1>1, <1>4, <1>5 DEF u

\* Writing over a row of the log.
LEMMA TellRow ==
  ASSUME NEW t, NEW u, NEW b, Tells(b, t), IsTables(t), NEW x \in Rows, NEW row \in Row,
         NEW known \in KnownRow,
         \A f \in Fields : known[f] \in {Unknown, row[f]},
         u.rows = [t.rows EXCEPT ![x] = row], u.settings = t.settings, u.credits = t.credits
  PROVE  Tells([b EXCEPT !.rows[x] = known], u)
<1> DEFINE c == [b EXCEPT !.rows[x] = known]
<1>1. /\ c = [rows |-> c.rows, settings |-> c.settings, credits |-> c.credits,
              sub |-> c.sub, active |-> c.active, paid |-> c.paid]
      /\ c.rows = [b.rows EXCEPT ![x] = known]
      /\ c.rows \in [Rows -> KnownRow \cup {NoRow, Gone}]
      /\ c.settings = b.settings /\ c.credits = b.credits
  BY DEF Tells
<1>2. ASSUME NEW y \in Rows PROVE Agrees(c.rows[y], u.rows[y])
  <2>1. CASE y = x
    BY <2>1, <1>1, AgreesRow DEF Tells, IsTables
  <2>2. CASE y # x
    BY <2>2, <1>1 DEF Tells, IsTables
  <2> QED
    BY <2>1, <2>2
<1> HIDE DEF c
<1>3. Tells(c, u)
  BY <1>1, <1>2 DEF Tells
<1> QED
  BY <1>3 DEF c

\* A row that is there is changed and the entry says what it is now.
LEMMA SaysSound ==
  ASSUME NEW t, IsTables(t), Apart(t), NEW x \in Rows, Exists(t, x), NEW row \in Row,
         row.code = None \/ ~Taken(t, x, row.code) \/ row.code = t.rows[x].code,
         NEW said, DOMAIN said \subseteq Fields,
         \A f \in DOMAIN said : said[f] \in {Unknown, row[f]},
         \A f \in Fields \ DOMAIN said : row[f] = t.rows[x][f],
         "value" \in DOMAIN said => said["value"] \notin Progress
  PROVE  Sound(t, Done([t EXCEPT !.rows[x] = row], Says(x, said)))
<1> DEFINE u == [t EXCEPT !.rows[x] = row]
<1>1. /\ IsTables(u) /\ Apart(u) /\ UseKept(t, u)
      /\ u.rows = [t.rows EXCEPT ![x] = row] /\ u.settings = t.settings /\ u.credits = t.credits
  BY WriteRow
<1> HIDE DEF u
<1>2. ASSUME NEW b, Tells(b, t) PROVE Tells(Replay(b, Says(x, said)), u)
  <2> DEFINE known == said @@ b.rows[x]
  <2>1. Replay(b, Says(x, said)) = [b EXCEPT !.rows[x] = known]
    BY <1>2 DEF Replay, Says, Tells
  <2>2. /\ b.rows[x] \in KnownRow
        /\ \A f \in Fields : b.rows[x][f] \in {Unknown, t.rows[x][f]}
    BY <1>2, AgreesRow, ExistingRow DEF Tells
  <2>3. DOMAIN b.rows[x] = Fields
    BY <2>2 DEF KnownRow, Fields
  <2>4. /\ DOMAIN known = Fields
        /\ \A f \in Fields : known[f] = IF f \in DOMAIN said THEN said[f] ELSE b.rows[x][f]
        /\ known = [f \in Fields |-> known[f]]
    BY <2>3 DEF @@
  <2>5. \A f \in Fields : known[f] \in {Unknown, row[f]}
    BY <2>4, <2>2
  <2>6. known["value"] \notin Progress \/ known["value"] = Unknown
    BY <2>4, <2>2, TablesAssumption DEF KnownRow, Fields, Progress
  <2> HIDE DEF known
  <2>7. known \in KnownRow
    BY <2>4, <2>5, <2>6, RowShape DEF KnownRow, Fields
  <2>8. Tells([b EXCEPT !.rows[x] = known], u)
    BY <1>1, <1>2, <2>5, <2>7, TellRow
  <2> QED
    BY <2>1, <2>8
<1>3. Sound(t, Done(u, Says(x, said)))
  BY <1>1, <1>2 DEF Sound, Done
<1> QED
  BY <1>3 DEF u

\* Writing some columns writes the row with those columns over the old ones.
LEMMA PutWrites ==
  ASSUME NEW t, IsTables(t), NEW x \in Rows, NEW what, NEW row, row = what @@ t.rows[x]
  PROVE  Put(t, x, what) = [t EXCEPT !.rows[x] = row]
BY DEF Put, IsTables

\* The same for one field.
LEMMA FieldSound ==
  ASSUME NEW t, IsTables(t), Apart(t), NEW x \in Rows, Exists(t, x), NEW field, NEW v,
         \/ field \in {"on", "mark"} /\ v \in BOOLEAN
         \/ field = "value" /\ v \in Texts \cup {None}
         \/ field = "plan" /\ v \in Of("plan") \cup {None}
         \/ field = "code" /\ v \in Texts /\ ~Taken(t, x, v)
  PROVE  Sound(t, Done(Put(t, x, field :> v), Says(x, field :> v)))
<1> DEFINE row == (field :> v) @@ t.rows[x]
<1>1. t.rows[x] \in Row
  BY ExistingRow
<1>2. DOMAIN t.rows[x] = Fields
  BY <1>1, RowShape
<1>3. DOMAIN (field :> v) = {field} /\ (field :> v)[field] = v
  BY DEF :>
<1>4. /\ \A f \in Fields : row[f] = IF f = field THEN v ELSE t.rows[x][f]
      /\ row = [f \in Fields |-> row[f]]
  BY <1>2, <1>3 DEF @@, Fields
<1>5. Put(t, x, field :> v) = [t EXCEPT !.rows[x] = row]
  BY DEF Put, IsTables
<1> HIDE DEF row
<1>6. row \in Row
  BY <1>4, <1>1, RowShape DEF Row, Fields
<1>7. row.code = None \/ ~Taken(t, x, row.code) \/ row.code = t.rows[x].code
  BY <1>4 DEF Fields
<1>8. "value" \in DOMAIN (field :> v) => (field :> v)["value"] \notin Progress
  BY <1>3, TablesAssumption
<1>9. Sound(t, Done([t EXCEPT !.rows[x] = row], Says(x, field :> v)))
  BY <1>3, <1>4, <1>6, <1>7, <1>8, SaysSound DEF Fields
<1> QED
  BY <1>5, <1>9

\* A flip is told by its new value, or only as a flip.
LEMMA FlipIsPut ==
  ASSUME NEW t, IsTables(t), NEW x \in Rows, Exists(t, x), NEW field \in {"on", "mark"}
  PROVE  /\ Flip(t, x, field) = Put(t, x, field :> ~t.rows[x][field])
         /\ (~t.rows[x][field]) \in BOOLEAN
<1>1. t.rows[x] \in Row
  BY ExistingRow
<1>2. Flip(t, x, field) = Put(t, x, field :> ~t.rows[x][field])
  BY <1>1 DEF IsTables, Row, @@, :>, Flip, Put
<1>3. (~t.rows[x][field]) \in BOOLEAN
  BY Zenon
<1> QED
  BY <1>2, <1>3

\* A switch may be told by its new value, or as a flip.
LEMMA FlipSound ==
  ASSUME NEW t, IsTables(t), Apart(t), NEW x \in Rows, Exists(t, x), NEW field \in {"on", "mark"}
  PROVE  /\ Sound(t, Done(Flip(t, x, field), Says(x, field :> ~t.rows[x][field])))
         /\ Sound(t, Done(Flip(t, x, field), Flips(x, field)))
<1> DEFINE v == ~t.rows[x][field]
           row == [t.rows[x] EXCEPT ![field] = v]
           u == [t EXCEPT !.rows[x] = row]
<1>1. Sound(t, Done(Flip(t, x, field), Says(x, field :> v)))
  BY FlipIsPut, FieldSound
<1>2. t.rows[x] \in Row
  BY ExistingRow
<1>3. Flip(t, x, field) = u
  BY <1>2 DEF Flip, IsTables
<1>4. v \in BOOLEAN
  OBVIOUS
<1>5. /\ row \in Row /\ row.code = t.rows[x].code
      /\ \A f \in Fields : row[f] = IF f = field THEN v ELSE t.rows[x][f]
  BY <1>2, <1>4 DEF Row, Fields
<1> HIDE DEF row
<1>6. /\ IsTables(u) /\ Apart(u) /\ UseKept(t, u)
      /\ u.rows = [t.rows EXCEPT ![x] = row] /\ u.settings = t.settings /\ u.credits = t.credits
  BY <1>5, WriteRow
<1> HIDE DEF u
<1>7. ASSUME NEW b, Tells(b, t) PROVE Tells(Replay(b, Flips(x, field)), u)
  <2> DEFINE w == IF b.rows[x][field] = Unknown THEN Unknown ELSE ~b.rows[x][field]
             known == [b.rows[x] EXCEPT ![field] = w]
  <2>1. /\ b.rows[x] \in KnownRow
        /\ \A f \in Fields : b.rows[x][f] \in {Unknown, t.rows[x][f]}
    BY <1>7, <1>2, AgreesRow DEF Tells
  <2>2. Replay(b, Flips(x, field)) = [b EXCEPT !.rows[x] = known]
    BY <1>7, <2>1 DEF Replay, Flips, Tells, KnownRow
  <2>3. w \in {Unknown, v} /\ w \in BOOLEAN \cup {Unknown}
    BY <2>1 DEF Fields
  <2> HIDE DEF w
  <2>4. known \in KnownRow
    BY <2>1, <2>3 DEF KnownRow
  <2>5. \A f \in Fields : known[f] \in {Unknown, row[f]}
    BY <2>1, <2>3, <1>5 DEF KnownRow, Fields
  <2> HIDE DEF known
  <2> QED
    BY <1>5, <1>6, <1>7, <2>2, <2>4, <2>5, TellRow
<1>8. Sound(t, Done(u, Flips(x, field)))
  BY <1>6, <1>7 DEF Sound, Done
<1> QED
  BY <1>1, <1>3, <1>8

\* A row is created, and the entry says something of it.
LEMMA CreateSound ==
  ASSUME NEW t, IsTables(t), Apart(t), NEW x \in Rows, NEW row \in Row,
         row.code = None \/ ~Taken(t, x, row.code),
         NEW said, DOMAIN said \subseteq Fields \ {"value"},
         \A f \in DOMAIN said : said[f] = row[f]
  PROVE  Sound(t, Done([t EXCEPT !.rows[x] = row], Creates(x, said)))
<1> DEFINE u == [t EXCEPT !.rows[x] = row]
<1>1. /\ IsTables(u) /\ Apart(u) /\ UseKept(t, u)
      /\ u.rows = [t.rows EXCEPT ![x] = row] /\ u.settings = t.settings /\ u.credits = t.credits
  BY WriteRow
<1> HIDE DEF u
<1>2. ASSUME NEW b, Tells(b, t) PROVE Tells(Replay(b, Creates(x, said)), u)
  <2> DEFINE known == said @@ Blank
  <2>1. Replay(b, Creates(x, said)) = [b EXCEPT !.rows[x] = known]
    BY <1>2 DEF Replay, Creates, Tells
  <2>2. DOMAIN Blank = Fields /\ \A f \in Fields : Blank[f] = Unknown
    BY DEF Blank, Fields
  <2>3. /\ \A f \in Fields : known[f] = IF f \in DOMAIN said THEN row[f] ELSE Unknown
        /\ known = [f \in Fields |-> known[f]]
    BY <2>2 DEF @@
  <2> HIDE DEF known
  <2>4. known \in KnownRow
    BY <2>3, RowShape DEF KnownRow, Fields
  <2>5. \A f \in Fields : known[f] \in {Unknown, row[f]}
    BY <2>3
  <2> QED
    BY <1>1, <1>2, <2>1, <2>4, <2>5, TellRow
<1>3. Sound(t, Done(u, Creates(x, said)))
  BY <1>1, <1>2 DEF Sound, Done
<1> QED
  BY <1>3 DEF u

\* What the index and the foreign key let pass.
LEMMA InsertSound ==
  ASSUME NEW s, NEW t, IsTables(t), Apart(t), NEW x \in Rows, NEW row,
         row.code # Bad => row \in Row,
         NEW said, DOMAIN said \subseteq Fields \ {"value"},
         \A f \in DOMAIN said : said[f] = row[f],
         NEW conflict \in {Refused, Broken}
  PROVE  Sound(t, Insert(s, t, x, row, said, conflict))
<1>1. Sound(t, conflict) /\ Sound(t, Refused)
  BY DEF Sound, Refused, Broken
<1>2. CASE row.code # Bad /\ ~Conflict(t, x, row.code)
  BY <1>1, <1>2, CreateSound DEF Insert, Conflict
<1> QED
  BY <1>1, <1>2 DEF Insert

-----------------------------------------------------------------------------
\* A plan that is not in use takes no promo with it.
LEMMA DeleteSound ==
  ASSUME NEW t, IsTables(t), Apart(t), NEW x \in Of("plan"), ~InUse(t, x)
  PROVE  Sound(t, Delete(t, x))
<1> DEFINE u == WithoutPlan(t, x)
<1>1. x \in Rows
  BY DEF Of
<1>2. /\ u.rows = [t.rows EXCEPT ![x] = Gone]
      /\ u.settings = t.settings /\ u.credits = t.credits /\ IsTables(u)
  BY <1>1 DEF IsTables, WithoutPlan, InUse, Promoted
<1> HIDE DEF u
<1>3. \A y \in Rows : /\ y # x => u.rows[y] = t.rows[y]
                      /\ Exists(u, y) <=> y # x /\ Exists(t, y)
  BY <1>1, <1>2 DEF IsTables, Exists
<1>4. Apart(u)
  <2> SUFFICES ASSUME NEW y \in Rows, NEW z \in Rows, y # z, y[1] = z[1], Exists(u, y), Exists(u, z),
                      u.rows[y].code # None
               PROVE  u.rows[y].code # u.rows[z].code
    BY DEF Apart
  <2>1. /\ u.rows[y] = t.rows[y] /\ u.rows[z] = t.rows[z]
        /\ Exists(t, y) /\ Exists(t, z)
    BY <1>3
  <2> QED
    BY <2>1 DEF Apart
<1>5. UseKept(t, u)
  BY <1>3 DEF UseKept
<1>6. ASSUME NEW b, Tells(b, t) PROVE Tells(Replay(b, Deletes(x)), u)
  <2> DEFINE c == [b EXCEPT !.rows[x] = Gone]
  <2>1. Replay(b, Deletes(x)) = c
    BY DEF Replay, Deletes
  <2>2. /\ c = [rows |-> c.rows, settings |-> c.settings, credits |-> c.credits,
                sub |-> c.sub, active |-> c.active, paid |-> c.paid]
        /\ c.rows = [b.rows EXCEPT ![x] = Gone]
        /\ c.rows \in [Rows -> KnownRow \cup {NoRow, Gone}]
        /\ c.settings = b.settings /\ c.credits = b.credits
    BY <1>1, <1>6 DEF Tells
  <2> HIDE DEF c
  <2>3. ASSUME NEW y \in Rows PROVE Agrees(c.rows[y], u.rows[y])
    <3>1. CASE y = x
      <4>1. c.rows[y] = Gone /\ u.rows[y] = Gone
        BY <3>1, <1>2, <1>6, <2>2 DEF Tells, IsTables
      <4> QED
        BY <4>1 DEF Agrees
    <3>2. CASE y # x
      <4>1. c.rows[y] = b.rows[y] /\ u.rows[y] = t.rows[y]
        BY <3>2, <1>3, <1>6, <2>2 DEF Tells
      <4>2. Agrees(b.rows[y], t.rows[y])
        BY <1>6 DEF Tells
      <4> QED
        BY <4>1, <4>2
    <3> QED
      BY <3>1, <3>2
  <2> HIDE DEF c
  <2> QED
    BY <1>2, <1>6, <2>1, <2>2, <2>3 DEF Tells
<1>7. Sound(t, Done(u, Deletes(x)))
  BY <1>2, <1>4, <1>5, <1>6 DEF Sound, Done
<1>8. Sound(t, Broken)
  BY DEF Sound, Broken
<1> QED
  BY <1>7, <1>8 DEF Delete, u

\* Tables that differ in nothing the log or the codes speak of.
LEMMA AsideSound ==
  ASSUME NEW t, IsTables(t), Apart(t), NEW u, IsTables(u), u.rows = t.rows
  PROVE  /\ Apart(u) /\ UseKept(t, u)
         /\ \A b : Tells(b, t) /\ u.settings = t.settings /\ u.credits = t.credits => Tells(b, u)
<1>1. \A x : Exists(u, x) <=> Exists(t, x)
  BY DEF Exists
<1> QED
  BY <1>1 DEF Apart, UseKept, Tells

\* Refusals change nothing; what the log only notes is no part of what it is held to.
LEMMA NotesSound ==
  ASSUME NEW t, IsTables(t), Apart(t)
  PROVE  /\ Sound(t, Refused) /\ Sound(t, Broken)
         /\ Sound(t, Done(t, Notes))
         /\ \A plan \in Of("plan") : Sound(t, Done([t EXCEPT !.sub = plan], Notes))
         /\ Sound(t, Done([t EXCEPT !.active = FALSE], Notes))
<1>1. ASSUME NEW u, IsTables(u), u.rows = t.rows, u.settings = t.settings, u.credits = t.credits
      PROVE  Sound(t, Done(u, Notes))
  BY <1>1, AsideSound DEF Sound, Done, Replay, Notes
<1>2. Sound(t, Refused) /\ Sound(t, Broken)
  BY DEF Sound, Refused, Broken
<1>3. ASSUME NEW plan \in Of("plan") PROVE Sound(t, Done([t EXCEPT !.sub = plan], Notes))
  <2> DEFINE u == [t EXCEPT !.sub = plan]
  <2>1. IsTables(u) /\ u.rows = t.rows /\ u.settings = t.settings /\ u.credits = t.credits
    BY DEF IsTables
  <2> HIDE DEF u
  <2>2. Sound(t, Done(u, Notes))
    BY <2>1, <1>1
  <2> QED
    BY <2>2 DEF u
<1>4. ASSUME NEW v \in BOOLEAN PROVE Sound(t, Done([t EXCEPT !.active = v], Notes))
  <2> DEFINE u == [t EXCEPT !.active = v]
  <2>1. IsTables(u) /\ u.rows = t.rows /\ u.settings = t.settings /\ u.credits = t.credits
    BY DEF IsTables
  <2> HIDE DEF u
  <2>2. Sound(t, Done(u, Notes))
    BY <2>1, <1>1
  <2> QED
    BY <2>2 DEF u
<1>5. Sound(t, Done([t EXCEPT !.active = FALSE], Notes))
  BY <1>4
<1> QED
  BY <1>1, <1>2, <1>3, <1>5

\* Settings are told as they are set, the implied switch too.
LEMMA SettingsSound ==
  ASSUME NEW s, NEW t, IsTables(t), Apart(t), NEW what
  PROVE  Sound(t, SetKeys(s, t, what))
<1> DEFINE u == [t EXCEPT !.settings = Implied(what) @@ @]
<1>1. /\ IsTables(u) /\ u.rows = t.rows /\ u.credits = t.credits
      /\ u.settings = Implied(what) @@ t.settings
  BY DEF IsTables
<1> HIDE DEF u
<1>2. Apart(u) /\ UseKept(t, u)
  BY <1>1, AsideSound
<1>3. ASSUME NEW b, Tells(b, t) PROVE Tells(Replay(b, Sets(what)), u)
  <2> DEFINE c == [b EXCEPT !.settings = Implied(what) @@ @]
  <2>1. Replay(b, Sets(what)) = c
    BY DEF Replay, Sets
  <2>2. /\ c = [rows |-> c.rows, settings |-> c.settings, credits |-> c.credits,
                sub |-> c.sub, active |-> c.active, paid |-> c.paid]
        /\ c.rows = b.rows /\ c.credits = b.credits
        /\ c.settings = Implied(what) @@ b.settings
    BY <1>3 DEF Tells
  <2> HIDE DEF c
  <2> QED
    BY <1>1, <1>3, <2>1, <2>2 DEF Tells
<1>4. Sound(t, Done(u, Sets(what))) /\ Sound(t, Broken)
  BY <1>1, <1>2, <1>3 DEF Sound, Done, Broken
<1> QED
  BY <1>4 DEF SetKeys, u

\* A credit given or taken is told; none is taken from an empty balance.
LEMMA CreditsSound ==
  ASSUME NEW t, IsTables(t), Apart(t)
  PROVE  /\ Sound(t, Done([t EXCEPT !.credits = @ + 1], Grants(1)))
         /\ t.credits >= 1 => Sound(t, Done([t EXCEPT !.credits = @ - 1], Takes(1)))
<1>1. ASSUME NEW n \in Nat, NEW e,
             \A b : Tells(b, t) => Replay(b, e) = [b EXCEPT !.credits = n]
      PROVE  Sound(t, Done([t EXCEPT !.credits = n], e))
  <2> DEFINE u == [t EXCEPT !.credits = n]
  <2>1. IsTables(u) /\ u.rows = t.rows /\ u.settings = t.settings /\ u.credits = n
    BY DEF IsTables
  <2> HIDE DEF u
  <2>2. ASSUME NEW b, Tells(b, t) PROVE Tells([b EXCEPT !.credits = n], u)
    BY <2>1, <2>2 DEF Tells
  <2>3. Sound(t, Done(u, e))
    BY <1>1, <2>1, <2>2, AsideSound DEF Sound, Done
  <2> QED
    BY <2>3 DEF u
<1>2. t.credits \in Nat
  BY DEF IsTables
<1>3. Sound(t, Done([t EXCEPT !.credits = t.credits + 1], Grants(1)))
  <2>1. \A b : Tells(b, t) => Replay(b, Grants(1)) = [b EXCEPT !.credits = t.credits + 1]
    BY DEF Replay, Grants, Tells
  <2>2. t.credits + 1 \in Nat
    BY <1>2
  <2> QED
    BY <2>1, <2>2, <1>1
<1>4. ASSUME t.credits >= 1 PROVE Sound(t, Done([t EXCEPT !.credits = t.credits - 1], Takes(1)))
  <2>1. \A b : Tells(b, t) => Replay(b, Takes(1)) = [b EXCEPT !.credits = t.credits - 1]
    BY DEF Replay, Takes, Tells
  <2>2. t.credits - 1 \in Nat
    BY <1>2, <1>4
  <2> QED
    BY <2>1, <2>2, <1>1
<1> QED
  BY <1>3, <1>4

-----------------------------------------------------------------------------
(* The methods of the Telegram panel.                                       *)
LEMMA PricedIsText ==
  ASSUME NEW s, IsTables(s), NEW text, Priced(s, text)
  PROVE  text \in Texts \cup {None}
<1>1. PICK p \in Of("price") : Exists(s, p) /\ s.rows[p].code = text
  BY DEF Priced
<1> QED
  BY <1>1, ExistingRow, RowShape DEF Of

\* The row of a creation is a row.
LEMMA NewRow ==
  ASSUME NEW text \in Texts \cup {None}, NEW value \in Texts \cup {None, "draft"},
         NEW plan \in Of("plan") \cup {None}
  PROVE  /\ New(text, value, plan) \in Row
         /\ New(text, value, plan).code = text
         /\ New(text, value, plan).on = TRUE /\ New(text, value, plan).mark = FALSE
         /\ New(text, value, plan).value = value /\ New(text, value, plan).plan = plan
BY DEF New, Row, Progress

\* A broadcast moves on, and the log does not say where.
LEMMA SomehowSound ==
  ASSUME NEW t, IsTables(t), Apart(t), NEW x \in Rows, Exists(t, x), NEW row \in Row,
         \A f \in Fields \ {"value", "on"} : row[f] = t.rows[x][f]
  PROVE  Sound(t, Done([t EXCEPT !.rows[x] = row], Somehow(x)))
<1> DEFINE said == [value |-> Unknown, on |-> Unknown]
<1>1. row.code = t.rows[x].code
  BY DEF Fields
<1>2. /\ DOMAIN said = {"value", "on"}
      /\ \A f \in DOMAIN said : said[f] = Unknown
  OBVIOUS
<1> HIDE DEF said
<1>3. DOMAIN said \subseteq Fields /\ said["value"] \notin Progress
  BY <1>2, TablesAssumption DEF Fields
<1>4. Sound(t, Done([t EXCEPT !.rows[x] = row], Says(x, said)))
  BY <1>1, <1>2, <1>3, SaysSound
<1> QED
  BY <1>4 DEF Somehow, said

\* Every method on broadcasts is sound.
LEMMA BroadcastCallsSound ==
  ASSUME NEW t, IsTables(t), Apart(t), NEW x \in Rows, NEW text
  PROVE  /\ Sound(t, broadcast_create(t, x, text))
         /\ Sound(t, broadcast_set_buttons(t, x, text))
         /\ Sound(t, broadcast_schedule(t, x, text))
         /\ Sound(t, broadcast_start(t, x))
         /\ Sound(t, broadcast_stop(t, x))
<1>1. Sound(t, Refused) /\ Sound(t, Done(t, Notes))
  BY NotesSound
<1>2. Sound(t, broadcast_create(t, x, text))
  <2> DEFINE row == [New(None, "draft", None) EXCEPT !.on = FALSE]
  <2>1. row \in Row /\ row.code = None
    BY DEF New, Row, Progress
  <2>2. DOMAIN <<>> = {}
    OBVIOUS
  <2> HIDE DEF row
  <2>3. Sound(t, Done([t EXCEPT !.rows[x] = row], Creates(x, <<>>)))
    BY <2>1, <2>2, CreateSound
  <2> QED
    BY <1>1, <2>3 DEF broadcast_create, row
<1>3. Sound(t, broadcast_set_buttons(t, x, text))
  BY <1>1 DEF broadcast_set_buttons, Locked
<1>4. ASSUME Exists(t, x), NEW what, what @@ t.rows[x] \in Row,
             \A f \in Fields \ {"value", "on"} : (what @@ t.rows[x])[f] = t.rows[x][f]
      PROVE  Sound(t, Done(Put(t, x, what), Somehow(x)))
  BY <1>4, SomehowSound, PutWrites
<1>5. ASSUME Exists(t, x)
      PROVE  /\ Sound(t, Done(Queued(t, x), Somehow(x)))
             /\ Sound(t, Done(Put(t, x, "on" :> TRUE), Somehow(x)))
             /\ Sound(t, Done(Put(t, x, "value" :> "cancelled"), Somehow(x)))
             /\ Sound(t, Done(t, Somehow(x)))
  <2>1. t.rows[x] \in Row
    BY <1>5, ExistingRow
  <2>2. ASSUME NEW on \in BOOLEAN
        PROVE  Sound(t, Done(Put(t, x, [value |-> "scheduled", on |-> on]), Somehow(x)))
    <3>1. [value |-> "scheduled", on |-> on] @@ t.rows[x] \in Row
      BY <2>1 DEF @@, Row, Progress
    <3>2. \A f \in Fields \ {"value", "on"} :
            ([value |-> "scheduled", on |-> on] @@ t.rows[x])[f] = t.rows[x][f]
      BY <2>1 DEF @@, Row, Fields
    <3> QED
      BY <1>4, <1>5, <3>1, <3>2
  <2>3. Sound(t, Done(Put(t, x, "on" :> TRUE), Somehow(x)))
    <3>1. /\ ("on" :> TRUE) @@ t.rows[x] \in Row
          /\ \A f \in Fields \ {"value", "on"} : (("on" :> TRUE) @@ t.rows[x])[f] = t.rows[x][f]
      BY <2>1 DEF @@, :>, Row, Fields
    <3> QED
      BY <1>4, <1>5, <3>1
  <2>4. Sound(t, Done(Put(t, x, "value" :> "cancelled"), Somehow(x)))
    <3>1. /\ ("value" :> "cancelled") @@ t.rows[x] \in Row
          /\ \A f \in Fields \ {"value", "on"} : (("value" :> "cancelled") @@ t.rows[x])[f] = t.rows[x][f]
      BY <2>1 DEF @@, :>, Row, Fields, Progress
    <3> QED
      BY <1>4, <1>5, <3>1
  <2>5. t = [t EXCEPT !.rows[x] = t.rows[x]]
    BY DEF IsTables
  <2>6. Sound(t, Done(t, Somehow(x)))
    BY <1>5, <2>1, <2>5, SomehowSound
  <2> QED
    BY <2>2, <2>3, <2>4, <2>6 DEF Queued
<1>6. Sound(t, broadcast_schedule(t, x, text)) /\ Sound(t, broadcast_start(t, x))
  BY <1>1, <1>5 DEF broadcast_schedule, broadcast_start, Locked
<1>7. Sound(t, broadcast_stop(t, x))
  BY <1>1, <1>5 DEF broadcast_stop, Locked
<1> QED
  BY <1>2, <1>3, <1>6, <1>7

\* Buttons that switch something, and what needs no more than a row.
LEMMA SwitchCallsSound ==
  ASSUME NEW s, NEW t, IsTables(t), Apart(t), NEW x \in Rows, NEW text, NEW field \in {"on", "mark"}
  PROVE  /\ Sound(t, add_user_credits(t, x, text)) /\ Sound(t, remove_user_credits(t, x, text))
         /\ Sound(t, set_user_blocked(t, x)) /\ Sound(t, reset_user_trial(t, x))
         /\ Sound(t, grant_plan(t, x, text))
         /\ Sound(t, credit_package_toggle(s, t, x, field)) /\ Sound(t, ai_mode_toggle(t, x))
         /\ Sound(t, pricing_update(t, x, text))
         /\ Sound(t, toggle_plan(t, x)) /\ Sound(t, toggle_plan_recommended(t, x))
         /\ Sound(t, provider_toggle(t, x, field))
         /\ Sound(t, promo_set_validity_days(t, x, text)) /\ Sound(t, promo_set_scope(t, x, text))
         /\ Sound(t, promo_toggle(t, x)) /\ Sound(t, resolve_error(t, x))
<1>1. Sound(t, Refused) /\ Sound(t, Broken) /\ Sound(t, Done(t, Notes))
  BY NotesSound
<1>2. Sound(t, add_user_credits(t, x, text))
  BY <1>1, CreditsSound DEF add_user_credits
<1>3. Sound(t, remove_user_credits(t, x, text))
  <2>1. t.credits \in Nat
    BY DEF IsTables
  <2>2. CASE t.credits >= 1
    BY <1>1, <2>2, CreditsSound DEF remove_user_credits
  <2>3. CASE t.credits < 1
    BY <1>1, <2>3 DEF remove_user_credits
  <2> QED
    BY <2>1, <2>2, <2>3
<1>4. ASSUME Exists(t, x)
      PROVE  /\ Sound(t, Done(Flip(t, x, "on"), Says(x, "on" :> ~t.rows[x].on)))
             /\ Sound(t, Done(Flip(t, x, "mark"), Says(x, "mark" :> ~t.rows[x].mark)))
             /\ Sound(t, Done(Flip(t, x, field), Says(x, field :> ~t.rows[x][field])))
             /\ Sound(t, Done(Flip(t, x, field), Flips(x, field)))
             /\ Sound(t, Done(Flip(t, x, "on"), Flips(x, "on")))
             /\ Sound(t, Done(Put(t, x, "mark" :> FALSE), Says(x, "mark" :> FALSE)))
             /\ Sound(t, Done(Put(t, x, "on" :> TRUE), Says(x, "on" :> TRUE)))
  BY <1>4, FlipSound, FieldSound
<1>5. Sound(t, set_user_blocked(t, x)) /\ Sound(t, reset_user_trial(t, x))
  BY <1>1, <1>4 DEF set_user_blocked, reset_user_trial, Locked
<1>6. Sound(t, grant_plan(t, x, text))
  BY <1>1 DEF grant_plan
<1>7. Sound(t, credit_package_toggle(s, t, x, field)) /\ Sound(t, ai_mode_toggle(t, x))
  BY <1>1, <1>4 DEF credit_package_toggle, ai_mode_toggle, Locked
<1>8. Sound(t, toggle_plan(t, x)) /\ Sound(t, toggle_plan_recommended(t, x))
  BY <1>1, <1>4 DEF toggle_plan, toggle_plan_recommended, Locked
<1>9. Sound(t, provider_toggle(t, x, field)) /\ Sound(t, promo_toggle(t, x)) /\ Sound(t, resolve_error(t, x))
  BY <1>1, <1>4 DEF provider_toggle, promo_toggle, resolve_error, Locked
<1>10. /\ Sound(t, pricing_update(t, x, text)) /\ Sound(t, promo_set_validity_days(t, x, text))
       /\ Sound(t, promo_set_scope(t, x, text))
  BY <1>1 DEF pricing_update, promo_set_validity_days, promo_set_scope, Locked
<1> QED
  BY <1>2, <1>3, <1>5, <1>6, <1>7, <1>8, <1>9, <1>10

\* What is made from a text that was typed.
LEMMA NewSound ==
  ASSUME NEW s, NEW t, IsTables(t), Apart(t), NEW x \in Rows, NEW text \in Inputs, NEW plan \in Plans,
         NEW conflict \in {Refused, Broken}
  PROVE  /\ Sound(t, Insert(s, t, x, New(text, None, plan), [on |-> TRUE, mark |-> FALSE], conflict))
         /\ Sound(t, Insert(s, t, x, New(text, None, plan), [on |-> TRUE, code |-> text], conflict))
         /\ Sound(t, Insert(s, t, x, New(text, None, plan), [on |-> TRUE], conflict))
         /\ Sound(t, Insert(s, t, x, New(text, None, plan), [code |-> text], conflict))
         /\ Sound(t, Insert(s, t, x, New(text, None, plan),
                            [on |-> TRUE, mark |-> FALSE, code |-> text], conflict))
<1> DEFINE row == New(text, None, plan)
<1>1. row.code = text /\ row.on = TRUE /\ row.mark = FALSE
  BY DEF New
<1>2. row.code # Bad => row \in Row
  BY NewRow DEF Inputs, Plans, New
<1> HIDE DEF row
<1>3. ASSUME NEW said, DOMAIN said \subseteq {"code", "on", "mark"}, \A f \in DOMAIN said : said[f] = row[f]
      PROVE  Sound(t, Insert(s, t, x, row, said, conflict))
  <2>1. DOMAIN said \subseteq Fields \ {"value"}
    BY <1>3 DEF Fields
  <2> QED
    BY <1>2, <1>3, <2>1, InsertSound
<1>4. ASSUME NEW on, NEW mark, on = row.on, mark = row.mark
      PROVE  /\ Sound(t, Insert(s, t, x, row, [on |-> on, mark |-> mark], conflict))
             /\ Sound(t, Insert(s, t, x, row, [on |-> on, code |-> text], conflict))
             /\ Sound(t, Insert(s, t, x, row, [on |-> on], conflict))
             /\ Sound(t, Insert(s, t, x, row, [code |-> text], conflict))
             /\ Sound(t, Insert(s, t, x, row, [on |-> on, mark |-> mark, code |-> text], conflict))
  BY <1>1, <1>3, <1>4
<1> QED
  BY <1>1, <1>4 DEF row

\* So is every method that takes a text.
LEMMA TextCallsSound ==
  ASSUME NEW s, IsTables(s), NEW t, IsTables(t), Apart(t), NEW x \in Rows, NEW text \in Inputs
  PROVE  /\ Sound(t, credit_package_create(s, t, x, text)) /\ Sound(t, credit_package_edit(t, x, text))
         /\ Sound(t, ai_mode_edit(s, t, x, text)) /\ Sound(t, pricing_add(s, t, x, text))
         /\ Sound(t, plan_create(s, t, x, text)) /\ Sound(t, edit_plan_field(s, t, x, text))
         /\ Sound(t, provider_edit(t, x, text)) /\ Sound(t, promo_create_credits(s, t, x, text))
         /\ Sound(t, promo_edit_field(s, t, x, text))
<1>1. Sound(t, Refused) /\ Sound(t, Broken)
  BY NotesSound
<1>2. None \in Plans /\ Broken \in {Refused, Broken} /\ Refused \in {Refused, Broken}
  BY DEF Plans
<1>3. Sound(t, credit_package_create(s, t, x, text))
  BY <1>2, NewSound DEF credit_package_create
<1>4. Sound(t, pricing_add(s, t, x, text))
  BY <1>2, NewSound DEF pricing_add
<1>5. Sound(t, plan_create(s, t, x, text))
  BY <1>2, NewSound DEF plan_create
<1>6. Sound(t, promo_create_credits(s, t, x, text))
  BY <1>2, NewSound DEF promo_create_credits
<1>7. ASSUME Exists(t, x), text \in Texts \cup {None}
      PROVE  Sound(t, Done(Put(t, x, "value" :> text), Says(x, "value" :> text)))
  BY <1>7, FieldSound
<1>8. Sound(t, credit_package_edit(t, x, text)) /\ Sound(t, provider_edit(t, x, text))
  BY <1>1, <1>7 DEF credit_package_edit, provider_edit, Locked, Inputs
<1>9. Sound(t, ai_mode_edit(s, t, x, text)) /\ Sound(t, edit_plan_field(s, t, x, text))
  BY <1>1, <1>7, PricedIsText DEF ai_mode_edit, edit_plan_field, Locked
<1>10. Sound(t, promo_edit_field(s, t, x, text))
  <2>1. ASSUME Exists(t, x), text \in Texts, ~Conflict(t, x, text)
        PROVE  Sound(t, Done(Put(t, x, "code" :> text), Says(x, "code" :> text)))
    BY <2>1, FieldSound DEF Conflict
  <2> QED
    BY <1>1, <2>1 DEF promo_edit_field, Locked, Inputs
<1> QED
  BY <1>3, <1>4, <1>5, <1>6, <1>8, <1>9, <1>10

\* And those on plans, and on the plan of a promo.
LEMMA PlanCallsSound ==
  ASSUME NEW s, NEW t, IsTables(t), Apart(t), NEW x \in Rows
  PROVE  /\ x \in Of("plan") => Sound(t, plan_delete(s, t, x)) /\ Sound(t, delete_plan(t, x))
         /\ \A text \in Inputs, plan \in Plans : Sound(t, promo_create(s, t, x, text, plan))
         /\ \A plan \in Of("plan") : Sound(t, promo_set_plan(s, t, x, plan))
<1>1. Sound(t, Refused) /\ Sound(t, Broken)
  BY NotesSound
<1>2. ASSUME x \in Of("plan") PROVE Sound(t, plan_delete(s, t, x)) /\ Sound(t, delete_plan(t, x))
  BY <1>1, <1>2, DeleteSound DEF plan_delete, delete_plan, Locked
<1>3. ASSUME NEW text \in Inputs, NEW plan \in Plans PROVE Sound(t, promo_create(s, t, x, text, plan))
  BY <1>1, NewSound DEF promo_create
<1>4. ASSUME NEW plan \in Of("plan") PROVE Sound(t, promo_set_plan(s, t, x, plan))
  <2>1. Exists(t, x) => Sound(t, Done(Put(t, x, "plan" :> plan), Says(x, "plan" :> plan)))
    BY FieldSound
  <2> QED
    BY <1>1, <2>1 DEF promo_set_plan
<1> QED
  BY <1>2, <1>3, <1>4

\* Settings, singly, by their switches and by a page of the web panel.
LEMMA SettingCallsSound ==
  ASSUME NEW s, NEW t, IsTables(t), Apart(t)
  PROVE  /\ \A key, v : Sound(t, set_setting(s, t, key, v)) /\ Sound(t, toggle_setting(s, t, key, v))
         /\ Sound(t, legal_toggle(s, t))
         /\ \A form : Sound(t, update_settings_group(s, t, form))
<1>1. Sound(t, Refused)
  BY NotesSound
<1>2. ASSUME NEW key, NEW v PROVE Sound(t, set_setting(s, t, key, v))
  BY <1>1, SettingsSound DEF set_setting
<1>3. ASSUME NEW key, NEW v PROVE Sound(t, toggle_setting(s, t, key, v))
  BY <1>2 DEF toggle_setting
<1>4. Sound(t, legal_toggle(s, t))
  BY <1>1, <1>3 DEF legal_toggle
<1>5. ASSUME NEW form PROVE Sound(t, update_settings_group(s, t, form))
  BY <1>1, SettingsSound DEF update_settings_group
<1> QED
  BY <1>2, <1>3, <1>4, <1>5

-----------------------------------------------------------------------------
(* The methods of the web panel.                                            *)

\* A form that overwrites some fields of its row and tells some of them.
LEMMA FormSound ==
  ASSUME NEW t, IsTables(t), Apart(t), NEW x \in Rows, Exists(t, x), NEW what, NEW said,
         what @@ t.rows[x] \in Row, DOMAIN said = DOMAIN what, DOMAIN what \subseteq Fields \ {"value"},
         \A f \in DOMAIN said : said[f] \in {Unknown, what[f]},
         "code" \in DOMAIN what => ~Taken(t, x, what["code"])
  PROVE  Sound(t, Done(Put(t, x, what), Says(x, said)))
<1> DEFINE row == what @@ t.rows[x]
<1>1. DOMAIN t.rows[x] = Fields
  BY ExistingRow, RowShape
<1>2. \A f \in Fields : row[f] = IF f \in DOMAIN what THEN what[f] ELSE t.rows[x][f]
  BY <1>1 DEF @@
<1>3. row \in Row
  OBVIOUS
<1>4. Put(t, x, what) = [t EXCEPT !.rows[x] = row]
  BY PutWrites
<1> HIDE DEF row
<1>5. row.code = t.rows[x].code \/ ~Taken(t, x, row.code)
  BY <1>2 DEF Fields
<1>6. /\ \A f \in DOMAIN said : said[f] \in {Unknown, row[f]}
      /\ \A f \in Fields \ DOMAIN said : row[f] = t.rows[x][f]
      /\ "value" \notin DOMAIN said /\ DOMAIN said \subseteq Fields
  BY <1>2
<1>7. Sound(t, Done([t EXCEPT !.rows[x] = row], Says(x, said)))
  BY <1>3, <1>5, <1>6, SaysSound
<1> QED
  BY <1>4, <1>7

\* The forms of the web panel that carry a row.
LEMMA FormCallsSound ==
  ASSUME NEW s, NEW t, IsTables(t), Apart(t), NEW x \in Rows, NEW text \in Inputs,
         NEW on \in BOOLEAN, NEW mark \in BOOLEAN, NEW plan \in Plans
  PROVE  /\ Sound(t, create_plan(s, t, x, text, on)) /\ Sound(t, update_plan(t, x, text, on, mark))
         /\ Sound(t, create_ai_pricing(s, t, x, text, on)) /\ Sound(t, update_ai_pricing(t, x, text, on))
         /\ Sound(t, update_provider(t, x, text, on, mark))
         /\ Sound(t, create_promo(s, t, x, text, on, plan)) /\ Sound(t, update_promo(s, t, x, text, on, plan))
         /\ Sound(t, create_admin(s, t, x, text))
<1>1. Sound(t, Refused) /\ Sound(t, Broken) /\ Broken \in {Refused, Broken}
  BY NotesSound
<1>2. Sound(t, create_plan(s, t, x, text, on)) /\ Sound(t, create_ai_pricing(s, t, x, text, on))
  <2> DEFINE row == [New(text, None, None) EXCEPT !.on = on]
             said == [code |-> text]
  <2>1. row.code = text /\ (text # Bad => row \in Row)
    BY DEF New, Row, Inputs
  <2>2. DOMAIN said = {"code"} /\ said["code"] = text
    OBVIOUS
  <2> HIDE DEF row, said
  <2>3. DOMAIN said \subseteq Fields \ {"value"} /\ \A f \in DOMAIN said : said[f] = row[f]
    BY <2>1, <2>2 DEF Fields
  <2>4. Sound(t, Insert(s, t, x, row, said, Broken))
    BY <1>1, <2>1, <2>3, InsertSound
  <2> QED
    BY <2>4 DEF create_plan, create_ai_pricing, row, said
<1>3. ASSUME Exists(t, x), NEW m \in {mark, Unknown}
      PROVE  Sound(t, Done(Put(t, x, [on |-> on, mark |-> mark]), Says(x, [on |-> on, mark |-> m])))
  <2> DEFINE what == [on |-> on, mark |-> mark]
             said == [on |-> on, mark |-> m]
  <2>1. t.rows[x] \in Row
    BY <1>3, ExistingRow
  <2>2. what @@ t.rows[x] \in Row
    BY <2>1 DEF Row, @@
  <2>3. /\ DOMAIN what = {"on", "mark"} /\ DOMAIN said = {"on", "mark"}
        /\ what["on"] = on /\ said["on"] = on /\ what["mark"] = mark /\ said["mark"] = m
    OBVIOUS
  <2> HIDE DEF what, said
  <2>4. \A f \in DOMAIN said : said[f] \in {Unknown, what[f]}
    BY <2>3, <1>3
  <2>5. DOMAIN what \subseteq Fields \ {"value"} /\ "code" \notin DOMAIN what
    BY <2>3 DEF Fields
  <2>6. Sound(t, Done(Put(t, x, what), Says(x, said)))
    BY <1>3, <2>2, <2>3, <2>4, <2>5, FormSound
  <2> QED
    BY <2>6 DEF what, said
<1>4. Sound(t, update_plan(t, x, text, on, mark)) /\ Sound(t, update_provider(t, x, text, on, mark))
  BY <1>1, <1>3 DEF update_plan, update_provider, Locked
<1>5. Sound(t, update_ai_pricing(t, x, text, on))
  <2>1. Exists(t, x) => Sound(t, Done(Put(t, x, "on" :> on), Says(x, "on" :> on)))
    BY FieldSound
  <2> QED
    BY <1>1, <2>1 DEF update_ai_pricing, Locked
<1>6. Sound(t, create_promo(s, t, x, text, on, plan))
  <2> DEFINE row == Promo(text, on, plan) @@ New(text, None, None)
             said == [code |-> text, on |-> on]
  <2>1. row.code = text /\ row.on = on
    BY DEF Promo, New, @@
  <2>2. text # Bad => row \in Row
    <3>1. text # Bad => New(text, None, None) \in Row
      BY NewRow DEF Inputs
    <3> QED
      BY <3>1 DEF Promo, Row, @@, Inputs, Plans
  <2>3. DOMAIN said = {"code", "on"} /\ said["code"] = text /\ said["on"] = on
    OBVIOUS
  <2> HIDE DEF row, said
  <2>4. DOMAIN said \subseteq Fields \ {"value"} /\ \A f \in DOMAIN said : said[f] = row[f]
    BY <2>1, <2>3 DEF Fields
  <2>5. Sound(t, Insert(s, t, x, row, said, Broken))
    BY <1>1, <2>1, <2>2, <2>4, InsertSound
  <2> QED
    BY <1>1, <2>5 DEF create_promo, row, said
<1>7. ASSUME Exists(t, x), text \in Texts, ~Taken(t, x, text)
      PROVE  Sound(t, Done(Put(t, x, Promo(text, on, plan)),
                           Says(x, [code |-> text, on |-> on, plan |-> Unknown])))
  <2> DEFINE what == Promo(text, on, plan)
             said == [code |-> text, on |-> on, plan |-> Unknown]
  <2>1. t.rows[x] \in Row
    BY <1>7, ExistingRow
  <2>2. what @@ t.rows[x] \in Row
    BY <1>7, <2>1 DEF Promo, Row, @@, Plans
  <2>3. /\ DOMAIN what = {"code", "on", "plan"} /\ DOMAIN said = {"code", "on", "plan"}
        /\ what["code"] = text /\ said["code"] = text
        /\ what["on"] = on /\ said["on"] = on /\ said["plan"] = Unknown
    BY DEF Promo
  <2> HIDE DEF what, said
  <2>4. \A f \in DOMAIN said : said[f] \in {Unknown, what[f]}
    BY <2>3
  <2>5. DOMAIN what \subseteq Fields \ {"value"}
    BY <2>3 DEF Fields
  <2>6. Sound(t, Done(Put(t, x, what), Says(x, said)))
    BY <1>7, <2>2, <2>3, <2>4, <2>5, FormSound
  <2> QED
    BY <2>6 DEF what, said
<1>8. Sound(t, update_promo(s, t, x, text, on, plan))
  BY <1>1, <1>7 DEF update_promo, Locked, Conflict, Inputs
<1>9. Sound(t, create_admin(s, t, x, text))
  BY <1>1, NewSound DEF create_admin, Plans
<1> QED
  BY <1>2, <1>4, <1>5, <1>6, <1>8, <1>9

\* The card of a user in the web panel.
LEMMA UserCallsSound ==
  ASSUME NEW s, NEW t, IsTables(t), Apart(t), NEW x \in Rows, NEW text
  PROVE  /\ Sound(t, resolve_error_event(t, x)) /\ Sound(t, reset_trial(t, x))
         /\ Sound(t, allow_new_trial(t, x, text)) /\ Sound(t, grant_subscription(s, t, x, text))
         /\ Sound(t, extend_days(t, x, text)) /\ Sound(t, add_requests(t, x, text))
         /\ Sound(t, cancel_subscription(t, x))
         /\ text \in Of("plan") => Sound(t, change_plan(s, t, x, text))
         /\ text \in BOOLEAN => Sound(t, set_blocked(t, x, text))
<1>1. /\ Sound(t, Refused) /\ Sound(t, Broken) /\ Sound(t, Done(t, Notes))
      /\ Sound(t, Done([t EXCEPT !.active = FALSE], Notes))
      /\ \A plan \in Of("plan") : Sound(t, Done([t EXCEPT !.sub = plan], Notes))
  BY NotesSound
<1>2. ASSUME Exists(t, x)
      PROVE  /\ Sound(t, Done(Put(t, x, "on" :> TRUE), Says(x, "on" :> TRUE)))
             /\ Sound(t, Done(Put(t, x, "mark" :> FALSE), Says(x, "mark" :> FALSE)))
             /\ \A v \in BOOLEAN : Sound(t, Done(Put(t, x, "on" :> v), Says(x, "on" :> v)))
  BY <1>2, FieldSound
<1>3. Sound(t, resolve_error_event(t, x)) /\ Sound(t, reset_trial(t, x))
  BY <1>1, <1>2 DEF resolve_error_event, reset_trial, Locked
<1>4. Sound(t, allow_new_trial(t, x, text))
  BY <1>1, <1>3 DEF allow_new_trial
<1>5. Sound(t, grant_subscription(s, t, x, text))
  BY <1>1 DEF grant_subscription, Locked
<1>6. Sound(t, extend_days(t, x, text)) /\ Sound(t, add_requests(t, x, text))
  BY <1>1 DEF extend_days, add_requests, WithSubscription, Locked
<1>7. Sound(t, cancel_subscription(t, x))
  BY <1>1 DEF cancel_subscription, WithSubscription, Locked
<1>8. text \in Of("plan") => Sound(t, change_plan(s, t, x, text))
  BY <1>1 DEF change_plan, WithSubscription, Locked
<1>9. text \in BOOLEAN => Sound(t, set_blocked(t, x, text))
  BY <1>1, <1>2 DEF set_blocked, Locked
<1> QED
  BY <1>3, <1>4, <1>5, <1>6, <1>7, <1>8, <1>9

-----------------------------------------------------------------------------
(* Calls as the buttons, the answers and the forms make them.               *)

SwitchMethods ==
  {"add_user_credits", "remove_user_credits", "set_user_blocked", "reset_user_trial", "grant_plan",
   "ai_mode_toggle", "pricing_update", "toggle_plan", "toggle_plan_recommended",
   "promo_set_validity_days", "promo_set_scope", "promo_toggle", "resolve_error"}

BroadcastMethods ==
  {"broadcast_create", "broadcast_set_buttons", "broadcast_schedule", "broadcast_start", "broadcast_stop"}

TextMethods ==
  {"credit_package_create", "credit_package_edit", "ai_mode_edit", "pricing_add", "plan_create",
   "edit_plan_field", "provider_edit", "promo_create_credits", "promo_edit_field"}

PanelLegal(c) ==
  \/ c[1] \in {"set_setting", "toggle_setting", "legal_toggle"}
  \/ c[1] \in SwitchMethods \cup BroadcastMethods /\ c[2] \in Rows
  \/ c[1] \in TextMethods /\ c[2] \in Rows /\ c[3] \in Inputs
  \/ c[1] \in {"credit_package_toggle", "provider_toggle"} /\ c[2] \in Rows /\ c[3] \in {"on", "mark"}
  \/ c[1] = "plan_delete" /\ c[2] \in Of("plan")
  \/ c[1] = "promo_create" /\ c[2] \in Rows /\ c[3][1] \in Inputs /\ c[3][2] \in Plans
  \/ c[1] = "promo_set_plan" /\ c[2] \in Rows /\ c[3] \in Of("plan")
  \/ c[1] = "send_direct_message" /\ c[2] \in Of("user")

CardMethods ==
  {"resolve_error_event", "reset_trial", "allow_new_trial", "grant_subscription", "extend_days",
   "add_requests", "cancel_subscription"}

WebLegal(c) ==
  \/ c[1] = "update_settings_group"
  \/ c[1] \in CardMethods /\ c[2] \in Rows
  \/ c[1] = "change_plan" /\ c[2] \in Rows /\ c[3] \in Of("plan")
  \/ c[1] = "set_blocked" /\ c[2] \in Rows /\ c[3] \in BOOLEAN
  \/ c[1] = "delete_plan" /\ c[2] \in Of("plan")
  \/ c[1] = "create_admin" /\ c[2] \in Rows /\ c[3] \in Inputs
  \/ /\ c[1] \in {"create_plan", "create_ai_pricing", "update_ai_pricing"} /\ c[2] \in Rows
     /\ c[3][1] \in Inputs /\ c[3][2] \in BOOLEAN
  \/ /\ c[1] \in {"update_plan", "update_provider"} /\ c[2] \in Rows
     /\ c[3][1] \in Inputs /\ c[3][2] \in BOOLEAN /\ c[3][3] \in BOOLEAN
  \/ /\ c[1] \in {"create_promo", "update_promo"} /\ c[2] \in Rows
     /\ c[3][1] \in Inputs /\ c[3][2] \in BOOLEAN /\ c[3][3] \in Plans
  \/ c[1] = "send_message" /\ c[2] \in Of("user")

\* A transaction ends in order, or a message waits for Telegram.
Orderly(c, s, t, o) ==
  \/ Sound(t, o)
  \/ o.end = "pending" /\ c[2] \in Of("user") /\ Exists(s, c[2])

\* A legal call of the Telegram panel ends in order.
LEMMA PanelOrderly ==
  ASSUME NEW c, NEW s, IsTables(s), NEW t, IsTables(t), Apart(t), PanelLegal(c)
  PROVE  Orderly(c, s, t, PanelOutcome(c, s, t))
<1>1. CASE c[1] \in {"set_setting", "toggle_setting", "legal_toggle"}
  BY <1>1, SettingCallsSound DEF PanelOutcome, Orderly
<1>2. CASE c[1] \in SwitchMethods /\ c[2] \in Rows
  BY <1>2, SwitchCallsSound DEF PanelOutcome, SwitchMethods, Orderly
<1>3. CASE c[1] \in BroadcastMethods /\ c[2] \in Rows
  BY <1>3, BroadcastCallsSound DEF PanelOutcome, BroadcastMethods, Orderly
<1>4. CASE c[1] \in TextMethods /\ c[2] \in Rows /\ c[3] \in Inputs
  BY <1>4, TextCallsSound DEF PanelOutcome, TextMethods, Orderly
<1>5. CASE c[1] \in {"credit_package_toggle", "provider_toggle"} /\ c[2] \in Rows /\ c[3] \in {"on", "mark"}
  BY <1>5, SwitchCallsSound DEF PanelOutcome, Orderly
<1>6. CASE \/ c[1] = "plan_delete" /\ c[2] \in Of("plan")
           \/ c[1] = "promo_create" /\ c[2] \in Rows /\ c[3][1] \in Inputs /\ c[3][2] \in Plans
           \/ c[1] = "promo_set_plan" /\ c[2] \in Rows /\ c[3] \in Of("plan")
  BY <1>6, PlanCallsSound DEF PanelOutcome, Of, Orderly
<1>7. CASE c[1] = "send_direct_message" /\ c[2] \in Of("user")
  BY <1>7, NotesSound DEF PanelOutcome, Attempt, Orderly
<1> QED
  BY <1>1, <1>2, <1>3, <1>4, <1>5, <1>6, <1>7 DEF PanelLegal

\* A legal form of the web panel ends in order.
LEMMA WebOrderly ==
  ASSUME NEW c, NEW s, NEW t, IsTables(t), Apart(t), WebLegal(c)
  PROVE  Orderly(c, s, t, WebOutcome(c, s, t))
<1>1. CASE c[1] = "update_settings_group"
  BY <1>1, SettingCallsSound DEF WebOutcome, Orderly
<1>2. CASE \/ c[1] \in CardMethods /\ c[2] \in Rows
           \/ c[1] = "change_plan" /\ c[2] \in Rows /\ c[3] \in Of("plan")
           \/ c[1] = "set_blocked" /\ c[2] \in Rows /\ c[3] \in BOOLEAN
  BY <1>2, UserCallsSound DEF WebOutcome, CardMethods, Orderly
<1>3. CASE c[1] = "delete_plan" /\ c[2] \in Of("plan")
  BY <1>3, PlanCallsSound DEF WebOutcome, Of, Orderly
<1>4. None \in Plans /\ TRUE \in BOOLEAN
  BY DEF Plans
<1>5. CASE \/ c[1] = "create_admin" /\ c[2] \in Rows /\ c[3] \in Inputs
           \/ /\ c[1] \in {"create_plan", "create_ai_pricing", "update_ai_pricing"} /\ c[2] \in Rows
              /\ c[3][1] \in Inputs /\ c[3][2] \in BOOLEAN
           \/ /\ c[1] \in {"update_plan", "update_provider"} /\ c[2] \in Rows
              /\ c[3][1] \in Inputs /\ c[3][2] \in BOOLEAN /\ c[3][3] \in BOOLEAN
           \/ /\ c[1] \in {"create_promo", "update_promo"} /\ c[2] \in Rows
              /\ c[3][1] \in Inputs /\ c[3][2] \in BOOLEAN /\ c[3][3] \in Plans
  BY <1>4, <1>5, FormCallsSound DEF WebOutcome, Orderly
<1>6. CASE c[1] = "send_message" /\ c[2] \in Of("user")
  BY <1>6, NotesSound DEF WebOutcome, Attempt, Orderly
<1> QED
  BY <1>1, <1>2, <1>3, <1>5, <1>6 DEF WebLegal

-----------------------------------------------------------------------------
(* The inductive invariant.                                                 *)

\* The questions that are about a row.
RowQuestions == DOMAIN AnsweredBy \ {"credit_package_add", "plan_add", "setting_edit", "pricing_add", "promo_add"}

RowFits(action, row) ==
  /\ action \in RowQuestions => row \in Rows
  /\ action = "user_message" => row \in Of("user")

\* What the bot keeps for the administrator is of use to whoever reads it.
DataOK(data) ==
  /\ "action" \in DOMAIN data =>
       /\ RowFits(data.action, data.row)
       /\ data.action \in RowQuestions => "row" \in DOMAIN data
  /\ "code" \in DOMAIN data => data["code"] \in Texts

FsmOK ==
  /\ DOMAIN fsm = {"state", "data"}
  /\ fsm.state \in {"none", "waiting", "content", "audience"}
  /\ DataOK(fsm.data)

\* Users are never deleted.
UsersStay(t, u) == \A x \in Of("user") : Exists(t, x) => Exists(u, x)

WorkFields == {"pc", "by", "call", "id", "snap", "clears", "answer"}

\* A transaction that has begun makes a call one may make, on tables whose users
\* are still there; a message that is called has its row.
WorkOK(w, t, kept, accepted) ==
  /\ DOMAIN w = WorkFields
  /\ w.pc \in Statuses
  /\ w.pc = "reading" => w.by = "bot"
  /\ w.pc = "updating" =>
       /\ w.answer[1] \in DOMAIN WizardFields /\ WizardFields[w.answer[1]] = "code"
       /\ w.answer[2] \in Texts
  /\ w.pc = "begun" =>
       /\ IsTables(w.snap) /\ UsersStay(w.snap, t)
       /\ IF w.by = "web" THEN WebLegal(w.call) ELSE PanelLegal(w.call)
  /\ w.pc \in {"calling", "answered"} =>
       /\ w.id \in kept
       /\ w.call[2] \in Of("user") /\ Exists(t, w.call[2])
  /\ w.pc = "answered" /\ w.answer = "sent" => w.id \in accepted

TasksOK ==
  /\ DOMAIN task = Tasks
  /\ \A k \in Tasks : WorkOK(task[k], db, DOMAIN mail, delivered)

MailOK ==
  /\ MessagesAreRecorded
  /\ \A m \in DOMAIN mail : mail[m] \in {"pending", "sent", "failed"}

TablesOK == IsTables(db) /\ Apart(db) /\ Tells(book, db)

CountsOK == begun \in 0..MaxUpdates /\ crashes \in 0..MaxCrashes

IInv == TablesOK /\ FsmOK /\ TasksOK /\ MailOK /\ CountsOK

-----------------------------------------------------------------------------
(* Buttons, questions and forms.                                            *)
LEMMA TripleOf ==
  ASSUME NEW a, NEW b, NEW c
  PROVE  <<a, b, c>>[1] = a /\ <<a, b, c>>[2] = b /\ <<a, b, c>>[3] = c
OBVIOUS

\* Every button that changes something makes a legal call.
LEMMA ActsLegal == ASSUME NEW c \in Acts PROVE PanelLegal(c)
<1>0. c \in ReferralButtons.acts \cup SettingButtons.acts \cup LegalButtons.acts =>
        c[1] \in {"toggle_setting", "legal_toggle"}
  <2>1. CASE c = <<"toggle_setting", <<"setting", "referral.enabled">>, TRUE>>
    BY <2>1, TripleOf
  <2>2. CASE c = <<"toggle_setting", <<"setting", "service.maintenance_mode">>, FALSE>>
    BY <2>2, TripleOf
  <2>3. CASE c = <<"legal_toggle", <<"setting", "legal.enabled">>, None>>
    BY <2>3, TripleOf
  <2> QED
    BY <2>1, <2>2, <2>3 DEF ReferralButtons, SettingButtons, LegalButtons
<1> USE DEF Calls, Plain, PanelLegal, SwitchMethods, BroadcastMethods, TextMethods, Of
<1>1. c \in UserButtons.acts => PanelLegal(c)
  BY DEF UserButtons
<1>2. c \in CreditButtons.acts => PanelLegal(c)
  BY DEF CreditButtons
<1>3. c \in PlanButtons.acts => PanelLegal(c)
  BY DEF PlanButtons
<1>4. c \in AIButtons.acts => PanelLegal(c)
  BY DEF AIButtons
<1>5. c \in ProviderButtons.acts => PanelLegal(c)
  BY DEF ProviderButtons
<1>6. c \in PromoButtons.acts => PanelLegal(c)
  BY DEF PromoButtons
<1>7. c \in ReferralButtons.acts \cup SettingButtons.acts \cup LegalButtons.acts => PanelLegal(c)
  BY <1>0
<1>8. c \in BroadcastButtons.acts => PanelLegal(c)
  BY DEF BroadcastButtons
<1>9. c \notin EditButtons.acts
  BY DEF EditButtons
<1>10. c \in ErrorButtons.acts => PanelLegal(c)
  BY DEF ErrorButtons
<1> QED
  BY <1>1, <1>2, <1>3, <1>4, <1>5, <1>6, <1>7, <1>8, <1>9, <1>10 DEF Acts, Sections

\* Every question is about a row that may be there.
LEMMA AsksFit == ASSUME NEW ask \in Asks PROVE RowFits(ask[1], ask[2])
<1> USE DEF RowFits, RowQuestions, AnsweredBy, Of
<1>1. ask \in UserButtons.asks => RowFits(ask[1], ask[2])
  BY DEF UserButtons
<1>2. ask \in CreditButtons.asks => RowFits(ask[1], ask[2])
  BY DEF CreditButtons
<1>3. ask \in PlanButtons.asks => RowFits(ask[1], ask[2])
  BY DEF PlanButtons
<1>4. ask \in AIButtons.asks => RowFits(ask[1], ask[2])
  BY DEF AIButtons
<1>5. ask \in ProviderButtons.asks => RowFits(ask[1], ask[2])
  BY DEF ProviderButtons
<1>6. ask \in PromoButtons.asks => RowFits(ask[1], ask[2])
  BY DEF PromoButtons
<1>7. ask \in BroadcastButtons.asks => RowFits(ask[1], ask[2])
  BY DEF BroadcastButtons
<1>8. ask \in LegalButtons.asks \cup EditButtons.asks => RowFits(ask[1], ask[2])
  BY DEF LegalButtons, EditButtons
<1>9. ask \notin ReferralButtons.asks /\ ask \notin SettingButtons.asks /\ ask \notin ErrorButtons.asks
  BY DEF ReferralButtons, SettingButtons, ErrorButtons
<1> QED
  BY <1>1, <1>2, <1>3, <1>4, <1>5, <1>6, <1>7, <1>8, <1>9 DEF Asks, Sections

\* An answer to a question that is about a row, or that makes one.
LEMMA AnswersLegal ==
  ASSUME NEW data, DataOK(data), "action" \in DOMAIN data, data.action \in DOMAIN AnsweredBy,
         NEW v \in Answers(data), NEW x,
         IF AnsweredBy[data.action] \in DOMAIN Creating THEN x \in Rows ELSE x = data.row
  PROVE  PanelLegal(<<AnsweredBy[data.action], x, v>>)
<1> DEFINE method == AnsweredBy[data.action]
           c == <<method, x, v>>
<1>1. c[1] = method /\ c[2] = x /\ c[3] = v
  OBVIOUS
<1>2. data.action # "setting_edit" => x \in Rows
  BY DEF DataOK, RowFits, RowQuestions, Creating, AnsweredBy
<1>3. data.action = "user_message" => x \in Of("user")
  BY DEF DataOK, RowFits, RowQuestions, Creating, AnsweredBy
<1>4. data.action \notin {"setting_edit", "promo_add"} => v \in Inputs
  BY DEF Answers
<1>5. data.action = "promo_add" => v[1] \in Inputs /\ v[2] \in Plans
  BY DEF Answers
<1>6. /\ data.action = "setting_edit" => method = "set_setting"
      /\ data.action = "user_message" => method = "send_direct_message"
      /\ data.action = "promo_add" => method = "promo_create"
      /\ data.action \notin {"setting_edit", "user_message", "promo_add"} =>
           method \in SwitchMethods \cup BroadcastMethods \cup TextMethods
  BY DEF AnsweredBy, SwitchMethods, BroadcastMethods, TextMethods
<1> HIDE DEF method, c
<1>7. PanelLegal(c)
  BY <1>1, <1>2, <1>3, <1>4, <1>5, <1>6 DEF PanelLegal
<1> QED
  BY <1>7 DEF c, method

\* What a form carries.
LEMMA FormsFilled ==
  /\ \A v \in Filled : v[1] \in Inputs /\ v[2] \in BOOLEAN
  /\ \A v \in Changed : v[1] \in Inputs /\ v[2] \in BOOLEAN /\ v[3] \in BOOLEAN
  /\ \A v \in Texts \X BOOLEAN \X Plans \cup {<<Bad, TRUE, None>>} :
       v[1] \in Inputs /\ v[2] \in BOOLEAN /\ v[3] \in Plans
<1>1. \A on \in BOOLEAN : <<Bad, on>>[1] = Bad /\ <<Bad, on>>[2] \in BOOLEAN
  OBVIOUS
<1>2. \A on, mark \in BOOLEAN : /\ <<Bad, on, mark>>[1] = Bad /\ <<Bad, on, mark>>[2] \in BOOLEAN
                                /\ <<Bad, on, mark>>[3] \in BOOLEAN
  OBVIOUS
<1>3. \A on \in BOOLEAN : /\ <<Bad, on, None>>[1] = Bad /\ <<Bad, on, None>>[2] \in BOOLEAN
                          /\ <<Bad, on, None>>[3] = None
  OBVIOUS
<1>4. TRUE \in BOOLEAN
  OBVIOUS
<1>5. ASSUME NEW v \in Filled PROVE v[1] \in Inputs /\ v[2] \in BOOLEAN
  <2>1. CASE v \in Texts \X BOOLEAN
    BY <2>1 DEF Inputs
  <2>2. CASE v = <<Bad, TRUE>>
    BY <1>1, <1>4, <2>2 DEF Inputs
  <2> QED
    BY <2>1, <2>2 DEF Filled
<1>6. ASSUME NEW v \in Changed PROVE v[1] \in Inputs /\ v[2] \in BOOLEAN /\ v[3] \in BOOLEAN
  <2>1. (CHOOSE text \in Texts : TRUE) \in Texts
    BY TablesAssumption
  <2>2. CASE v \in {CHOOSE text \in Texts : TRUE} \X BOOLEAN \X BOOLEAN
    BY <2>1, <2>2 DEF Inputs
  <2>3. CASE v = <<Bad, TRUE, TRUE>>
    BY <1>2, <1>4, <2>3 DEF Inputs
  <2> QED
    BY <2>2, <2>3 DEF Changed
<1>7. ASSUME NEW v \in Texts \X BOOLEAN \X Plans \cup {<<Bad, TRUE, None>>}
      PROVE  v[1] \in Inputs /\ v[2] \in BOOLEAN /\ v[3] \in Plans
  <2>1. CASE v \in Texts \X BOOLEAN \X Plans
    BY <2>1 DEF Inputs
  <2>2. CASE v = <<Bad, TRUE, None>>
    BY <1>3, <1>4, <2>2 DEF Inputs, Plans
  <2> QED
    BY <2>1, <2>2
<1> QED
  BY <1>5, <1>6, <1>7

\* Every form of the web panel is a legal call.
LEMMA FormsLegal ==
  ASSUME NEW c \in WebForms, NEW x, IF c[1] \in DOMAIN Creating THEN x \in Rows ELSE x = c[2]
  PROVE  WebLegal(<<c[1], x, c[3]>>)
<1> DEFINE d == <<c[1], x, c[3]>>
<1>1. d[1] = c[1] /\ d[2] = x /\ d[3] = c[3]
  OBVIOUS
<1> SUFFICES WebLegal(d)
  OBVIOUS
<1> HIDE DEF d
<1>2. CASE c \in UserForms
  BY <1>1, <1>2 DEF UserForms, Calls, Plain, WebLegal, CardMethods, Of, Creating
<1>3. CASE c \in PlanForms
  <2>1. CASE c \in Calls({"create_plan"}, {None}, Filled)
    BY <2>1, <1>1, FormsFilled DEF Calls, WebLegal, Creating
  <2>2. CASE c \in Calls({"update_plan"}, Of("plan"), Changed)
    BY <2>2, <1>1, FormsFilled DEF Calls, WebLegal, Creating, Of
  <2>3. CASE c \in Calls({"delete_plan"}, Of("plan"), Plain)
    BY <2>3, <1>1 DEF Calls, WebLegal, Creating
  <2> QED
    BY <1>3, <2>1, <2>2, <2>3 DEF PlanForms
<1>4. CASE c \in PricingForms
  BY <1>1, <1>4, FormsFilled DEF PricingForms, Calls, WebLegal, Creating, Of
<1>5. CASE c \in ProviderForms
  BY <1>1, <1>5, FormsFilled DEF ProviderForms, Calls, WebLegal, Creating, Of
<1>6. CASE c \in PromoForms
  <2>1. c[1] \in {"create_promo", "update_promo"} /\ c[3] \in Texts \X BOOLEAN \X Plans \cup {<<Bad, TRUE, None>>}
    BY <1>6 DEF PromoForms, Calls
  <2>2. c[1] = "update_promo" => c[2] \in Rows
    BY <1>6 DEF PromoForms, Calls, Of
  <2> QED
    BY <1>1, <2>1, <2>2, FormsFilled DEF WebLegal, Creating
<1>7. CASE c \in SettingForms
  BY <1>1, <1>7 DEF SettingForms, Calls, WebLegal
<1>8. CASE c \in Calls({"resolve_error_event"}, Of("error"), Plain)
  BY <1>1, <1>8 DEF Calls, WebLegal, CardMethods, Creating, Of
<1>9. CASE c \in Calls({"create_admin"}, {None}, Inputs)
  BY <1>1, <1>9 DEF Calls, WebLegal, Creating
<1> QED
  BY <1>2, <1>3, <1>4, <1>5, <1>6, <1>7, <1>8, <1>9 DEF WebForms

-----------------------------------------------------------------------------
(* Every step keeps the invariant and the plans in use.                     *)
StepKeeps == IInv' /\ UseKept(db, db')

\* What a task knows stays true while users stay and messages are only added.
LEMMA WorkStays ==
  ASSUME NEW w, NEW t, NEW u, NEW kept, NEW kept2, NEW accepted, NEW accepted2,
         WorkOK(w, t, kept, accepted), UsersStay(t, u), kept \subseteq kept2, accepted \subseteq accepted2
  PROVE  WorkOK(w, u, kept2, accepted2)
BY DEF WorkOK, UsersStay

\* A task that is over, or has only to clear the wizard, owes nothing.
LEMMA RestingWork ==
  ASSUME NEW t, NEW kept, NEW accepted
  PROVE  /\ WorkOK(Idle, t, kept, accepted)
         /\ WorkOK([Idle EXCEPT !.pc = "clearing"], t, kept, accepted)
BY DEF WorkOK, Idle, WorkFields, Statuses

\* One task moves, the others find users and messages as they need them.
LEMMA TasksStep ==
  ASSUME TasksOK, NEW k \in Tasks, NEW w, task' = [task EXCEPT ![k] = w],
         WorkOK(w, db', DOMAIN mail', delivered'), UsersStay(db, db'),
         DOMAIN mail \subseteq DOMAIN mail', delivered \subseteq delivered'
  PROVE  TasksOK'
<1>1. DOMAIN task' = Tasks /\ task'[k] = w /\ \A j \in Tasks \ {k} : task'[j] = task[j]
  BY DEF TasksOK
<1>2. \A j \in Tasks \ {k} : WorkOK(task[j], db', DOMAIN mail', delivered')
  BY WorkStays DEF TasksOK
<1> QED
  BY <1>1, <1>2 DEF TasksOK

\* A step that only moves a task, and perhaps the wizard.
LEMMA QuietStep ==
  ASSUME IInv, NEW k \in Tasks, NEW w, task' = [task EXCEPT ![k] = w],
         WorkOK(w, db, DOMAIN mail, delivered), FsmOK', CountsOK',
         UNCHANGED <<db, book, mail, delivered>>
  PROVE  StepKeeps
<1>1. UsersStay(db, db') /\ UseKept(db, db')
  BY DEF UsersStay, UseKept
<1>2. TasksOK'
  BY <1>1, TasksStep DEF IInv
<1>3. TablesOK' /\ MailOK'
  BY DEF IInv, TablesOK, MailOK, MessagesAreRecorded
<1> QED
  BY <1>1, <1>2, <1>3 DEF IInv, StepKeeps

\* The wizard is left alone, or given up.
LEMMA SameFsm == ASSUME IInv, UNCHANGED fsm PROVE FsmOK'
BY DEF IInv, FsmOK

\* A wizard that was given up asks nothing.
LEMMA NoWizardOK == ASSUME fsm' = NoWizard PROVE FsmOK'
<1>1. DOMAIN NoWizard.data = {} /\ NoWizard.state = "none" /\ DOMAIN NoWizard = {"state", "data"}
  BY DEF NoWizard
<1> QED
  BY <1>1 DEF FsmOK, DataOK

\* The bounds hold while nothing is counted.
LEMMA SameCounts == ASSUME IInv, UNCHANGED <<begun, crashes>> PROVE CountsOK'
BY DEF IInv, CountsOK

\* An update or a request that begins.
LEMMA StartStep ==
  ASSUME IInv, NEW k \in Tasks, NEW how, Start(k, how), DOMAIN how \subseteq WorkFields,
         UNCHANGED <<db, book, mail, delivered, crashes>>, FsmOK',
         \A w : /\ DOMAIN w = WorkFields
                /\ \A f \in DOMAIN how : w[f] = how[f]
                /\ \A f \in WorkFields \ (DOMAIN how \cup {"id"}) : w[f] = Idle[f]
                => WorkOK(w, db, DOMAIN mail, delivered)
  PROVE  StepKeeps
<1> DEFINE base == [Idle EXCEPT !.id = begun]
           w == how @@ base
<1>1. DOMAIN base = WorkFields /\ \A f \in WorkFields \ {"id"} : base[f] = Idle[f]
  BY DEF Idle, WorkFields
<1>2. task' = [task EXCEPT ![k] = w] /\ begun' = begun + 1 /\ begun < MaxUpdates
  BY DEF Start
<1> HIDE DEF base
<1>3. /\ DOMAIN w = WorkFields
      /\ \A f \in DOMAIN how : w[f] = how[f]
      /\ \A f \in WorkFields \ (DOMAIN how \cup {"id"}) : w[f] = Idle[f]
  BY <1>1 DEF @@
<1> HIDE DEF w
<1>4. WorkOK(w, db, DOMAIN mail, delivered)
  BY <1>3
<1>5. CountsOK'
  BY <1>2, AdministrationAssumption DEF IInv, CountsOK
<1> QED
  BY <1>2, <1>4, <1>5, QuietStep

\* The wizard after a button.
LEMMA QuestionOK ==
  ASSUME NEW ask \in Asks
  PROVE  LET q == Question(ask) IN
         /\ DOMAIN q = {"state", "data"} /\ q.state \in {"none", "waiting", "content", "audience"}
         /\ DataOK(q.data)
<1>1. CASE ask[1] = "broadcast_content"
  <2>1. Question(ask) = [NoWizard EXCEPT !.state = "content"]
    BY <1>1 DEF Question
  <2>2. /\ DOMAIN Question(ask) = {"state", "data"} /\ Question(ask).state = "content"
        /\ DOMAIN Question(ask).data = {}
    BY <2>1 DEF NoWizard
  <2> QED
    BY <2>2 DEF DataOK
<1>2. CASE ask[1] = "promo_create"
  <2> DEFINE data == [action |-> WizardFields[1]]
  <2>1. Question(ask) = Waiting(data)
    BY <1>2 DEF Question
  <2>2. DOMAIN data = {"action"} /\ data.action = WizardFields[1]
    OBVIOUS
  <2> HIDE DEF data
  <2>3. WizardFields[1] \notin DOMAIN AnsweredBy
    BY FieldsAssumption, AdministrationAssumption
  <2>4. DataOK(data)
    BY <2>2, <2>3 DEF DataOK, RowFits, RowQuestions, AnsweredBy
  <2> QED
    BY <2>1, <2>4 DEF Waiting
<1>3. CASE ask[1] \notin {"broadcast_content", "promo_create"}
  <2> DEFINE data == [action |-> ask[1], row |-> ask[2]]
  <2>1. Question(ask) = Waiting(data)
    BY <1>3 DEF Question
  <2>2. DOMAIN data = {"action", "row"} /\ data.action = ask[1] /\ data.row = ask[2]
    OBVIOUS
  <2> HIDE DEF data
  <2>3. DataOK(data)
    BY <2>2, AsksFit DEF DataOK
  <2> QED
    BY <2>1, <2>3 DEF Waiting
<1> QED
  BY <1>1, <1>2, <1>3

\* An update that is over as soon as it began.
LEMMA IdleStep ==
  ASSUME IInv, NEW k \in Tasks, Start(k, Idle), FsmOK',
         UNCHANGED <<db, book, mail, delivered, crashes>>
  PROVE  StepKeeps
<1>1. DOMAIN Idle = WorkFields
  BY DEF Idle, WorkFields
<1>2. ASSUME NEW w, DOMAIN w = WorkFields, \A f \in DOMAIN Idle : w[f] = Idle[f]
      PROVE  WorkOK(w, db, DOMAIN mail, delivered)
  BY <1>1, <1>2 DEF WorkOK, Idle, WorkFields, Statuses
<1> QED
  BY <1>1, <1>2, StartStep

\* A button that asks, and the way home.
LEMMA AskStep == ASSUME IInv, NEW k \in Tasks, Ask(k) \/ Home(k) PROVE StepKeeps
<1>1. FsmOK'
  <2>1. CASE Ask(k)
    BY <2>1, QuestionOK DEF Ask, Offered, FsmOK
  <2>2. CASE Home(k)
    BY <2>2, NoWizardOK DEF Home
  <2> QED
    BY <2>1, <2>2
<1>2. Start(k, Idle) /\ UNCHANGED <<db, book, mail, delivered, crashes>>
  BY DEF Ask, Home
<1> QED
  BY <1>1, <1>2, IdleStep

\* A call of the Telegram panel, and a form of the web panel.
LEMMA BeginsOK ==
  ASSUME IInv, NEW w, DOMAIN w = WorkFields, w.pc = "begun", w.snap = db,
         IF w.by = "web" THEN WebLegal(w.call) ELSE PanelLegal(w.call)
  PROVE  WorkOK(w, db, DOMAIN mail, delivered)
BY DEF WorkOK, IInv, TablesOK, UsersStay, Statuses

\* A button that changes something.
LEMMA ActStep == ASSUME IInv, NEW k \in Tasks, Act(k) PROVE StepKeeps
<1>1. PICK c \in Acts : Start(k, [pc |-> "begun", call |-> c, snap |-> db])
  BY DEF Act, Offered
<1> DEFINE how == [pc |-> "begun", call |-> c, snap |-> db]
<1>2. DOMAIN how = {"pc", "call", "snap"} /\ how["pc"] = "begun" /\ how["call"] = c /\ how["snap"] = db
  OBVIOUS
<1>3. Start(k, how)
  BY <1>1
<1> HIDE DEF how
<1>4. PanelLegal(c)
  BY ActsLegal
<1>5. ASSUME NEW w, DOMAIN w = WorkFields, \A f \in DOMAIN how : w[f] = how[f],
             \A f \in WorkFields \ (DOMAIN how \cup {"id"}) : w[f] = Idle[f]
      PROVE  WorkOK(w, db, DOMAIN mail, delivered)
  <2>1. w.pc = "begun" /\ w.call = c /\ w.snap = db /\ w.by = "bot"
    BY <1>2, <1>5 DEF WorkFields, Idle
  <2> QED
    BY <1>4, <1>5, <2>1, BeginsOK
<1>6. FsmOK' /\ UNCHANGED <<db, book, mail, delivered, crashes>>
  BY SameFsm DEF Act
<1> QED
  BY <1>2, <1>3, <1>5, <1>6, StartStep DEF WorkFields

\* The buttons that end a wizard: the call is made and the wizard is to be cleared.
LEMMA EndsWizard ==
  ASSUME IInv, NEW k \in Tasks, NEW c, PanelLegal(c), NEW clears \in BOOLEAN,
         Start(k, [pc |-> "begun", snap |-> db, clears |-> clears, call |-> c]),
         UNCHANGED <<db, book, fsm, mail, delivered, crashes>>
  PROVE  StepKeeps
<1> DEFINE how == [pc |-> "begun", snap |-> db, clears |-> clears, call |-> c]
<1>1. /\ DOMAIN how = {"pc", "call", "snap", "clears"}
      /\ how["pc"] = "begun" /\ how["call"] = c /\ how["snap"] = db
  OBVIOUS
<1>2. Start(k, how)
  OBVIOUS
<1> HIDE DEF how
<1>3. ASSUME NEW w, DOMAIN w = WorkFields, \A f \in DOMAIN how : w[f] = how[f],
             \A f \in WorkFields \ (DOMAIN how \cup {"id"}) : w[f] = Idle[f]
      PROVE  WorkOK(w, db, DOMAIN mail, delivered)
  <2>1. w.pc = "begun" /\ w.call = c /\ w.snap = db /\ w.by = "bot"
    BY <1>1, <1>3 DEF WorkFields, Idle
  <2> QED
    BY <1>3, <2>1, BeginsOK
<1>4. FsmOK'
  BY SameFsm
<1> QED
  BY <1>1, <1>2, <1>3, <1>4, StartStep DEF WorkFields

\* The row of a creation is one there may be.
LEMMA NextRowIsRow ==
  ASSUME NEW table, NEW x \in NextRow(table)
  PROVE  x \in Rows
BY DEF NextRow, Of

\* The last button of the wizard finds a code that was accepted, or nothing to do.
LEMMA ConfirmStep == ASSUME IInv, NEW k \in Tasks, Confirm(k) PROVE StepKeeps
<1>1. UNCHANGED <<db, book, fsm, mail, delivered, crashes>> /\ FsmOK'
  BY SameFsm DEF Confirm
<1>2. CASE Complete(fsm.data)
  <2>1. PICK x \in NextRow("promo") :
          Start(k, [pc |-> "begun", snap |-> db, clears |-> TRUE,
                    call |-> <<"promo_create_credits", x, fsm.data["code"]>>])
    BY <1>2 DEF Confirm
  <2>2. fsm.data["code"] \in Inputs
    BY <1>2, AdministrationAssumption DEF Complete, IInv, FsmOK, DataOK, Inputs
  <2>3. PanelLegal(<<"promo_create_credits", x, fsm.data["code"]>>)
    BY <2>2, NextRowIsRow, TripleOf DEF PanelLegal, TextMethods
  <2> QED
    BY <1>1, <2>1, <2>3, EndsWizard
<1>3. CASE ~Complete(fsm.data)
  BY <1>1, <1>3, IdleStep DEF Confirm
<1> QED
  BY <1>2, <1>3

\* So does the choice of an audience.
LEMMA AudienceStep == ASSUME IInv, NEW k \in Tasks, Audience(k) PROVE StepKeeps
<1>1. UNCHANGED <<db, book, fsm, mail, delivered, crashes>> /\ FsmOK'
  BY SameFsm DEF Audience
<1>2. CASE "broadcast_text" \in DOMAIN fsm.data
  <2>1. PICK x \in NextRow("broadcast") :
          Start(k, [pc |-> "begun", snap |-> db, clears |-> TRUE,
                    call |-> <<"broadcast_create", x, fsm.data["broadcast_text"]>>])
    BY <1>2 DEF Audience
  <2>2. PanelLegal(<<"broadcast_create", x, fsm.data["broadcast_text"]>>)
    BY NextRowIsRow, TripleOf DEF PanelLegal, BroadcastMethods
  <2> QED
    BY <1>1, <2>1, <2>2, EndsWizard
<1>3. CASE "broadcast_text" \notin DOMAIN fsm.data
  BY <1>1, <1>3, IdleStep DEF Audience
<1> QED
  BY <1>2, <1>3

\* A message is taken by the bot, never by the web panel.
LEMMA ReceiveStep == ASSUME IInv, NEW k \in Tasks, Receive(k) PROVE StepKeeps
<1> DEFINE how == [pc |-> "reading", answer |-> fsm.state]
<1>1. DOMAIN how = {"pc", "answer"} /\ how["pc"] = "reading"
  OBVIOUS
<1>2. Start(k, how)
  BY DEF Receive
<1> HIDE DEF how
<1>3. ASSUME NEW w, DOMAIN w = WorkFields, \A f \in DOMAIN how : w[f] = how[f],
             \A f \in WorkFields \ (DOMAIN how \cup {"id"}) : w[f] = Idle[f]
      PROVE  WorkOK(w, db, DOMAIN mail, delivered)
  <2>1. w.pc = "reading" /\ w.by = "bot"
    BY <1>1, <1>3 DEF WorkFields, Idle
  <2> QED
    BY <1>3, <2>1 DEF WorkOK, Statuses
<1>4. FsmOK' /\ UNCHANGED <<db, book, mail, delivered, crashes>>
  BY SameFsm DEF Receive
<1> QED
  BY <1>1, <1>2, <1>3, <1>4, StartStep DEF WorkFields

\* A form is sent.
LEMMA SubmitStep == ASSUME IInv, NEW k \in Tasks, Submit(k) PROVE StepKeeps
<1>1. PICK c \in WebForms :
      \E x \in IF c[1] \in DOMAIN Creating THEN NextRow(Creating[c[1]]) ELSE {c[2]} :
        Start(k, [pc |-> "begun", by |-> "web", snap |-> db, call |-> <<c[1], x, c[3]>>])
  BY DEF Submit, Offered
<1>2. PICK x \in IF c[1] \in DOMAIN Creating THEN NextRow(Creating[c[1]]) ELSE {c[2]} :
        Start(k, [pc |-> "begun", by |-> "web", snap |-> db, call |-> <<c[1], x, c[3]>>])
  BY <1>1
<1>3. IF c[1] \in DOMAIN Creating THEN x \in Rows ELSE x = c[2]
  BY NextRowIsRow
<1> DEFINE call == <<c[1], x, c[3]>>
           how == [pc |-> "begun", by |-> "web", snap |-> db, call |-> call]
<1>4. WebLegal(call)
  BY <1>3, FormsLegal
<1>5. Start(k, how)
  BY <1>2
<1> HIDE DEF call
<1>6. /\ DOMAIN how = {"pc", "by", "snap", "call"}
      /\ how["pc"] = "begun" /\ how["by"] = "web" /\ how["snap"] = db /\ how["call"] = call
  OBVIOUS
<1> HIDE DEF how
<1>7. ASSUME NEW w, DOMAIN w = WorkFields, \A f \in DOMAIN how : w[f] = how[f],
             \A f \in WorkFields \ (DOMAIN how \cup {"id"}) : w[f] = Idle[f]
      PROVE  WorkOK(w, db, DOMAIN mail, delivered)
  <2>1. w.pc = "begun" /\ w.call = call /\ w.snap = db /\ w.by = "web"
    BY <1>6, <1>7
  <2> QED
    BY <1>4, <1>7, <2>1, BeginsOK
<1>8. FsmOK' /\ UNCHANGED <<db, book, mail, delivered, crashes>>
  BY SameFsm DEF Submit
<1> QED
  BY <1>5, <1>6, <1>7, <1>8, StartStep DEF WorkFields

\* The answer goes to the method the data name, with the row they name.
LEMMA ReadAnswerStep == ASSUME IInv, NEW k \in Tasks, ReadAnswer(k) PROVE StepKeeps
<1>1. PICK v \in Answers(fsm.data) :
      \E x \in IF AnsweredBy[Action(k)] \in DOMAIN Creating THEN NextRow(Creating[AnsweredBy[Action(k)]])
               ELSE {fsm.data.row} :
        task' = [task EXCEPT ![k].pc = "begun", ![k].snap = db, ![k].clears = TRUE,
                             ![k].call = <<AnsweredBy[Action(k)], x, v>>]
  BY DEF ReadAnswer
<1>2. PICK x \in IF AnsweredBy[Action(k)] \in DOMAIN Creating THEN NextRow(Creating[AnsweredBy[Action(k)]])
                ELSE {fsm.data.row} :
        task' = [task EXCEPT ![k].pc = "begun", ![k].snap = db, ![k].clears = TRUE,
                             ![k].call = <<AnsweredBy[Action(k)], x, v>>]
  BY <1>1
<1>3. "action" \in DOMAIN fsm.data /\ fsm.data.action \in DOMAIN AnsweredBy /\ Action(k) = fsm.data.action
  BY DEF ReadAnswer, Action, AnsweredBy
<1>4. IF AnsweredBy[fsm.data.action] \in DOMAIN Creating THEN x \in Rows ELSE x = fsm.data.row
  BY <1>2, <1>3, NextRowIsRow
<1> DEFINE call == <<AnsweredBy[fsm.data.action], x, v>>
<1>5. PanelLegal(call)
  BY <1>3, <1>4, AnswersLegal DEF IInv, FsmOK
<1>6. task' = [task EXCEPT ![k].pc = "begun", ![k].snap = db, ![k].clears = TRUE, ![k].call = call]
  BY <1>2, <1>3
<1> HIDE DEF call
<1>7. WorkOK(task[k], db, DOMAIN mail, delivered) /\ DOMAIN task = Tasks
  BY DEF IInv, TasksOK
<1>8. PICK on \in BOOLEAN : on = TRUE
  OBVIOUS
<1> DEFINE w == [task[k] EXCEPT !.pc = "begun", !.snap = db, !.clears = on, !.call = call]
<1>9. task' = [task EXCEPT ![k] = w]
  BY <1>6, <1>7, <1>8
<1>10. DOMAIN w = WorkFields /\ w.pc = "begun" /\ w.snap = db /\ w.call = call /\ w.by = task[k].by
  BY <1>7 DEF WorkOK, WorkFields
<1>11. task[k].by = "bot"
  BY <1>7 DEF WorkOK, ReadAnswer, Reading
<1> HIDE DEF w
<1>12. WorkOK(w, db, DOMAIN mail, delivered)
  BY <1>5, <1>10, <1>11, BeginsOK
<1>13. FsmOK' /\ CountsOK' /\ UNCHANGED <<db, book, mail, delivered>>
  BY SameFsm, SameCounts DEF ReadAnswer
<1> QED
  BY <1>9, <1>12, <1>13, QuietStep

\* A task that is over, or has only the wizard to clear.
LEMMA RestStep ==
  ASSUME IInv, NEW k \in Tasks, NEW w, task' = [task EXCEPT ![k] = w],
         w \in {Idle, [Idle EXCEPT !.pc = "clearing"]}, FsmOK',
         UNCHANGED <<db, book, mail, delivered, begun, crashes>>
  PROVE  StepKeeps
<1>1. WorkOK(w, db, DOMAIN mail, delivered)
  BY RestingWork
<1> QED
  BY <1>1, SameCounts, QuietStep

\* A text of the wizard is put with the rest of the data.
LEMMA AdvanceStep ==
  ASSUME IInv, NEW k \in Tasks, NEW i \in DOMAIN WizardFields, NEW v,
         WizardFields[i] = "code" => v \in Texts, Advance(k, i, v),
         UNCHANGED <<db, book, mail, delivered, begun, crashes>>
  PROVE  StepKeeps
<1> DEFINE next == IF Last(i) THEN "confirm" ELSE WizardFields[i + 1]
           data == (WizardFields[i] :> v) @@ ("action" :> next) @@ fsm.data
<1>1. next \notin DOMAIN AnsweredBy
  <2>1. CASE Last(i)
    BY <2>1 DEF AnsweredBy
  <2>2. CASE ~Last(i)
    <3>1. i + 1 \in DOMAIN WizardFields
      BY <2>2, AdministrationAssumption DEF Last
    <3> QED
      BY <2>2, <3>1, FieldsAssumption
  <2> QED
    BY <2>1, <2>2
<1>2. WizardFields[i] # "action"
  BY FieldsAssumption
<1>3. fsm' = [fsm EXCEPT !.data = data]
  BY DEF Advance
<1>4. task' = [task EXCEPT ![k] = IF Last(i) /\ ~Complete(data)
                                  THEN [Idle EXCEPT !.pc = "clearing"] ELSE Idle]
  BY DEF Advance
<1> HIDE DEF next
<1>5. /\ data["action"] = next
      /\ "code" \in DOMAIN data =>
           data["code"] = IF WizardFields[i] = "code" THEN v ELSE fsm.data["code"]
      /\ "code" \in DOMAIN data /\ WizardFields[i] # "code" => "code" \in DOMAIN fsm.data
  BY <1>2 DEF @@, :>
<1> HIDE DEF data
<1>6. DataOK(data)
  BY <1>1, <1>5 DEF DataOK, RowFits, RowQuestions, IInv, FsmOK, AnsweredBy
<1>7. FsmOK'
  BY <1>3, <1>6 DEF IInv, FsmOK
<1> QED
  BY <1>4, <1>7, RestStep

\* A step of the wizard.
LEMMA ReadWizardStep == ASSUME IInv, NEW k \in Tasks, ReadWizard(k) PROVE StepKeeps
<1>0. PICK i \in DOMAIN WizardFields : \E v \in FieldInputs(WizardFields[i]) :
        IF ~Welcome(WizardFields[i], v)
        THEN task' = [task EXCEPT ![k] = Idle] /\ fsm' = fsm
        ELSE IF WizardFields[i] = "code"
        THEN task' = [task EXCEPT ![k].pc = "updating", ![k].answer = <<i, v>>] /\ fsm' = fsm
        ELSE Advance(k, i, v)
  BY DEF ReadWizard
<1>1. PICK v \in FieldInputs(WizardFields[i]) :
        IF ~Welcome(WizardFields[i], v)
        THEN task' = [task EXCEPT ![k] = Idle] /\ fsm' = fsm
        ELSE IF WizardFields[i] = "code"
        THEN task' = [task EXCEPT ![k].pc = "updating", ![k].answer = <<i, v>>] /\ fsm' = fsm
        ELSE Advance(k, i, v)
  BY <1>0
<1>2. UNCHANGED <<db, book, mail, delivered, begun, crashes>>
  BY DEF ReadWizard
<1>3. CASE ~Welcome(WizardFields[i], v)
  BY <1>1, <1>2, <1>3, SameFsm, RestStep
<1>4. CASE Welcome(WizardFields[i], v) /\ WizardFields[i] = "code"
  <2> DEFINE answer == <<i, v>>
             w == [task[k] EXCEPT !.pc = "updating", !.answer = answer]
  <2>1. v \in Texts
    BY <1>4 DEF Welcome, FieldInputs, Inputs
  <2>2. answer[1] = i /\ answer[2] = v
    OBVIOUS
  <2>3. task' = [task EXCEPT ![k].pc = "updating", ![k].answer = answer] /\ fsm' = fsm
    BY <1>1, <1>4
  <2> HIDE DEF answer
  <2>4. WorkOK(task[k], db, DOMAIN mail, delivered) /\ DOMAIN task = Tasks
    BY DEF IInv, TasksOK
  <2>5. task' = [task EXCEPT ![k] = w]
    BY <2>3, <2>4
  <2>6. DOMAIN w = WorkFields /\ w.pc = "updating" /\ w.answer = answer
    BY <2>4 DEF WorkOK, WorkFields
  <2> HIDE DEF w
  <2>7. WorkOK(w, db, DOMAIN mail, delivered)
    BY <1>4, <2>1, <2>2, <2>6 DEF WorkOK, Statuses
  <2> QED
    BY <1>2, <2>3, <2>5, <2>7, SameFsm, SameCounts, QuietStep
<1>5. CASE Welcome(WizardFields[i], v) /\ WizardFields[i] # "code"
  BY <1>1, <1>2, <1>5, AdvanceStep
<1> QED
  BY <1>3, <1>4, <1>5

\* A code that was looked up is put, whatever became of the wizard meanwhile.
LEMMA UpdateStep == ASSUME IInv, NEW k \in Tasks, Update(k) PROVE StepKeeps
<1>1. WorkOK(task[k], db, DOMAIN mail, delivered) /\ task[k].pc = "updating"
  BY DEF Update, IInv, TasksOK
<1>2. task[k].answer[1] \in DOMAIN WizardFields /\ task[k].answer[2] \in Texts
  BY <1>1 DEF WorkOK
<1> QED
  BY <1>2, AdvanceStep DEF Update

\* The text of a broadcast changes no question.
LEMMA ReadContentOK ==
  ASSUME NEW data, DataOK(data)
  PROVE  DataOK(("broadcast_text" :> None) @@ data)
<1> DEFINE next == ("broadcast_text" :> None) @@ data
<1>1. /\ DOMAIN next = {"broadcast_text"} \cup DOMAIN data
      /\ \A f \in DOMAIN data : f # "broadcast_text" => next[f] = data[f]
  BY DEF @@, :>
<1> HIDE DEF next
<1>2. DataOK(next)
  BY <1>1 DEF DataOK, RowFits, RowQuestions, AnsweredBy
<1> QED
  BY <1>2 DEF next

\* The other messages, and the wizard that is cleared.
LEMMA ReadOtherStep ==
  ASSUME IInv, NEW k \in Tasks, ReadOther(k) \/ ReadContent(k) \/ Clear(k)
  PROVE  StepKeeps
<1>1. CASE ReadOther(k)
  BY <1>1, SameFsm, RestStep DEF ReadOther
<1>2. CASE ReadContent(k)
  <2>1. FsmOK'
    <3>1. CASE fsm' = fsm
      BY <3>1, SameFsm
    <3>2. CASE fsm' = [state |-> "audience", data |-> ("broadcast_text" :> None) @@ fsm.data]
      BY <3>2, ReadContentOK DEF IInv, FsmOK
    <3> QED
      BY <1>2, <3>1, <3>2 DEF ReadContent
  <2> QED
    BY <1>2, <2>1, RestStep DEF ReadContent
<1>3. CASE Clear(k)
  BY <1>3, NoWizardOK, RestStep DEF Clear
<1> QED
  BY <1>1, <1>2, <1>3

-----------------------------------------------------------------------------
(* Transactions and messages.                                               *)
LEMMA OutcomeOrderly ==
  ASSUME IInv, NEW k \in Tasks, task[k].pc = "begun"
  PROVE  Orderly(task[k].call, task[k].snap, db, Outcome(k))
<1>1. /\ IsTables(task[k].snap) /\ IsTables(db) /\ Apart(db)
      /\ IF task[k].by = "web" THEN WebLegal(task[k].call) ELSE PanelLegal(task[k].call)
  BY DEF IInv, TasksOK, WorkOK, TablesOK
<1>2. CASE task[k].by = "web"
  <2>1. Outcome(k) = WebOutcome(task[k].call, task[k].snap, db)
    BY <1>2 DEF Outcome
  <2> QED
    BY <1>1, <1>2, <2>1, WebOrderly
<1>3. CASE task[k].by # "web"
  <2>1. Outcome(k) = PanelOutcome(task[k].call, task[k].snap, db)
    BY <1>3 DEF Outcome
  <2> QED
    BY <1>1, <1>3, <2>1, PanelOrderly
<1> QED
  BY <1>2, <1>3

\* Users are not plans.
LEMMA UsersAreKept ==
  ASSUME NEW t, NEW u, UseKept(t, u)
  PROVE  UsersStay(t, u)
BY DEF UseKept, UsersStay, Of

\* A task that is over after a change of the tables, or a word from Telegram.
LEMMA EndStep ==
  ASSUME IInv, NEW k \in Tasks, NEW clear \in BOOLEAN, After(k, clear),
         TablesOK', UseKept(db, db'), MailOK', DOMAIN mail \subseteq DOMAIN mail',
         UNCHANGED <<fsm, delivered, begun, crashes>>
  PROVE  StepKeeps
<1>1. PICK w : task' = [task EXCEPT ![k] = w] /\ w \in {Idle, [Idle EXCEPT !.pc = "clearing"]}
  BY DEF After
<1>2. WorkOK(w, db', DOMAIN mail', delivered')
  BY <1>1, RestingWork
<1>3. TasksOK'
  BY <1>1, <1>2, UsersAreKept, TasksStep DEF IInv
<1> QED
  BY <1>3, SameFsm, SameCounts DEF IInv, StepKeeps

\* A transaction that is committed.
LEMMA CommitStep == ASSUME IInv, NEW k \in Tasks, Commit(k) PROVE StepKeeps
<1> DEFINE o == Outcome(k)
<1>1. /\ task[k].pc = "begun" /\ o.end = "done" /\ db' = o.tables /\ book' = Replay(book, o.entry)
      /\ After(k, task[k].clears) /\ UNCHANGED <<fsm, mail, delivered, begun, crashes>>
  BY DEF Commit
<1>2. Sound(db, o)
  BY <1>1, OutcomeOrderly DEF Orderly
<1> HIDE DEF o
<1>3. TablesOK' /\ UseKept(db, db')
  BY <1>1, <1>2 DEF Sound, TablesOK, IInv
<1>4. MailOK'
  BY <1>1 DEF IInv, MailOK, MessagesAreRecorded
<1>5. PICK clear \in BOOLEAN : After(k, clear)
  BY <1>1 DEF After
<1> QED
  BY <1>1, <1>3, <1>4, <1>5, EndStep

\* A transaction that is rolled back.
LEMMA RefuseStep == ASSUME IInv, NEW k \in Tasks, Refuse(k) \/ Break(k) PROVE StepKeeps
<1>1. UNCHANGED <<db, book, fsm, mail, delivered, begun, crashes>>
  BY DEF Refuse, Break
<1>2. PICK clear \in BOOLEAN : After(k, clear)
  BY DEF Refuse, Break, After
<1>3. TablesOK' /\ MailOK' /\ UseKept(db, db')
  BY <1>1 DEF IInv, TablesOK, MailOK, MessagesAreRecorded, UseKept
<1> QED
  BY <1>1, <1>2, <1>3, EndStep

\* The tables are left alone.
LEMMA SameTables == ASSUME IInv, UNCHANGED <<db, book>> PROVE TablesOK' /\ UseKept(db, db') /\ UsersStay(db, db')
BY DEF IInv, TablesOK, UseKept, UsersStay

\* The row of a message is written, and no row says sent before it was.
LEMMA MailStep ==
  ASSUME MailOK, NEW id, NEW status \in {"pending", "sent", "failed"}, mail' = (id :> status) @@ mail,
         status = "sent" => id \in delivered, UNCHANGED delivered
  PROVE  MailOK' /\ DOMAIN mail' = DOMAIN mail \cup {id}
<1>1. /\ DOMAIN mail' = DOMAIN mail \cup {id} /\ mail'[id] = status
      /\ \A m \in DOMAIN mail \ {id} : mail'[m] = mail[m]
  BY DEF @@, :>
<1> QED
  BY <1>1 DEF MailOK, MessagesAreRecorded

\* The row of a message is committed before the call, and its user is there to stay.
LEMMA ReserveStep == ASSUME IInv, NEW k \in Tasks, Reserve(k) PROVE StepKeeps
<1> DEFINE w == [task[k] EXCEPT !.pc = "calling", !.snap = None]
<1>1. WorkOK(task[k], db, DOMAIN mail, delivered) /\ DOMAIN task = Tasks
  BY DEF IInv, TasksOK
<1>2. task' = [task EXCEPT ![k] = w]
  BY <1>1 DEF Reserve
<1>3. MailOK' /\ DOMAIN mail' = DOMAIN mail \cup {task[k].id}
  BY MailStep DEF Reserve, IInv
<1>4. task[k].call[2] \in Of("user") /\ Exists(task[k].snap, task[k].call[2])
  BY OutcomeOrderly DEF Reserve, Orderly, Sound
<1>5. Exists(db, task[k].call[2])
  BY <1>1, <1>4 DEF Reserve, WorkOK, UsersStay
<1>6. DOMAIN w = WorkFields /\ w.pc = "calling" /\ w.id = task[k].id /\ w.call = task[k].call
  BY <1>1 DEF WorkOK, WorkFields
<1> HIDE DEF w
<1>7. WorkOK(w, db', DOMAIN mail', delivered')
  BY <1>3, <1>4, <1>5, <1>6 DEF WorkOK, Statuses, Reserve
<1>8. UsersStay(db, db') /\ TablesOK' /\ UseKept(db, db')
  BY SameTables DEF Reserve
<1>9. TasksOK'
  BY <1>2, <1>3, <1>7, <1>8, TasksStep DEF IInv, Reserve
<1>10. FsmOK' /\ CountsOK'
  BY SameFsm, SameCounts DEF Reserve
<1> QED
  BY <1>3, <1>8, <1>9, <1>10 DEF IInv, StepKeeps

\* Telegram only takes messages that have their row.
LEMMA CallTelegramStep == ASSUME IInv, NEW k \in Tasks, CallTelegram(k) PROVE StepKeeps
<1>1. PICK taken \in BOOLEAN, said \in {"sent", "blocked", "raised"} :
        /\ said = "sent" => taken
        /\ delivered' = IF taken THEN delivered \cup {task[k].id} ELSE delivered
        /\ task' = [task EXCEPT ![k].pc = "answered", ![k].answer = said]
  BY DEF CallTelegram
<1>2. task[k].pc = "calling" /\ UNCHANGED <<db, book, fsm, mail, begun, crashes>>
  BY DEF CallTelegram
<1> DEFINE w == [task[k] EXCEPT !.pc = "answered", !.answer = said]
<1>3. WorkOK(task[k], db, DOMAIN mail, delivered) /\ DOMAIN task = Tasks
  BY DEF IInv, TasksOK
<1>4. task' = [task EXCEPT ![k] = w]
  BY <1>1, <1>3
<1>5. /\ DOMAIN w = WorkFields /\ w.pc = "answered" /\ w.id = task[k].id /\ w.call = task[k].call
      /\ w.answer = said
  BY <1>3 DEF WorkOK, WorkFields
<1> HIDE DEF w
<1>6. delivered \subseteq delivered' /\ (said = "sent" => task[k].id \in delivered')
  BY <1>1
<1>7. WorkOK(w, db', DOMAIN mail', delivered')
  BY <1>2, <1>3, <1>5, <1>6 DEF WorkOK, Statuses
<1>8. UsersStay(db, db') /\ TablesOK' /\ UseKept(db, db')
  BY <1>2, SameTables
<1>9. TasksOK'
  BY <1>2, <1>4, <1>6, <1>7, <1>8, TasksStep DEF IInv
<1>10. MailOK'
  BY <1>1, <1>2, <1>3 DEF IInv, MailOK, MessagesAreRecorded, WorkOK
<1> QED
  BY <1>2, <1>8, <1>9, <1>10, SameFsm, SameCounts DEF IInv, StepKeeps

\* What Telegram said is written down; that a user is reachable is not in the log.
LEMMA RecordStep == ASSUME IInv, NEW k \in Tasks, Record(k) PROVE StepKeeps
<1> DEFINE x == task[k].call[2]
           said == task[k].answer
           user == CASE said = "sent" -> "reachable"
                     [] said = "blocked" /\ task[k].by = "web" -> "unreachable"
                     [] OTHER -> db.rows[x].value
           row == ("value" :> user) @@ db.rows[x]
           told == "value" :> Unknown
<1>1. WorkOK(task[k], db, DOMAIN mail, delivered) /\ task[k].pc = "answered"
  BY DEF IInv, TasksOK, Record
<1>2. IsTables(db) /\ Apart(db) /\ Tells(book, db)
  BY DEF IInv, TablesOK
<1>3. x \in Rows /\ Exists(db, x)
  BY <1>1 DEF WorkOK, Of
<1>4. db.rows[x] \in Row
  BY <1>2, <1>3, ExistingRow
<1>5. user \in {"reachable", "unreachable", db.rows[x].value}
  OBVIOUS
<1>6. db' = Put(db, x, "value" :> user) /\ book' = Replay(book, Says(x, told))
  BY DEF Record
<1>7. mail' = (task[k].id :> IF said = "sent" THEN "sent" ELSE "failed") @@ mail /\ UNCHANGED delivered
  BY DEF Record
<1>8. After(k, task[k].clears) /\ UNCHANGED <<fsm, delivered, begun, crashes>>
  BY DEF Record
<1> HIDE DEF user, x
<1>9. row \in Row /\ \A f \in Fields \ {"value"} : row[f] = db.rows[x][f]
  <2>1. DOMAIN db.rows[x] = Fields
    BY <1>4, RowShape
  <2>2. DOMAIN ("value" :> user) = {"value"} /\ ("value" :> user)["value"] = user
    BY DEF :>
  <2>3. row = [db.rows[x] EXCEPT !["value"] = user]
    BY <1>4, <2>1, <2>2 DEF @@, Fields, Row
  <2> HIDE DEF row
  <2> QED
    BY <1>4, <1>5, <2>3 DEF Row, Fields
<1>10. Sound(db, Done([db EXCEPT !.rows[x] = row], Says(x, told)))
  <2>1. DOMAIN told = {"value"} /\ told["value"] = Unknown
    BY DEF :>
  <2>2. Unknown \notin Progress
    BY TablesAssumption
  <2>3. row.code = db.rows[x].code
    BY <1>9 DEF Fields
  <2> HIDE DEF row, told
  <2> QED
    BY <1>2, <1>3, <1>9, <2>1, <2>2, <2>3, SaysSound DEF Fields
<1>11. db' = [db EXCEPT !.rows[x] = row]
  BY <1>2, <1>3, <1>6, PutWrites
<1> HIDE DEF row, told
<1>12. TablesOK' /\ UseKept(db, db')
  BY <1>2, <1>6, <1>10, <1>11 DEF Sound, Done, TablesOK
<1>13. said = "sent" => task[k].id \in delivered
  BY <1>1 DEF WorkOK
<1>14. MailOK' /\ DOMAIN mail \subseteq DOMAIN mail'
  BY <1>7, <1>13, MailStep DEF IInv
<1>15. PICK clear \in BOOLEAN : After(k, clear)
  BY <1>8 DEF After
<1> QED
  BY <1>8, <1>12, <1>14, <1>15, EndStep

-----------------------------------------------------------------------------
(* The rest of the world, and the invariant itself.                         *)
LEMMA CrashStep == ASSUME IInv, NEW by \in {"bot", "web"}, Crash(by) PROVE StepKeeps
<1>1. /\ UNCHANGED <<db, book, mail, delivered, begun>>
      /\ task' = [k \in Tasks |-> IF task[k].by = by THEN Idle ELSE task[k]]
      /\ fsm' = IF by = "bot" THEN NoWizard ELSE fsm
  BY DEF Crash
<1>2. FsmOK'
  BY <1>1, NoWizardOK, SameFsm
<1>3. TasksOK'
  BY <1>1, RestingWork DEF IInv, TasksOK
<1>4. TablesOK' /\ UseKept(db, db')
  BY <1>1, SameTables
<1>5. MailOK'
  BY <1>1 DEF IInv, MailOK, MessagesAreRecorded
<1>6. CountsOK'
  BY AdministrationAssumption DEF Crash, IInv, CountsOK
<1> QED
  BY <1>2, <1>3, <1>4, <1>5, <1>6 DEF IInv, StepKeeps

\* A step that only changes the tables.
LEMMA TablesStep ==
  ASSUME IInv, TablesOK', UseKept(db, db'),
         UNCHANGED <<fsm, task, mail, delivered, begun, crashes>>
  PROVE  StepKeeps
<1>1. TasksOK'
  BY UsersAreKept, WorkStays DEF IInv, TasksOK
<1>2. MailOK'
  BY DEF IInv, MailOK, MessagesAreRecorded
<1> QED
  BY <1>1, <1>2, SameFsm, SameCounts DEF IInv, StepKeeps

\* A payment only adds a use of a plan.
LEMMA PurchaseStep == ASSUME IInv, NEW x \in Of("plan"), Purchase(x) PROVE StepKeeps
<1> DEFINE u == [db EXCEPT !.paid = @ \cup {x}]
<1>1. db' = u /\ UNCHANGED <<book, fsm, task, mail, delivered, begun, crashes>>
  BY DEF Purchase
<1>2. IsTables(db) /\ Apart(db) /\ Tells(book, db)
  BY DEF IInv, TablesOK
<1>3. IsTables(u) /\ u.rows = db.rows /\ u.settings = db.settings /\ u.credits = db.credits
  BY <1>2 DEF IsTables
<1> HIDE DEF u
<1>4. Apart(u) /\ UseKept(db, u) /\ Tells(book, u)
  BY <1>2, <1>3, AsideSound
<1> QED
  BY <1>1, <1>3, <1>4, TablesStep DEF TablesOK

\* The log never tells how far a broadcast is, so it says nothing false when one starts.
LEMMA LaunchStep == ASSUME IInv, NEW x \in Of("broadcast"), Launch(x) PROVE StepKeeps
<1> DEFINE row == ("value" :> "running") @@ db.rows[x]
           u == [db EXCEPT !.rows[x] = row]
           known == book.rows[x]
<1>1. /\ Exists(db, x) /\ db.rows[x].value = "scheduled" /\ db' = Put(db, x, "value" :> "running")
      /\ UNCHANGED <<book, fsm, task, mail, delivered, begun, crashes>>
  BY DEF Launch
<1>2. IsTables(db) /\ Apart(db) /\ Tells(book, db) /\ x \in Rows
  BY DEF IInv, TablesOK, Of
<1>3. db.rows[x] \in Row
  BY <1>1, <1>2, ExistingRow
<1>4. row \in Row /\ row.value = "running" /\ \A f \in Fields \ {"value"} : row[f] = db.rows[x][f]
  <2>1. DOMAIN db.rows[x] = Fields
    BY <1>3, RowShape
  <2>2. DOMAIN ("value" :> "running") = {"value"} /\ ("value" :> "running")["value"] = "running"
    BY DEF :>
  <2>3. row = [db.rows[x] EXCEPT !["value"] = "running"]
    BY <1>3, <2>1, <2>2 DEF @@, Fields, Row
  <2> HIDE DEF row
  <2> QED
    BY <1>3, <2>3 DEF Row, Fields, Progress
<1>5. db' = u
  BY <1>1, <1>2, PutWrites
<1>6. known \in KnownRow /\ \A f \in Fields : known[f] \in {Unknown, db.rows[x][f]}
  <2>1. known \in KnownRow \cup {NoRow, Gone} /\ Agrees(known, db.rows[x])
    BY <1>2 DEF Tells
  <2> HIDE DEF known
  <2> QED
    BY <1>3, <2>1, AgreesRow
<1> HIDE DEF row, known
<1>7. known["value"] = Unknown
  <2>1. known["value"] \in Texts \cup {None, "reachable", "unreachable", Unknown}
    BY <1>6 DEF KnownRow
  <2>2. known["value"] \in {Unknown, "scheduled"}
    BY <1>1, <1>6 DEF Fields
  <2> QED
    BY <2>1, <2>2, TablesAssumption DEF Progress
<1>8. \A f \in Fields : known[f] \in {Unknown, row[f]}
  BY <1>4, <1>6, <1>7
<1>9. row.code = db.rows[x].code
  BY <1>4 DEF Fields
<1>10. /\ IsTables(u) /\ Apart(u) /\ UseKept(db, u)
       /\ u.rows = [db.rows EXCEPT ![x] = row] /\ u.settings = db.settings /\ u.credits = db.credits
  BY <1>1, <1>2, <1>4, <1>9, WriteRow
<1> HIDE DEF u
<1>11. Tells([book EXCEPT !.rows[x] = known], u)
  BY <1>2, <1>4, <1>6, <1>8, <1>10, TellRow
<1>12. [book EXCEPT !.rows[x] = known] = book
  BY <1>2 DEF known, Tells
<1> QED
  BY <1>1, <1>5, <1>10, <1>11, <1>12, TablesStep DEF TablesOK

\* Every step keeps the invariant, and the plans in use.
LEMMA NextKeeps == ASSUME IInv, [Next]_vars PROVE StepKeeps
<1>1. CASE \E k \in Tasks : Bot(k)
  <2>1. PICK k \in Tasks : Bot(k)
    BY <1>1
  <2> QED
    BY <2>1, AskStep, ActStep, ConfirmStep, AudienceStep, ReceiveStep, ReadAnswerStep, ReadWizardStep,
       UpdateStep, ReadOtherStep DEF Bot
<1>2. CASE \E k \in Tasks : Submit(k)
  BY <1>2, SubmitStep
<1>3. CASE \E k \in Tasks : Transaction(k)
  <2>1. PICK k \in Tasks : Transaction(k)
    BY <1>3
  <2> QED
    BY <2>1, CommitStep, RefuseStep, ReserveStep, CallTelegramStep, RecordStep DEF Transaction
<1>4. CASE \E by \in {"bot", "web"} : Crash(by)
  BY <1>4, CrashStep
<1>5. CASE \E x \in Of("plan") : Purchase(x)
  BY <1>5, PurchaseStep
<1>6. CASE \E x \in Of("broadcast") : Launch(x)
  BY <1>6, LaunchStep
<1>7. CASE UNCHANGED vars
  BY <1>7, SameTables, TablesStep DEF vars
<1> QED
  BY <1>1, <1>2, <1>3, <1>4, <1>5, <1>6, <1>7 DEF Next

\* The log tells the tables there are at first.
LEMMA ToldOK ==
  ASSUME NEW row \in Row \cup {NoRow}
  PROVE  /\ Told(row) \in KnownRow \cup {NoRow, Gone}
         /\ Agrees(Told(row), row)
<1>1. CASE row = NoRow
  BY <1>1 DEF Told, Agrees
<1>2. CASE row \in Row /\ row.value \in Progress
  <2> DEFINE known == [row EXCEPT !.value = Unknown]
  <2>1. Told(row) = known
    BY <1>2, TablesAssumption DEF Told
  <2>2. known \in KnownRow
    BY <1>2 DEF Row, KnownRow
  <2>3. \A f \in Fields : known[f] \in {Unknown, row[f]}
    BY <1>2 DEF Row, Fields
  <2> HIDE DEF known
  <2> QED
    BY <1>2, <2>1, <2>2, <2>3, AgreesRow
<1>3. CASE row \in Row /\ row.value \notin Progress
  <2>1. Told(row) = row
    BY <1>3 DEF Told
  <2>2. row \in KnownRow
    BY <1>3 DEF Row, KnownRow
  <2> QED
    BY <1>3, <2>1, <2>2, AgreesRow
<1> QED
  BY <1>1, <1>2, <1>3

\* The wizard may have been left at any of its questions.
LEMMA UnfinishedOK ==
  ASSUME NEW f \in Unfinished
  PROVE  DOMAIN f = {"state", "data"} /\ f.state = "waiting" /\ DataOK(f.data)
<1> DEFINE following(n) == IF n = Len(WizardFields) THEN "confirm" ELSE WizardFields[n + 1]
           answers(n, code) == [g \in {WizardFields[i] : i \in 1..n} |-> IF g = "code" THEN code ELSE None]
           wizard(n, code) == Waiting(("action" :> following(n)) @@ answers(n, code))
<1>0. Unfinished = {wizard(n, code) : code \in Texts, n \in 1..Len(WizardFields)}
  BY DEF Unfinished
<1> HIDE DEF wizard
<1>1. PICK code \in Texts, n \in 1..Len(WizardFields) : f = wizard(n, code)
  BY <1>0
<1> DEFINE data == ("action" :> following(n)) @@ answers(n, code)
<1>2. following(n) \notin DOMAIN AnsweredBy
  <2>1. CASE n = Len(WizardFields)
    BY <2>1 DEF AnsweredBy
  <2>2. CASE n # Len(WizardFields)
    <3>1. n + 1 \in DOMAIN WizardFields
      BY <2>2, AdministrationAssumption
    <3> QED
      BY <2>2, <3>1, FieldsAssumption
  <2> QED
    BY <2>1, <2>2
<1> HIDE DEF following
<1>3. data["action"] = following(n) /\ ("code" \in DOMAIN data => data["code"] = code)
  BY DEF @@, :>
<1> HIDE DEF data
<1>4. DataOK(data)
  BY <1>2, <1>3 DEF DataOK, RowFits, RowQuestions, AnsweredBy
<1> QED
  BY <1>1, <1>4 DEF Waiting, data, wizard

\* The invariant holds at first.
LEMMA InitHolds == ASSUME Init PROVE IInv
<1>1. TablesOK
  <2>1. PICK on \in BOOLEAN : on = TRUE
    OBVIOUS
  <2>2. db = [rows |-> Given, settings |-> GivenSettings, credits |-> 1,
              sub |-> Subscribed, active |-> on, paid |-> {}]
    BY <2>1 DEF Init
  <2>3. db.rows = Given /\ IsTables(db)
    BY <2>2, AdministrationAssumption DEF IsTables
  <2>4. Apart(db)
    BY <2>3, AdministrationAssumption DEF Apart, Exists
  <2>5. /\ book = [rows |-> book.rows, settings |-> book.settings, credits |-> book.credits,
                   sub |-> book.sub, active |-> book.active, paid |-> book.paid]
        /\ book.rows = [x \in Rows |-> Told(Given[x])]
        /\ book.settings = db.settings /\ book.credits = db.credits
    BY <2>3 DEF Init, IsTables
  <2>6. Tells(book, db)
    BY <2>3, <2>5, ToldOK, AdministrationAssumption DEF Tells
  <2> QED
    BY <2>3, <2>4, <2>6 DEF TablesOK
<1>2. FsmOK
  <2>1. CASE fsm = NoWizard
    <3>1. DOMAIN NoWizard.data = {} /\ NoWizard.state = "none" /\ DOMAIN NoWizard = {"state", "data"}
      BY DEF NoWizard
    <3> QED
      BY <2>1, <3>1 DEF FsmOK, DataOK
  <2>2. CASE fsm \in Asked
    BY <2>2, QuestionOK DEF Asked, Offered, FsmOK
  <2>3. CASE fsm \in Unfinished
    BY <2>3, UnfinishedOK DEF FsmOK
  <2> QED
    BY <2>1, <2>2, <2>3 DEF Init, Kept
<1>3. TasksOK
  BY RestingWork DEF Init, TasksOK
<1>4. MailOK
  BY DEF Init, MailOK, MessagesAreRecorded
<1>5. CountsOK
  BY AdministrationAssumption DEF Init, CountsOK
<1> QED
  BY <1>1, <1>2, <1>3, <1>4, <1>5 DEF IInv

\* The invariant always holds.
LEMMA IInvHolds == Spec => []IInv
<1>1. Init => IInv
  BY InitHolds
<1>2. IInv /\ [Next]_vars => IInv'
  BY NextKeeps DEF StepKeeps
<1> QED
  BY <1>1, <1>2, PTL DEF Spec

-----------------------------------------------------------------------------

\* Rows, settings, the wizard and the messages keep the shapes their columns
\* allow; credits never fall below zero (remove_credits under the user's lock).
THEOREM AdministrationTypeCorrect == Spec => []TypeOK
<1>1. IInv => TypeOK
  BY DEF IInv, TablesOK, IsTables, FsmOK, TasksOK, WorkOK, MailOK, CountsOK, TypeOK
<1> QED
  BY <1>1, IInvHolds, PTL

\* Whatever the two panels do to the same rows at the same time, the entries of
\* the audit log tell of them what the tables hold.
THEOREM AuditTellsTheTables == Spec => []AuditAgrees
<1>1. IInv => AuditAgrees
  BY DEF IInv, TablesOK, Tells, AuditAgrees
<1> QED
  BY <1>1, IInvHolds, PTL

\* No two rows of a table ever have the same code, however many create or rename.
THEOREM CodesApart == Spec => []CodesDiffer
<1>1. IInv => CodesDiffer
  BY DEF IInv, TablesOK, Apart, CodesDiffer
<1> QED
  BY <1>1, IInvHolds, PTL

\* A direct message Telegram has taken has its row, whenever the process dies.
THEOREM MessagesRecorded == Spec => []MessagesAreRecorded
<1>1. IInv => MessagesAreRecorded
  BY DEF IInv, MailOK
<1> QED
  BY <1>1, IInvHolds, PTL

\* No step deletes a plan a subscription, a payment or a promo is for.
THEOREM PlansStay == Spec => PlansInUseStay
<1>1. IInv /\ [Next]_vars =>
        [\A x \in Of("plan") : Exists(db, x) /\ ~Exists(db', x) => ~InUse(db, x)]_vars
  BY NextKeeps DEF StepKeeps, UseKept, Of
<1> QED
  BY <1>1, IInvHolds, PTL DEF Spec, PlansInUseStay
=============================================================================
