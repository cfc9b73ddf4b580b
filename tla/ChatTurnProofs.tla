--------------------------- MODULE ChatTurnProofs ---------------------------
(* The history, the summary, the limits and the charges of a user are right *)
(* for any updates, history, limits and number of crashes, and whether or   *)
(* not a turn outlasts its lease.  The argument does not use the lease at   *)
(* all: whoever has read rows it will act on holds the users row, so the    *)
(* rows it has read are still what is committed.                            *)
EXTENDS ChatTurn, FiniteSetTheorems, TLAPS

\* A handler that has read a dialog, or has an answer yet to commit.
Working(u) == pc[u] \in {"admitted", "summarizing", "summarized", "asking"} \/ draft[u].answer

HoldersLock ==
  \A u \in Updates : pc[u] \in {"touched", "leased"} \/ Working(u) => user_lock = u

\* Nothing is drafted outside a turn.
DraftInPhase(u) ==
  /\ draft[u].answer => pc[u] \in {"releasing", "replying", "returning", "breaking"}
  /\ ~Working(u) => draft[u] = Blank

\* The dialog is the active one, or one that this handler opens.
DraftDialog(u) ==
  /\ draft[u].dialog \in Updates
  /\ Active = IF draft[u].opened THEN {} ELSE {draft[u].dialog}
  /\ draft[u].opened => draft[u].dialog = u /\ dialogs[u].state = "none"
  /\ Cardinality(answered) < DayLimit

\* What is summarized is still to be summarized in what is committed.
DraftFolding(u) ==
  LET d == draft[u]
      open == Ids(Unsummarized(d.dialog, messages))
  IN  /\ d.folded \subseteq open
      /\ d.folded # {} => d.summary = dialogs[d.dialog].summary \cup d.folded
      /\ pc[u] \in {"admitted", "summarizing"} => d.folded = {}
      /\ pc[u] = "summarizing" => d.folding \subseteq open /\ d.summary = dialogs[d.dialog].summary

DraftQuestion(u) ==
  /\ draft[u].context = Context(u)
  /\ draft[u].question < next_id /\ \A m \in messages : m.id < draft[u].question

DraftReply(u) ==
  \E i, j \in Nat :
    /\ i < j /\ j < next_id /\ \A m \in messages : m.id < i
    /\ draft[u].wrote = {Says(u, i, "user", "completed"), Says(u, j, "assistant", "completed")}

DraftIsSound(u) ==
  /\ DraftInPhase(u)
  /\ Working(u) => DraftDialog(u) /\ DraftFolding(u)
  /\ pc[u] = "asking" => DraftQuestion(u)
  /\ draft[u].answer => DraftReply(u)

DraftsAreSound == \A u \in Updates : DraftIsSound(u)

\* An update that has not begun its turn has opened no dialog.
FreshDialogs ==
  \A u \in Updates : pc[u] \in {"sent", "touched", "leased"} => dialogs[u].state = "none"

OneActive == \A d, e \in Active : d = e
IdsAreTaken == \A m \in messages : m.id < next_id
IdsAreUnique == \A m, n \in messages : m.id = n.id => m = n
DialogsBegin == \A m \in messages : dialogs[m.dialog].state # "none"

RowsAreSound ==
  /\ OneActive /\ IdsAreTaken /\ IdsAreUnique /\ DialogsBegin
  /\ SummaryCoversMarked /\ TurnsStayWhole

LimitKept == Cardinality(answered) <= DayLimit

ChargesStored ==
  /\ charged \subseteq answered
  /\ \A u \in answered : \E m \in messages : m.turn = u /\ m.role = "assistant"

\* The types of all but the replies.
RowsTypeOK ==
  /\ pc \in [Updates -> Phases]
  /\ draft \in [Updates -> Draft]
  /\ user_lock \in Updates \cup {NoUpdate} /\ lease \in Updates \cup {NoUpdate}
  /\ dialogs \in [Updates -> Dialog]
  /\ messages \subseteq Message
  /\ answered \subseteq Updates /\ charged \subseteq Updates
  /\ balance \in 0..MaxBalance /\ next_id \in Nat

IInv ==
  /\ RowsTypeOK /\ RowsAreSound /\ HoldersLock /\ DraftsAreSound /\ FreshDialogs
  /\ LimitKept /\ ChargesStored

\* a is the answer that directly follows the question q.
Follows(a, q, msgs) ==
  /\ a \in msgs /\ a.dialog = q.dialog /\ a.status = "completed" /\ a.id > q.id
  /\ a.turn = q.turn /\ a.role = "assistant"
  /\ \A m \in msgs : m.dialog = q.dialog /\ m.status = "completed" /\ m.id > q.id => m.id >= a.id

-----------------------------------------------------------------------------
LEMMA WholeFollows ==
  TurnsStayWhole <=>
    \A q \in messages : q.role = "user" /\ q.status = "completed" =>
      \E a \in messages : Follows(a, q, messages)
BY DEF TurnsStayWhole, Follows

LEMMA EarlierTurns ==
  /\ Turns \subseteq Updates /\ First \subseteq Turns
  /\ \A i \in DOMAIN Earlier : i \in Nat /\ i >= 1 /\ i <= Len(Earlier) /\ Earlier[i] \in Turns
  /\ Turns = {Earlier[i] : i \in DOMAIN Earlier} /\ Len(Earlier) \in Nat
BY UpdateAssumption DEF Turns, First, Range, Updates

LEMMA BlankType == Blank \in Draft /\ Blank.answer = FALSE
BY DEF Blank, Draft

LEMMA ToldFields ==
  ASSUME NEW i \in DOMAIN Earlier, NEW role \in {"user", "assistant"}
  PROVE  /\ Told(i, role) \in Message
         /\ Told(i, role).id = IF role = "user" THEN 2 * i - 1 ELSE 2 * i
         /\ Told(i, role).dialog = Earlier[1] /\ Told(i, role).turn = Earlier[i]
         /\ Told(i, role).role = role /\ Told(i, role).status = "completed"
         /\ ~Told(i, role).is_summarized
<1>1. i \in Nat /\ i >= 1 /\ i <= Len(Earlier) /\ Len(Earlier) \in Nat
  BY EarlierTurns
<1>2. 1 \in DOMAIN Earlier
  BY <1>1, UpdateAssumption
<1>3. Earlier[i] \in Updates /\ Earlier[1] \in Updates
  BY <1>2, EarlierTurns
<1>4. 2 * i - 1 \in Nat /\ 2 * i \in Nat
  BY <1>1
<1>5. QED BY <1>3, <1>4 DEF Told, Message

LEMMA InitHolds == Init => IInv
<1> SUFFICES ASSUME Init PROVE IInv
  OBVIOUS
<1>1. /\ messages = {Told(i, role) : i \in DOMAIN Earlier, role \in {"user", "assistant"}}
      /\ answered = Turns /\ charged = Turns /\ next_id = 2 * Len(Earlier) + 1
      /\ draft = [u \in Updates |-> Blank]
      /\ dialogs = [d \in Updates |->
           [state |-> IF d \in First THEN "active" ELSE "none", summary |-> {}]]
      /\ pc = [u \in Updates |-> IF u \in Turns THEN "done" ELSE "sent"]
      /\ user_lock = NoUpdate /\ lease = NoUpdate /\ balance \in 0..MaxBalance
  BY DEF Init
<1>2. messages \subseteq Message
  BY <1>1, ToldFields
<1>3. RowsTypeOK
  BY <1>1, <1>2, BlankType, EarlierTurns DEF RowsTypeOK, Phases, Dialog
<1>4. First \subseteq {Earlier[1]} /\ (DOMAIN Earlier # {} => First = {Earlier[1]})
  BY DEF First
<1>5. OneActive
  BY <1>1, <1>4 DEF OneActive, Active
<1>6. IdsAreTaken /\ IdsAreUnique
  <2>1. ASSUME NEW m \in messages
        PROVE  \E i \in Nat, role \in {"user", "assistant"} :
                 /\ m = Told(i, role) /\ i <= Len(Earlier)
                 /\ m.id = IF role = "user" THEN 2 * i - 1 ELSE 2 * i
    <3>1. PICK i \in DOMAIN Earlier, role \in {"user", "assistant"} : m = Told(i, role)
      BY <1>1
    <3>2. m.id = IF role = "user" THEN 2 * i - 1 ELSE 2 * i
      BY <3>1, ToldFields
    <3>3. i \in Nat /\ i <= Len(Earlier)
      BY EarlierTurns
    <3>4. QED BY <3>1, <3>2, <3>3
  <2>2. IdsAreTaken
    BY <1>1, <2>1, EarlierTurns DEF IdsAreTaken
  <2>3. IdsAreUnique
    BY <2>1 DEF IdsAreUnique
  <2>4. QED BY <2>2, <2>3
<1>7. DialogsBegin
  <2>1. \A m \in messages : m.dialog = Earlier[1] /\ DOMAIN Earlier # {}
    BY <1>1, ToldFields
  <2>a. \A m \in messages : m.dialog \in First /\ m.dialog \in Updates
    BY <1>4, <2>1, EarlierTurns
  <2>2. QED BY <1>1, <2>a DEF DialogsBegin
<1>8. SummaryCoversMarked
  <2>1. \A m \in messages : ~m.is_summarized
    BY <1>1, ToldFields
  <2>2. QED BY <1>1, <2>1 DEF SummaryCoversMarked, Ids
<1>9. TurnsStayWhole
  <2> SUFFICES ASSUME NEW q \in messages, q.role = "user", q.status = "completed"
               PROVE  \E a \in messages : Follows(a, q, messages)
    BY WholeFollows
  <2>1. PICK i \in DOMAIN Earlier : q = Told(i, "user")
    <3>1. PICK i \in DOMAIN Earlier, role \in {"user", "assistant"} : q = Told(i, role)
      BY <1>1
    <3>2. role = "user"
      BY <3>1, ToldFields
    <3>3. QED BY <3>1, <3>2
  <2> DEFINE a == Told(i, "assistant")
  <2>2. /\ a \in messages /\ q.id = 2 * i - 1 /\ a.id = 2 * i /\ i \in Nat
        /\ a.dialog = q.dialog /\ a.turn = q.turn /\ a.role = "assistant" /\ a.status = "completed"
    <3>1. a \in messages
      BY <1>1
    <3>2. /\ a.id = 2 * i /\ a.dialog = Earlier[1] /\ a.turn = Earlier[i]
          /\ a.role = "assistant" /\ a.status = "completed"
      BY ToldFields
    <3>3. q.id = 2 * i - 1 /\ q.dialog = Earlier[1] /\ q.turn = Earlier[i]
      BY <2>1, ToldFields
    <3>4. i \in Nat
      BY EarlierTurns
    <3>5. QED BY <3>1, <3>2, <3>3, <3>4
  <2>3. \A m \in messages : m.id \in Nat /\ m.id > q.id => m.id >= a.id
    BY <2>2
  <2>4. \A m \in messages : m.id \in Nat
    BY <1>2 DEF Message
  <2>5. QED BY <2>2, <2>3, <2>4 DEF Follows
<1>10. RowsAreSound
  BY <1>5, <1>6, <1>7, <1>8, <1>9 DEF RowsAreSound
<1>11. HoldersLock /\ DraftsAreSound
  BY <1>1, BlankType DEF HoldersLock, DraftsAreSound, DraftIsSound, DraftInPhase, Working
<1>12. FreshDialogs
  BY <1>1, EarlierTurns DEF FreshDialogs
<1>13. LimitKept
  BY <1>1, LimitAssumption DEF LimitKept, Turns
<1>14. ChargesStored
  <2>1. ASSUME NEW u \in answered PROVE \E m \in messages : m.turn = u /\ m.role = "assistant"
    <3>1. PICK i \in DOMAIN Earlier : u = Earlier[i]
      BY <1>1, EarlierTurns
    <3>2. QED BY <1>1, <3>1, ToldFields
  <2>2. QED BY <1>1, <2>1 DEF ChargesStored
<1>15. QED BY <1>3, <1>10, <1>11, <1>12, <1>13, <1>14 DEF IInv

-----------------------------------------------------------------------------
(* Steps that leave the committed rows as they are.                         *)

\* What a handler reads depends on its own draft and the rows.
LEMMA SameReading ==
  ASSUME NEW u \in Updates, UNCHANGED <<dialogs, messages>>,
         draft'[u].dialog = draft[u].dialog, draft'[u].folded = draft[u].folded,
         draft'[u].summary = draft[u].summary
  PROVE  /\ Seen(u)' = Seen(u) /\ SummarySeen(u)' = SummarySeen(u) /\ Context(u)' = Context(u)
         /\ Active' = Active
         /\ \A i, role, status : Says(u, i, role, status)' = Says(u, i, role, status)
<1>1. Seen(u)' = Seen(u)
  BY DEF Seen
<1>2. SummarySeen(u)' = SummarySeen(u)
  BY DEF SummarySeen
<1>3. Context(u)' = Context(u)
  BY <1>1, <1>2 DEF Context
<1>4. Active' = Active
  BY DEF Active
<1>5. QED BY <1>1, <1>2, <1>3, <1>4 DEF Says

LEMMA DraftStays ==
  ASSUME IInv, NEW v \in Updates, pc'[v] = pc[v], draft'[v] = draft[v], UNCHANGED rows,
         next_id' \in Nat, next_id' >= next_id
  PROVE  DraftIsSound(v)'
<1>1. DraftIsSound(v) /\ next_id \in Nat /\ messages \subseteq Message
  BY DEF IInv, DraftsAreSound, RowsTypeOK
<1>2. /\ Context(v)' = Context(v) /\ Active' = Active
      /\ \A i, role, status : Says(v, i, role, status)' = Says(v, i, role, status)
      /\ UNCHANGED <<dialogs, messages, answered, charged>>
  BY SameReading DEF rows
<1>3. DraftInPhase(v)' /\ Working(v)' = Working(v)
  BY <1>1 DEF DraftIsSound, DraftInPhase, Working
<1>4. Working(v) => DraftDialog(v)'
  BY <1>1, <1>2 DEF DraftIsSound, DraftDialog
<1>5. Working(v) => DraftFolding(v)'
  BY <1>1, <1>2 DEF DraftIsSound, DraftFolding
<1>6. pc[v] = "asking" => DraftQuestion(v)'
  <2>1. draft[v].question \in Nat
    BY DEF IInv, RowsTypeOK, Draft
  <2>2. QED BY <1>1, <1>2, <2>1 DEF DraftIsSound, DraftQuestion
<1>7. draft[v].answer => DraftReply(v)'
  <2> SUFFICES ASSUME draft[v].answer PROVE DraftReply(v)'
    OBVIOUS
  <2>1. PICK i, j \in Nat :
          /\ i < j /\ j < next_id /\ \A m \in messages : m.id < i
          /\ draft[v].wrote = {Says(v, i, "user", "completed"), Says(v, j, "assistant", "completed")}
    BY <1>1 DEF DraftIsSound, DraftReply
  <2>2. j < next_id'
    BY <1>1, <2>1
  <2>3. QED BY <1>2, <2>1, <2>2 DEF DraftReply
<1>8. QED BY <1>3, <1>4, <1>5, <1>6, <1>7 DEF DraftIsSound

LEMMA RowsStay ==
  ASSUME IInv, UNCHANGED rows, next_id' \in Nat, next_id' >= next_id
  PROVE  RowsAreSound' /\ LimitKept' /\ ChargesStored'
<1>1. UNCHANGED <<dialogs, messages, answered, charged>>
  BY DEF rows
<1>2. OneActive' /\ IdsAreUnique' /\ DialogsBegin' /\ SummaryCoversMarked' /\ TurnsStayWhole'
  BY <1>1 DEF IInv, RowsAreSound, OneActive, Active, IdsAreUnique, DialogsBegin,
    SummaryCoversMarked, TurnsStayWhole
<1>3. IdsAreTaken'
  BY <1>1 DEF IInv, RowsAreSound, IdsAreTaken, RowsTypeOK, Message
<1>4. QED BY <1>1, <1>2, <1>3 DEF IInv, RowsAreSound, LimitKept, ChargesStored

\* One handler moves on and writes nothing that others can see.
LEMMA QuietStep ==
  ASSUME IInv, NEW u \in Updates, NEW p \in Phases, NEW d \in Draft,
         pc' = [pc EXCEPT ![u] = p], draft' = [draft EXCEPT ![u] = d],
         UNCHANGED rows, balance' = balance, lease' \in Updates \cup {NoUpdate},
         next_id' \in Nat, next_id' >= next_id,
         user_lock' = u \/ user_lock' = user_lock \/ user_lock' = Unlocked(u),
         user_lock \notin {u, NoUpdate} => user_lock' = user_lock,
         p \in {"touched", "leased"} \/ Working(u)' => user_lock' = u,
         DraftIsSound(u)',
         p \in {"sent", "touched", "leased"} => pc[u] \in {"sent", "touched", "leased"}
  PROVE  IInv'
<1>1. /\ pc'[u] = p /\ draft'[u] = d /\ \A v \in Updates \ {u} : pc'[v] = pc[v] /\ draft'[v] = draft[v]
      /\ UNCHANGED <<dialogs, messages, answered, charged>>
  BY DEF IInv, RowsTypeOK, rows
<1>2. RowsTypeOK'
  BY <1>1 DEF IInv, RowsTypeOK, Unlocked
<1>3. RowsAreSound' /\ LimitKept' /\ ChargesStored'
  BY RowsStay
<1>4. DraftsAreSound'
  BY <1>1, DraftStays DEF DraftsAreSound
<1>5. FreshDialogs'
  BY <1>1 DEF IInv, FreshDialogs
<1>6. HoldersLock'
  <2> SUFFICES ASSUME NEW v \in Updates, pc'[v] \in {"touched", "leased"} \/ Working(v)'
               PROVE  user_lock' = v
    BY DEF HoldersLock
  <2>1. CASE v = u
    BY <1>1, <2>1
  <2>2. CASE v # u
    <3>1. user_lock = v
      BY <1>1, <2>2 DEF IInv, HoldersLock, Working
    <3>2. QED BY <2>2, <3>1, UpdateAssumption
  <2>3. QED BY <2>1, <2>2
<1>7. QED BY <1>2, <1>3, <1>4, <1>5, <1>6 DEF IInv

-----------------------------------------------------------------------------
(* A commit.                                                                *)

\* A message as this handler leaves it.
Marked(u, m) == IF m.id \in draft[u].folded THEN [m EXCEPT !.is_summarized = TRUE] ELSE m

LEMMA MarkedFields ==
  ASSUME IInv, NEW u \in Updates, NEW m \in messages
  PROVE  /\ Marked(u, m) \in Message /\ Marked(u, m) \in Seen(u)
         /\ Marked(u, m).id = m.id /\ Marked(u, m).dialog = m.dialog
         /\ Marked(u, m).turn = m.turn /\ Marked(u, m).role = m.role
         /\ Marked(u, m).status = m.status
         /\ Marked(u, m).is_summarized <=> m.is_summarized \/ m.id \in draft[u].folded
<1>1. m \in Message
  BY DEF IInv, RowsTypeOK
<1>2. QED BY <1>1 DEF Marked, Seen, Message

LEMMA SeenMarked ==
  ASSUME NEW u \in Updates, NEW n \in Seen(u)
  PROVE  \E m \in messages : n = Marked(u, m)
BY DEF Seen, Marked

LEMMA SaysFields ==
  ASSUME NEW u \in Updates, NEW i \in Nat, NEW role \in {"user", "assistant"},
         NEW status \in {"completed", "failed"}, draft[u].dialog \in Updates
  PROVE  LET m == Says(u, i, role, status) IN
         /\ m \in Message /\ m.id = i /\ m.dialog = draft[u].dialog /\ m.turn = u
         /\ m.role = role /\ m.status = status /\ ~m.is_summarized
BY DEF Says, Message

\* What a turn adds to its dialog: newer messages, and its question with its answer.
Adds(u, wrote) ==
  \E i, j \in Nat :
    /\ i < j /\ \A m \in messages : m.id < i
    /\ \/ wrote = {Says(u, i, "user", "failed")} /\ i < next_id'
       \/ /\ wrote = {Says(u, i, "user", "completed"), Says(u, j, "assistant", "completed")}
          /\ j < next_id'

LEMMA AddsFields ==
  ASSUME IInv, NEW u \in Updates, draft[u].dialog \in Updates, NEW wrote, Adds(u, wrote),
         next_id' \in Nat
  PROVE  /\ wrote \subseteq Message
         /\ \A n \in wrote : n.dialog = draft[u].dialog /\ ~n.is_summarized /\ n.id < next_id'
         /\ \A n \in wrote, m \in messages : m.id < n.id
         /\ \A n, o \in wrote : n.id = o.id => n = o
         /\ \A q \in wrote : q.role = "user" /\ q.status = "completed" =>
              \E a \in wrote : Follows(a, q, wrote)
<1>1. PICK i, j \in Nat :
        /\ i < j /\ \A m \in messages : m.id < i
        /\ \/ wrote = {Says(u, i, "user", "failed")} /\ i < next_id'
           \/ /\ wrote = {Says(u, i, "user", "completed"), Says(u, j, "assistant", "completed")}
              /\ j < next_id'
  BY DEF Adds
<1>2. \A m \in messages : m.id \in Nat
  BY DEF IInv, RowsTypeOK, Message
<1> DEFINE f == Says(u, i, "user", "failed")
           q == Says(u, i, "user", "completed")
           a == Says(u, j, "assistant", "completed")
<1>3. /\ f \in Message /\ f.id = i /\ f.dialog = draft[u].dialog /\ f.turn = u
      /\ f.role = "user" /\ f.status = "failed" /\ ~f.is_summarized
  BY SaysFields
<1>4. /\ q \in Message /\ q.id = i /\ q.dialog = draft[u].dialog /\ q.turn = u
      /\ q.role = "user" /\ q.status = "completed" /\ ~q.is_summarized
  BY SaysFields
<1>5. /\ a \in Message /\ a.id = j /\ a.dialog = draft[u].dialog /\ a.turn = u
      /\ a.role = "assistant" /\ a.status = "completed" /\ ~a.is_summarized
  BY SaysFields
<1> HIDE DEF f, q, a
<1>6. CASE wrote = {f} /\ i < next_id'
  BY <1>1, <1>2, <1>3, <1>6
<1>7. CASE wrote = {q, a} /\ j < next_id'
  <2>1. Follows(a, q, wrote)
    BY <1>1, <1>4, <1>5, <1>7 DEF Follows
  <2>2. QED BY <1>1, <1>2, <1>4, <1>5, <1>7, <2>1
<1>8. QED BY <1>1, <1>6, <1>7 DEF f, q, a

\* An id that is folded is a message of the handler's dialog.
LEMMA FoldedHere ==
  ASSUME IInv, NEW u \in Updates, Working(u)
  PROVE  /\ draft[u].dialog \in Updates
         /\ \A m \in messages : m.id \in draft[u].folded => m.dialog = draft[u].dialog
         /\ \A k \in draft[u].folded : \E m \in messages : m.id = k /\ m.dialog = draft[u].dialog
<1>1. /\ draft[u].dialog \in Updates
      /\ draft[u].folded \subseteq Ids(Unsummarized(draft[u].dialog, messages))
  BY DEF IInv, DraftsAreSound, DraftIsSound, DraftDialog, DraftFolding
<1>2. \A k \in draft[u].folded : \E m \in messages : m.id = k /\ m.dialog = draft[u].dialog
  BY <1>1 DEF Ids, Unsummarized
<1>3. QED BY <1>1, <1>2 DEF IInv, RowsAreSound, IdsAreUnique

LEMMA CommitRows ==
  ASSUME IInv, NEW u \in Updates, Working(u), NEW wrote, Adds(u, wrote),
         CommitDialog(u, wrote), next_id' \in Nat, next_id' >= next_id
  PROVE  /\ messages' \subseteq Message /\ dialogs' \in [Updates -> Dialog] /\ RowsAreSound'
         /\ \A m \in messages : \E n \in messages' : n.turn = m.turn /\ n.role = m.role
         /\ wrote \subseteq messages'
         /\ \A v \in Updates \ {u} : dialogs[v].state = "none" => dialogs'[v].state = "none"
<1> DEFINE e == draft[u].dialog
<1>1. /\ e \in Updates /\ messages \subseteq Message /\ dialogs \in [Updates -> Dialog]
      /\ draft[u].summary \subseteq Nat
      /\ \A m \in messages : m.id \in draft[u].folded => m.dialog = e
      /\ \A k \in draft[u].folded : \E m \in messages : m.id = k /\ m.dialog = e
  BY FoldedHere DEF IInv, RowsTypeOK, Draft
<1>2. /\ wrote \subseteq Message
      /\ \A n \in wrote : n.dialog = e /\ ~n.is_summarized /\ n.id < next_id'
      /\ \A n \in wrote, m \in messages : m.id < n.id
      /\ \A n, o \in wrote : n.id = o.id => n = o
      /\ \A q \in wrote : q.role = "user" /\ q.status = "completed" =>
           \E a \in wrote : Follows(a, q, wrote)
  BY <1>1, AddsFields
<1>3. /\ Active = IF draft[u].opened THEN {} ELSE {e}
      /\ draft[u].opened => e = u /\ dialogs[u].state = "none"
      /\ draft[u].folded # {} => draft[u].summary = dialogs[e].summary \cup draft[u].folded
  BY DEF IInv, DraftsAreSound, DraftIsSound, DraftDialog, DraftFolding
<1>4. messages' = Seen(u) \cup wrote
  BY DEF CommitDialog
<1>5. \A n \in messages' : n \in wrote \/ \E m \in messages : n = Marked(u, m)
  BY <1>4, SeenMarked
<1>6. \A m \in messages : Marked(u, m) \in messages'
  BY <1>4, MarkedFields
<1>7. messages' \subseteq Message
  BY <1>2, <1>5, MarkedFields
<1>8. SummarySeen(u) = dialogs[e].summary \cup draft[u].folded /\ SummarySeen(u) \subseteq Nat
  BY <1>1, <1>3 DEF SummarySeen, Dialog
<1>9. /\ \A d \in Updates \ {e} : dialogs'[d] = dialogs[d]
      /\ dialogs'[e].state = IF draft[u].opened THEN "active" ELSE dialogs[e].state
      /\ dialogs'[e].summary = dialogs[e].summary \cup draft[u].folded
      /\ dialogs' \in [Updates -> Dialog]
  BY <1>1, <1>8 DEF CommitDialog, Dialog
<1>10. dialogs'[e].state = "active" /\ \A d \in Updates \ {e} : dialogs'[d].state # "active"
  BY <1>1, <1>3, <1>9 DEF Active
<1>11. OneActive'
  BY <1>10 DEF OneActive, Active
<1>12. IdsAreTaken'
  BY <1>2, <1>5, MarkedFields DEF IInv, RowsAreSound, IdsAreTaken, RowsTypeOK, Message
<1>13. IdsAreUnique'
  <2>1. \A m \in messages, n \in wrote : m.id # n.id
    BY <1>1, <1>2 DEF Message
  <2>2. \A m, n \in messages : m.id = n.id => m = n
    BY DEF IInv, RowsAreSound, IdsAreUnique
  <2>3. QED BY <1>2, <1>5, <2>1, <2>2, MarkedFields DEF IdsAreUnique
<1>14. DialogsBegin'
  <2>1. \A m \in messages : dialogs'[m.dialog].state # "none" /\ m.dialog \in Updates
    BY <1>1, <1>9, <1>10 DEF IInv, RowsAreSound, DialogsBegin, Message
  <2>2. QED BY <1>2, <1>5, <1>10, <2>1, MarkedFields DEF DialogsBegin
<1>15. SummaryCoversMarked'
  <2> SUFFICES ASSUME NEW d \in Updates
               PROVE  dialogs'[d].summary = Ids({m \in messages' : m.dialog = d /\ m.is_summarized})
    BY DEF SummaryCoversMarked
  <2> DEFINE old == Ids({m \in messages : m.dialog = d /\ m.is_summarized})
             new == Ids({m \in messages' : m.dialog = d /\ m.is_summarized})
  <2>1. dialogs[d].summary = old
    BY DEF IInv, RowsAreSound, SummaryCoversMarked
  <2>2. \A k : k \in old <=> \E m \in messages : m.id = k /\ m.dialog = d /\ m.is_summarized
    BY DEF Ids
  <2>3. \A k : k \in new <=> \E n \in messages' : n.id = k /\ n.dialog = d /\ n.is_summarized
    BY DEF Ids
  <2>4. \A k : k \in new <=>
          \E m \in messages : m.id = k /\ m.dialog = d /\ (m.is_summarized \/ k \in draft[u].folded)
    BY <1>2, <1>5, <1>6, <2>3, MarkedFields
  <2> HIDE DEF old, new
  <2>5. CASE d = e
    <3>1. \A k : k \in new <=> k \in old \cup draft[u].folded
      BY <1>1, <2>2, <2>4, <2>5
    <3>2. new = old \cup draft[u].folded
      BY <3>1
    <3>3. QED BY <1>9, <2>1, <2>5, <3>2 DEF new
  <2>6. CASE d # e
    <3>1. \A k : k \in new <=> k \in old
      BY <1>1, <2>2, <2>4, <2>6
    <3>2. new = old
      BY <3>1
    <3>3. QED BY <1>9, <2>1, <2>6, <3>2 DEF new
  <2>7. QED BY <2>5, <2>6
<1>16. TurnsStayWhole'
  <2>1. ASSUME NEW q \in messages', q.role = "user", q.status = "completed"
        PROVE  \E a \in messages' : Follows(a, q, messages')
    <3>1. CASE q \in wrote
      <4>1. PICK a \in wrote : Follows(a, q, wrote)
        BY <1>2, <2>1, <3>1
      <4>2. \A m \in messages : ~(m.id > q.id)
        BY <1>1, <1>2, <3>1 DEF Message
      <4>3. \A n \in messages' : n.id > q.id => n \in wrote
        BY <1>5, <4>2, MarkedFields
      <4>4. QED BY <1>4, <4>1, <4>3 DEF Follows
    <3>2. CASE q \notin wrote
      <4>1. PICK m \in messages : q = Marked(u, m)
        BY <1>5, <2>1, <3>2
      <4>2. /\ m.role = "user" /\ m.status = "completed" /\ m.id = q.id
            /\ m.dialog = q.dialog /\ m.turn = q.turn
        BY <2>1, <4>1, MarkedFields
      <4>3. PICK b \in messages : Follows(b, m, messages)
        BY <4>2, WholeFollows DEF IInv, RowsAreSound
      <4>4. /\ Marked(u, b) \in messages' /\ Marked(u, b).id = b.id
            /\ Marked(u, b).dialog = b.dialog /\ Marked(u, b).status = b.status
            /\ Marked(u, b).turn = b.turn /\ Marked(u, b).role = b.role
        BY <1>6, MarkedFields
      <4>5. ASSUME NEW n \in messages', n.dialog = q.dialog, n.status = "completed", n.id > q.id
            PROVE  n.id >= b.id
        <5>1. CASE n \in wrote
          BY <1>1, <1>2, <5>1 DEF Message
        <5>2. CASE \E o \in messages : n = Marked(u, o)
          BY <4>2, <4>3, <4>5, <5>2, MarkedFields DEF Follows
        <5>3. QED BY <1>5, <5>1, <5>2
      <4>6. Follows(Marked(u, b), q, messages')
        BY <4>2, <4>3, <4>4, <4>5 DEF Follows
      <4>7. QED BY <4>4, <4>6
    <3>3. QED BY <3>1, <3>2
  <2>2. QED BY <2>1 DEF TurnsStayWhole, Follows
<1>17. \A m \in messages : \E n \in messages' : n.turn = m.turn /\ n.role = m.role
  BY <1>6, MarkedFields
<1>18. \A v \in Updates \ {u} : dialogs[v].state = "none" => dialogs'[v].state = "none"
  BY <1>1, <1>3, <1>9 DEF Active
<1>19. RowsAreSound'
  BY <1>11, <1>12, <1>13, <1>14, <1>15, <1>16 DEF RowsAreSound
<1>20. QED BY <1>4, <1>7, <1>9, <1>17, <1>18, <1>19

LEMMA BlankIsSound ==
  ASSUME NEW u \in Updates, draft'[u] = Blank,
         pc'[u] \notin {"admitted", "summarizing", "summarized", "asking"}
  PROVE  DraftIsSound(u)' /\ ~Working(u)'
<1>1. ~Working(u)' /\ ~draft'[u].answer
  BY BlankType DEF Working
<1>2. DraftInPhase(u)'
  BY <1>1 DEF DraftInPhase
<1>3. QED BY <1>1, <1>2 DEF DraftIsSound

\* While one handler works the others have nothing to lose.
LEMMA OthersWait ==
  ASSUME IInv, NEW u \in Updates, user_lock = u
  PROVE  \A v \in Updates \ {u} :
           draft[v] = Blank /\ pc[v] \notin {"touched", "leased", "admitted", "summarizing", "summarized", "asking"}
BY DEF IInv, HoldersLock, DraftsAreSound, DraftIsSound, DraftInPhase, Working

LEMMA CommitStep ==
  ASSUME IInv, NEW u \in Updates, Working(u), NEW wrote, Adds(u, wrote), CommitDialog(u, wrote),
         next_id' \in Nat, next_id' >= next_id, lease' = lease, balance' \in 0..MaxBalance,
         draft' = [draft EXCEPT ![u] = Blank],
         NEW p \in {"releasing", "done"}, pc' = [pc EXCEPT ![u] = p],
         \/ answered' = answered
         \/ answered' = answered \cup {u} /\ \E m \in wrote : m.turn = u /\ m.role = "assistant",
         charged' \subseteq answered'
  PROVE  IInv'
<1>1. /\ pc'[u] = p /\ draft'[u] = Blank
      /\ \A v \in Updates \ {u} : pc'[v] = pc[v] /\ draft'[v] = draft[v]
  BY DEF IInv, RowsTypeOK
<1>2. user_lock = u
  BY DEF IInv, HoldersLock
<1>3. user_lock' = NoUpdate
  BY <1>2 DEF CommitDialog, Unlocked
<1>4. /\ messages' \subseteq Message /\ dialogs' \in [Updates -> Dialog] /\ RowsAreSound'
      /\ \A m \in messages : \E n \in messages' : n.turn = m.turn /\ n.role = m.role
      /\ wrote \subseteq messages'
      /\ \A v \in Updates \ {u} : dialogs[v].state = "none" => dialogs'[v].state = "none"
  BY CommitRows
<1>5. RowsTypeOK'
  BY <1>3, <1>4, BlankType DEF IInv, RowsTypeOK, Phases
<1>6. \A v \in Updates : DraftIsSound(v)' /\ ~Working(v)' /\ pc'[v] \notin {"touched", "leased"}
  BY <1>1, <1>2, OthersWait, BlankIsSound
<1>7. HoldersLock' /\ DraftsAreSound'
  BY <1>6 DEF HoldersLock, DraftsAreSound
<1>8. FreshDialogs'
  BY <1>1, <1>4 DEF IInv, FreshDialogs
<1>9. LimitKept'
  <2>1. Cardinality(answered) < DayLimit
    BY DEF IInv, DraftsAreSound, DraftIsSound, DraftDialog
  <2>2. IsFiniteSet(answered) /\ Cardinality(answered) \in Nat
    BY FS_Subset, FS_CardinalityType, UpdateAssumption DEF IInv, RowsTypeOK
  <2>3. IsFiniteSet(answered)
    BY <2>2
  <2>4. Cardinality(answered \cup {u}) =
          IF u \in answered THEN Cardinality(answered) ELSE Cardinality(answered) + 1
    BY ONLY <2>3, FS_AddElement
  <2>5. CASE answered' = answered
    BY <2>1, <2>2, <2>5, LimitAssumption DEF LimitKept
  <2>6. CASE answered' = answered \cup {u}
    <3>1. Cardinality(answered') <= Cardinality(answered) + 1
      BY <2>2, <2>4, <2>6
    <3>2. Cardinality(answered') \in Nat
      BY <2>2, <2>4, <2>6
    <3>3. DayLimit \in Nat
      BY LimitAssumption
    <3>4. Cardinality(answered') <= DayLimit
      BY <2>1, <2>2, <3>1, <3>2, <3>3
    <3>5. QED BY <3>4 DEF LimitKept
  <2>7. QED BY <2>5, <2>6
<1>10. ChargesStored'
  BY <1>4 DEF IInv, ChargesStored
<1>11. QED BY <1>4, <1>5, <1>7, <1>8, <1>9, <1>10 DEF IInv

LEMMA AnswerStep ==
  ASSUME IInv, NEW u \in Updates, Answer(u)
  PROVE  IInv'
<1>1. /\ Working(u) /\ draft[u].question \in Nat /\ next_id \in Nat /\ draft[u].dialog \in Updates
      /\ draft[u].question < next_id /\ \A m \in messages : m.id < draft[u].question
  BY DEF Answer, Working, IInv, DraftsAreSound, DraftIsSound, DraftDialog, DraftQuestion, RowsTypeOK, Draft
<1>2. next_id' = next_id + 1 /\ next_id' \in Nat /\ next_id' >= next_id
  BY <1>1 DEF Answer
<1>3. Exchange(u) = {Says(u, draft[u].question, "user", "completed"),
                     Says(u, next_id, "assistant", "completed")}
  BY DEF Exchange, Question
<1>4. Adds(u, Exchange(u))
  BY <1>1, <1>2, <1>3 DEF Adds
<1>5. \E m \in Exchange(u) : m.turn = u /\ m.role = "assistant"
  BY <1>1, <1>3, SaysFields
<1>6. balance' \in 0..MaxBalance
  BY LimitAssumption DEF Answer, IInv, RowsTypeOK
<1>7. charged' \subseteq answered'
  BY DEF Answer, IInv, ChargesStored
<1>8. /\ CommitDialog(u, Exchange(u)) /\ answered' = answered \cup {u} /\ lease' = lease
      /\ draft' = [draft EXCEPT ![u] = Blank] /\ pc' = [pc EXCEPT ![u] = "releasing"]
  BY DEF Answer
<1>9. QED BY <1>1, <1>2, <1>4, <1>5, <1>6, <1>7, <1>8, CommitStep

LEMMA FailStep ==
  ASSUME IInv, NEW u \in Updates, Fail(u)
  PROVE  IInv'
<1>1. /\ Working(u) /\ draft[u].question \in Nat /\ next_id \in Nat
      /\ draft[u].question < next_id /\ \A m \in messages : m.id < draft[u].question
  BY DEF Fail, Working, IInv, DraftsAreSound, DraftIsSound, DraftQuestion, RowsTypeOK, Draft
<1>2. Adds(u, {Question(u, "failed")})
  BY <1>1 DEF Fail, Adds, Question
<1>3. charged' \subseteq answered' /\ balance' \in 0..MaxBalance
  BY DEF Fail, IInv, ChargesStored, RowsTypeOK
<1>4. /\ CommitDialog(u, {Question(u, "failed")}) /\ answered' = answered /\ lease' = lease
      /\ draft' = [draft EXCEPT ![u] = Blank] /\ pc' = [pc EXCEPT ![u] = "releasing"]
      /\ next_id' = next_id
  BY DEF Fail
<1>5. next_id' \in Nat /\ next_id' >= next_id
  BY <1>1, <1>4
<1> DEFINE wrote == {Question(u, "failed")}
<1> HIDE DEF wrote
<1>6. Working(u) /\ Adds(u, wrote) /\ CommitDialog(u, wrote)
  BY <1>1, <1>2, <1>4 DEF wrote
<1>7. QED BY <1>3, <1>4, <1>5, <1>6, CommitStep

LEMMA ReturnStep ==
  ASSUME IInv, NEW u \in Updates, Return(u)
  PROVE  IInv'
<1>1. next_id \in Nat /\ next_id' = next_id /\ next_id' >= next_id
  BY DEF Return, IInv, RowsTypeOK
<1>2. /\ draft' = [draft EXCEPT ![u] = Blank] /\ pc' = [pc EXCEPT ![u] = "done"]
      /\ UNCHANGED <<lease, charged, balance>>
  BY DEF Return
<1>3. CASE draft[u].answer
  <2>1. CommitDialog(u, draft[u].wrote) /\ answered' = answered \cup {u} /\ Working(u)
    BY <1>3 DEF Return, Working
  <2>2. DraftReply(u) /\ draft[u].dialog \in Updates
    BY <1>3, <2>1 DEF IInv, DraftsAreSound, DraftIsSound, DraftDialog
  <2>3. PICK i, j \in Nat :
          /\ i < j /\ j < next_id /\ \A m \in messages : m.id < i
          /\ draft[u].wrote = {Says(u, i, "user", "completed"), Says(u, j, "assistant", "completed")}
    BY <2>2 DEF DraftReply
  <2>4. Adds(u, draft[u].wrote)
    BY <1>1, <2>3 DEF Adds
  <2>5. \E m \in draft[u].wrote : m.turn = u /\ m.role = "assistant"
    BY <2>2, <2>3, SaysFields
  <2>6. charged' \subseteq answered' /\ balance' \in 0..MaxBalance
    BY <1>2, <2>1 DEF IInv, ChargesStored, RowsTypeOK
  <2>7. QED BY <1>1, <1>2, <2>1, <2>4, <2>5, <2>6, CommitStep
<1>4. CASE ~draft[u].answer
  <2>1. user_lock' = Unlocked(u) /\ UNCHANGED rows
    BY <1>2, <1>4 DEF Return, rows
  <2>2. user_lock \notin {u, NoUpdate} => user_lock' = user_lock
    BY <2>1 DEF Unlocked
  <2>3. draft'[u] = Blank /\ pc'[u] = "done"
    BY <1>2 DEF IInv, RowsTypeOK
  <2>4. DraftIsSound(u)' /\ ~Working(u)'
    BY <2>3, BlankIsSound
  <2>5. "done" \in Phases /\ lease' \in Updates \cup {NoUpdate}
    BY <1>2 DEF Phases, IInv, RowsTypeOK
  <2>6. QED BY <1>1, <1>2, <2>1, <2>2, <2>4, <2>5, BlankType, QuietStep
<1>5. QED BY <1>3, <1>4

LEMMA GiveUpStep ==
  ASSUME IInv, NEW u \in Updates, GiveUp(u)
  PROVE  IInv'
<1>1. /\ draft' = [draft EXCEPT ![u] = Blank] /\ pc' = [pc EXCEPT ![u] = "done"]
      /\ UNCHANGED <<lease, rows, balance, next_id>> /\ user_lock' = Unlocked(u)
  BY DEF GiveUp
<1>2. user_lock \notin {u, NoUpdate} => user_lock' = user_lock
  BY <1>1 DEF Unlocked
<1>3. draft'[u] = Blank /\ pc'[u] = "done"
  BY <1>1 DEF IInv, RowsTypeOK
<1>4. DraftIsSound(u)' /\ ~Working(u)'
  BY <1>3, BlankIsSound
<1>5. /\ "done" \in Phases /\ lease' \in Updates \cup {NoUpdate}
      /\ next_id' \in Nat /\ next_id' >= next_id
  BY <1>1 DEF Phases, IInv, RowsTypeOK
<1>6. QED BY <1>1, <1>2, <1>4, <1>5, BlankType, QuietStep

LEMMA RotateStep ==
  ASSUME IInv, NEW u \in Updates, Rotate(u)
  PROVE  IInv'
<1>1. /\ pc[u] = "leased" /\ user_lock = u /\ dialogs[u].state = "none"
      /\ dialogs \in [Updates -> Dialog] /\ messages \subseteq Message
  BY DEF Rotate, IInv, HoldersLock, FreshDialogs, RowsTypeOK
<1>2. /\ dialogs' = [d \in Updates |->
           IF d = u THEN [state |-> "active", summary |-> {}]
           ELSE IF d \in Active THEN [dialogs[d] EXCEPT !.state = "closed"] ELSE dialogs[d]]
      /\ user_lock' = Unlocked(u) /\ pc' = [pc EXCEPT ![u] = "releasing"]
      /\ UNCHANGED <<draft, lease, messages, answered, charged, balance, next_id>>
  BY DEF Rotate
<1>3. /\ user_lock' = NoUpdate /\ pc'[u] = "releasing"
      /\ \A v \in Updates \ {u} : pc'[v] = pc[v]
  BY <1>1, <1>2 DEF Unlocked, IInv, RowsTypeOK
<1>4. draft[u] = Blank
  BY <1>1 DEF IInv, DraftsAreSound, DraftIsSound, DraftInPhase, Working
<1>5. \A v \in Updates : DraftIsSound(v)' /\ ~Working(v)' /\ pc'[v] \notin {"touched", "leased"}
  BY <1>1, <1>2, <1>3, <1>4, OthersWait, BlankIsSound
<1>6. HoldersLock' /\ DraftsAreSound'
  BY <1>5 DEF HoldersLock, DraftsAreSound
<1>7. /\ dialogs'[u].state = "active" /\ dialogs'[u].summary = {}
      /\ \A d \in Updates \ {u} :
           /\ dialogs'[d].summary = dialogs[d].summary
           /\ dialogs'[d].state = IF dialogs[d].state = "active" THEN "closed" ELSE dialogs[d].state
      /\ dialogs' \in [Updates -> Dialog]
  BY <1>1, <1>2 DEF Active, Dialog
<1>8. RowsTypeOK'
  BY <1>2, <1>3, <1>7 DEF IInv, RowsTypeOK, Phases
<1>9. FreshDialogs'
  BY <1>3, <1>7 DEF IInv, FreshDialogs
<1>10. OneActive'
  BY <1>7 DEF OneActive, Active
<1>11. \A m \in messages : m.dialog # u /\ m.dialog \in Updates
  BY <1>1 DEF IInv, RowsAreSound, DialogsBegin, Message
<1>12. DialogsBegin'
  BY <1>2, <1>7, <1>11 DEF IInv, RowsAreSound, DialogsBegin
<1>13. SummaryCoversMarked'
  <2>1. Ids({m \in messages : m.dialog = u /\ m.is_summarized}) = {}
    BY <1>11 DEF Ids
  <2>2. QED BY <1>2, <1>7, <2>1 DEF IInv, RowsAreSound, SummaryCoversMarked
<1>14. IdsAreTaken' /\ IdsAreUnique' /\ TurnsStayWhole' /\ LimitKept' /\ ChargesStored'
  BY <1>2 DEF IInv, RowsAreSound, IdsAreTaken, IdsAreUnique, TurnsStayWhole, LimitKept, ChargesStored
<1>15. QED BY <1>6, <1>8, <1>9, <1>10, <1>12, <1>13, <1>14 DEF IInv, RowsAreSound

LEMMA CrashStep == IInv /\ Crash => IInv'
<1> SUFFICES ASSUME IInv, Crash PROVE IInv'
  OBVIOUS
<1>1. /\ pc' = [u \in Updates |-> IF u \in InHandler THEN "dead" ELSE pc[u]]
      /\ draft' = [u \in Updates |-> Blank] /\ user_lock' = NoUpdate
      /\ UNCHANGED <<lease, rows, balance, next_id>>
  BY DEF Crash
<1>2. \A v \in Updates : pc'[v] \in {"sent", "done", "dead"} /\ (pc'[v] = "sent" => pc[v] = "sent")
  BY <1>1 DEF InHandler
<1>3. \A v \in Updates : DraftIsSound(v)' /\ ~Working(v)'
  BY <1>1, <1>2, BlankIsSound
<1>4. HoldersLock' /\ DraftsAreSound'
  BY <1>2, <1>3 DEF HoldersLock, DraftsAreSound
<1>5. next_id' \in Nat /\ next_id' >= next_id
  BY <1>1 DEF IInv, RowsTypeOK
<1>6. RowsAreSound' /\ LimitKept' /\ ChargesStored'
  BY <1>1, <1>5, RowsStay
<1>7. RowsTypeOK'
  BY <1>1, <1>2, BlankType DEF IInv, RowsTypeOK, rows, Phases
<1>8. FreshDialogs'
  BY <1>1, <1>2 DEF IInv, FreshDialogs, rows
<1>9. QED BY <1>4, <1>6, <1>7, <1>8 DEF IInv

-----------------------------------------------------------------------------
(* Handlers at work.                                                        *)

\* A step to a phase in which nothing is drafted.
LEMMA BlankStep ==
  ASSUME IInv, NEW u \in Updates,
         NEW p \in {"touched", "leased", "releasing", "replying", "breaking"},
         pc' = [pc EXCEPT ![u] = p], draft' = [draft EXCEPT ![u] = Blank],
         UNCHANGED <<rows, balance, next_id>>, lease' \in Updates \cup {NoUpdate},
         \/ user_lock' = user_lock /\ (p = "leased" => pc[u] = "touched")
         \/ user_lock' = u /\ user_lock = NoUpdate,
         p \in {"touched", "leased"} => pc[u] \in {"sent", "touched", "leased"} /\ user_lock' = u
  PROVE  IInv'
<1>1. pc'[u] = p /\ draft'[u] = Blank
  BY DEF IInv, RowsTypeOK
<1>2. DraftIsSound(u)' /\ ~Working(u)'
  BY <1>1, BlankIsSound
<1>3. p \in Phases /\ next_id' \in Nat /\ next_id' >= next_id
  BY DEF Phases, IInv, RowsTypeOK
<1>4. user_lock \notin {u, NoUpdate} => user_lock' = user_lock
  OBVIOUS
<1>5. user_lock' = u \/ user_lock' = user_lock
  OBVIOUS
<1>6. QED BY <1>2, <1>3, <1>4, <1>5, BlankType, QuietStep DEF Phases

\* Before a turn begins its draft is blank.
LEMMA BlankBefore ==
  ASSUME IInv, NEW u \in Updates, pc[u] \in {"sent", "touched", "leased"}
  PROVE  draft[u] = Blank /\ draft = [draft EXCEPT ![u] = Blank]
         /\ (pc[u] # "sent" => user_lock = u)
BY DEF IInv, RowsTypeOK, HoldersLock, DraftsAreSound, DraftIsSound, DraftInPhase, Working

LEMMA EnterStep ==
  ASSUME IInv, NEW u \in Updates,
         Touch(u) \/ RefuseAtOnce(u) \/ Acquire(u) \/ RefuseInLease(u)
  PROVE  IInv'
<1>1. CASE Touch(u)
  <2>1. draft' = [draft EXCEPT ![u] = Blank]
    BY <1>1, BlankBefore DEF Touch
  <2>2. lease' \in Updates \cup {NoUpdate}
    BY <1>1 DEF Touch, IInv, RowsTypeOK
  <2>3. QED BY <1>1, <2>1, <2>2, BlankStep DEF Touch
<1>2. CASE RefuseAtOnce(u)
  <2>1. draft' = [draft EXCEPT ![u] = Blank]
    BY <1>2, BlankBefore DEF RefuseAtOnce
  <2>2. lease' \in Updates \cup {NoUpdate}
    BY <1>2 DEF RefuseAtOnce, IInv, RowsTypeOK
  <2>3. QED BY <1>2, <2>1, <2>2, BlankStep DEF RefuseAtOnce
<1>3. CASE Acquire(u)
  <2>1. draft' = [draft EXCEPT ![u] = Blank] /\ user_lock' = user_lock /\ user_lock = u
    BY <1>3, BlankBefore DEF Acquire
  <2>2. lease' \in Updates \cup {NoUpdate}
    BY <1>3 DEF Acquire, IInv, RowsTypeOK
  <2>3. PICK p \in {"leased", "replying"} : pc' = [pc EXCEPT ![u] = p]
    BY <1>3 DEF Acquire
  <2>4. pc[u] = "touched" /\ UNCHANGED <<rows, balance, next_id>>
    BY <1>3 DEF Acquire
  <2>5. QED BY <2>1, <2>2, <2>3, <2>4, BlankStep
<1>4. CASE RefuseInLease(u)
  <2>1. draft' = [draft EXCEPT ![u] = Blank]
    BY <1>4, BlankBefore DEF RefuseInLease
  <2>2. lease' \in Updates \cup {NoUpdate}
    BY <1>4 DEF RefuseInLease, IInv, RowsTypeOK
  <2>3. QED BY <1>4, <2>1, <2>2, BlankStep DEF RefuseInLease
<1>5. QED BY <1>1, <1>2, <1>3, <1>4

LEMMA BreakStep ==
  ASSUME IInv, NEW u \in Updates, Break(u)
  PROVE  IInv'
<1>1. lease' \in Updates \cup {NoUpdate}
  BY DEF Break, IInv, RowsTypeOK
<1>2. QED BY <1>1, BlankStep DEF Break

\* A step of a handler that works on: it keeps its lock and its dialog.
LEMMA WorkStep ==
  ASSUME IInv, NEW u \in Updates, user_lock = u,
         NEW p \in Phases \ {"sent", "touched", "leased"}, NEW d \in Draft,
         pc' = [pc EXCEPT ![u] = p], draft' = [draft EXCEPT ![u] = d],
         UNCHANGED <<user_lock, lease, rows, balance>>,
         next_id' \in Nat, next_id' >= next_id, DraftIsSound(u)'
  PROVE  IInv'
<1>1. lease' \in Updates \cup {NoUpdate}
  BY DEF IInv, RowsTypeOK
<1>2. QED BY <1>1, QuietStep

\* What a working handler may rely on.
LEMMA AtWork ==
  ASSUME IInv, NEW u \in Updates, pc[u] \in {"admitted", "summarizing", "summarized", "asking"}
  PROVE  /\ user_lock = u /\ draft[u] \in Draft /\ DraftDialog(u) /\ DraftFolding(u)
         /\ ~draft[u].answer /\ next_id \in Nat /\ messages \subseteq Message
         /\ dialogs \in [Updates -> Dialog]
BY DEF IInv, RowsTypeOK, HoldersLock, DraftsAreSound, DraftIsSound, DraftInPhase, Working

\* The dialog stays right as long as the rows do.
LEMMA DialogStays ==
  ASSUME NEW u \in Updates, DraftDialog(u), UNCHANGED rows,
         draft'[u].dialog = draft[u].dialog, draft'[u].opened = draft[u].opened
  PROVE  DraftDialog(u)'
<1>1. UNCHANGED <<dialogs, messages, answered>> /\ Active' = Active
  BY DEF rows, Active
<1>2. QED BY <1>1 DEF DraftDialog

LEMMA AdmitStep ==
  ASSUME IInv, NEW u \in Updates, Admit(u)
  PROVE  IInv'
<1>1. PICK e \in IF Active = {} THEN {u} ELSE Active :
        draft' = [draft EXCEPT ![u] = [draft[u] EXCEPT !.dialog = e, !.opened = (Active = {})]]
  BY DEF Admit
<1> DEFINE d == [Blank EXCEPT !.dialog = e, !.opened = (Active = {})]
<1>2. pc[u] = "leased" /\ draft[u] = Blank /\ user_lock = u /\ dialogs[u].state = "none"
  BY BlankBefore DEF Admit, IInv, FreshDialogs
<1>3. e \in Updates
  BY <1>1 DEF Active
<1>4. /\ d \in Draft /\ d.dialog = e /\ d.opened = (Active = {}) /\ d.answer = FALSE /\ d.folded = {}
  BY <1>3, BlankType DEF Draft, Blank
<1>5. draft' = [draft EXCEPT ![u] = d]
  BY <1>1, <1>2
<1> HIDE DEF d
<1>6. /\ pc' = [pc EXCEPT ![u] = "admitted"] /\ UNCHANGED <<user_lock, lease, rows, balance, next_id>>
      /\ Cardinality(answered) < DayLimit
  BY DEF Admit
<1>7. pc'[u] = "admitted" /\ draft'[u] = d /\ Active' = Active /\ UNCHANGED <<dialogs, messages, answered>>
  BY <1>5, <1>6 DEF IInv, RowsTypeOK, Active, rows
<1>8. Active = IF Active = {} THEN {} ELSE {e}
  BY <1>1 DEF IInv, RowsAreSound, OneActive
<1>9. DraftDialog(u)'
  BY <1>1, <1>2, <1>3, <1>4, <1>6, <1>7, <1>8 DEF DraftDialog
<1>10. DraftFolding(u)'
  BY <1>4, <1>7 DEF DraftFolding
<1>11. DraftIsSound(u)'
  BY <1>4, <1>7, <1>9, <1>10 DEF DraftIsSound, DraftInPhase, Working
<1>12. next_id' \in Nat /\ next_id' >= next_id /\ "admitted" \in Phases \ {"sent", "touched", "leased"}
  BY <1>6 DEF IInv, RowsTypeOK, Phases
<1>13. QED BY <1>2, <1>4, <1>5, <1>6, <1>11, <1>12, WorkStep

LEMMA CandidatesOpen ==
  ASSUME NEW u \in Updates
  PROVE  Candidates(u) \subseteq Unsummarized(draft[u].dialog, messages)
BY DEF Candidates, Oldest

LEMMA StartSummaryStep ==
  ASSUME IInv, NEW u \in Updates, StartSummary(u)
  PROVE  IInv'
<1>1. PICK k \in 1..Trigger :
        draft' = [draft EXCEPT ![u] =
          [draft[u] EXCEPT !.folding = Ids(Oldest(k, Candidates(u))),
                           !.summary = dialogs[draft[u].dialog].summary]]
  BY DEF StartSummary
<1> DEFINE f == Ids(Oldest(k, Candidates(u)))
           s == dialogs[draft[u].dialog].summary
           open == Ids(Unsummarized(draft[u].dialog, messages))
           d == [draft[u] EXCEPT !.folding = f, !.summary = s]
<1>2. /\ pc[u] = "admitted" /\ pc' = [pc EXCEPT ![u] = "summarizing"]
      /\ UNCHANGED <<user_lock, lease, rows, balance, next_id>>
  BY DEF StartSummary
<1>3. /\ user_lock = u /\ draft[u] \in Draft /\ DraftDialog(u) /\ DraftFolding(u)
      /\ ~draft[u].answer /\ next_id \in Nat /\ messages \subseteq Message
      /\ dialogs \in [Updates -> Dialog]
  BY <1>2, AtWork
<1>4. f \subseteq open /\ open \subseteq Nat /\ s \subseteq Nat
  <2>1. Oldest(k, Candidates(u)) \subseteq Unsummarized(draft[u].dialog, messages)
    BY CandidatesOpen DEF Oldest
  <2>2. Unsummarized(draft[u].dialog, messages) \subseteq Message
    BY <1>3 DEF Unsummarized
  <2>3. f \subseteq open
    BY <2>1 DEF Ids
  <2>4. open \subseteq Nat
    BY <2>2 DEF Ids, Message
  <2>5. s \subseteq Nat
    BY <1>3 DEF Dialog, DraftDialog
  <2>6. QED BY <2>3, <2>4, <2>5
<1>5. draft[u].folded = {}
  BY <1>2, <1>3 DEF DraftFolding
<1> HIDE DEF f, s, open
<1>6. /\ d \in Draft /\ d.folding = f /\ d.summary = s /\ d.folded = {} /\ d.answer = FALSE
      /\ d.dialog = draft[u].dialog /\ d.opened = draft[u].opened
  BY <1>3, <1>4, <1>5 DEF Draft
<1>7. draft' = [draft EXCEPT ![u] = d]
  BY <1>1 DEF f, s
<1> HIDE DEF d
<1>8. pc'[u] = "summarizing" /\ draft'[u] = d /\ UNCHANGED <<dialogs, messages>>
  BY <1>2, <1>7 DEF IInv, RowsTypeOK, rows
<1>9. DraftDialog(u)'
  BY <1>2, <1>3, <1>6, <1>8, DialogStays
<1>10. DraftFolding(u)'
  BY <1>4, <1>6, <1>8 DEF DraftFolding, open, s
<1>11. DraftIsSound(u)'
  BY <1>6, <1>8, <1>9, <1>10 DEF DraftIsSound, DraftInPhase, Working
<1>12. next_id' \in Nat /\ next_id' >= next_id /\ "summarizing" \in Phases \ {"sent", "touched", "leased"}
  BY <1>2, <1>3 DEF Phases
<1>13. QED BY <1>2, <1>3, <1>6, <1>7, <1>11, <1>12, WorkStep

\* The summary is done, or there is none to make.
LEMMA SummaryStep ==
  ASSUME IInv, NEW u \in Updates, SkipSummary(u) \/ EndSummary(u)
  PROVE  IInv'
<1>1. /\ pc[u] \in {"admitted", "summarizing"} /\ pc' = [pc EXCEPT ![u] = "summarized"]
      /\ UNCHANGED <<user_lock, lease, rows, balance, next_id>>
  BY DEF SkipSummary, EndSummary
<1>2. /\ user_lock = u /\ draft[u] \in Draft /\ DraftDialog(u) /\ DraftFolding(u)
      /\ ~draft[u].answer /\ next_id \in Nat
  BY <1>1, AtWork
<1>3. draft \in [Updates -> Draft]
  BY DEF IInv, RowsTypeOK
<1>4. PICK d \in Draft :
        /\ draft' = [draft EXCEPT ![u] = d]
        /\ d.dialog = draft[u].dialog /\ d.opened = draft[u].opened /\ d.answer = FALSE
        /\ d.folded \subseteq Ids(Unsummarized(d.dialog, messages))
        /\ d.folded # {} => d.summary = dialogs[d.dialog].summary \cup d.folded
  <2>1. CASE UNCHANGED draft
    <3>1. draft' = [draft EXCEPT ![u] = draft[u]]
      BY <1>3, <2>1
    <3>2. draft[u].answer = FALSE
      BY <1>2 DEF Draft
    <3>3. QED BY <1>2, <3>1, <3>2 DEF DraftFolding
  <2>2. CASE ~UNCHANGED draft
    <3> DEFINE s == draft[u].summary \cup draft[u].folding
               d == [draft[u] EXCEPT !.folded = draft[u].folding, !.summary = s]
    <3>1. pc[u] = "summarizing" /\ draft' = [draft EXCEPT ![u] = d]
      BY <2>2 DEF SkipSummary, EndSummary
    <3>2. /\ draft[u].folding \subseteq Ids(Unsummarized(draft[u].dialog, messages))
          /\ s = dialogs[draft[u].dialog].summary \cup draft[u].folding
      BY <1>2, <3>1 DEF DraftFolding
    <3>3. s \subseteq Nat
      BY <1>2 DEF Draft
    <3> HIDE DEF s
    <3>4. /\ d \in Draft /\ d.folded = draft[u].folding /\ d.summary = s
          /\ d.dialog = draft[u].dialog /\ d.opened = draft[u].opened /\ d.answer = FALSE
      BY <1>2, <3>3 DEF Draft
    <3> HIDE DEF d
    <3>5. QED BY <3>1, <3>2, <3>4
  <2>3. QED BY <2>1, <2>2
<1>5. pc'[u] = "summarized" /\ draft'[u] = d /\ UNCHANGED <<dialogs, messages>>
  BY <1>1, <1>3, <1>4 DEF IInv, RowsTypeOK, rows
<1>6. DraftDialog(u)'
  BY <1>1, <1>2, <1>4, <1>5, DialogStays
<1>7. DraftFolding(u)'
  BY <1>4, <1>5 DEF DraftFolding
<1>8. DraftIsSound(u)'
  BY <1>4, <1>5, <1>6, <1>7 DEF DraftIsSound, DraftInPhase, Working
<1>9. next_id' \in Nat /\ next_id' >= next_id /\ "summarized" \in Phases \ {"sent", "touched", "leased"}
  BY <1>1, <1>2 DEF Phases
<1>10. QED BY <1>1, <1>2, <1>4, <1>8, <1>9, WorkStep

LEMMA ContextType ==
  ASSUME IInv, NEW u \in Updates, Working(u)
  PROVE  Context(u) \in [summary: SUBSET Nat, recent: SUBSET Message]
<1>1. draft[u].dialog \in Updates /\ draft[u] \in Draft /\ dialogs \in [Updates -> Dialog]
  BY DEF IInv, RowsTypeOK, DraftsAreSound, DraftIsSound, DraftDialog
<1>2. SummarySeen(u) \subseteq Nat
  BY <1>1 DEF SummarySeen, Draft, Dialog
<1>3. Seen(u) \subseteq Message
  BY SeenMarked, MarkedFields
<1>4. Newest(History, Unsummarized(draft[u].dialog, Seen(u))) \subseteq Message
  BY <1>3 DEF Newest, Unsummarized
<1>5. QED BY <1>2, <1>4 DEF Context

LEMMA AskStep ==
  ASSUME IInv, NEW u \in Updates, Ask(u)
  PROVE  IInv'
<1> DEFINE c == Context(u)
           d == [draft[u] EXCEPT !.context = c, !.question = next_id]
<1>1. /\ pc[u] = "summarized" /\ pc' = [pc EXCEPT ![u] = "asking"] /\ next_id' = next_id + 1
      /\ UNCHANGED <<user_lock, lease, rows, balance>>
      /\ draft' = [draft EXCEPT ![u] = d]
  BY DEF Ask
<1>2. /\ user_lock = u /\ draft[u] \in Draft /\ DraftDialog(u) /\ DraftFolding(u)
      /\ ~draft[u].answer /\ next_id \in Nat
  BY <1>1, AtWork
<1>3. c \in [summary: SUBSET Nat, recent: SUBSET Message]
  BY <1>1, ContextType DEF Working
<1> HIDE DEF c
<1>4. /\ d \in Draft /\ d.context = c /\ d.question = next_id /\ d.answer = FALSE
      /\ d.dialog = draft[u].dialog /\ d.opened = draft[u].opened
      /\ d.folded = draft[u].folded /\ d.summary = draft[u].summary
  BY <1>2, <1>3 DEF Draft
<1> HIDE DEF d
<1>5. pc'[u] = "asking" /\ draft'[u] = d /\ UNCHANGED <<dialogs, messages>>
  BY <1>1 DEF IInv, RowsTypeOK, rows
<1>6. Context(u)' = c
  BY <1>4, <1>5, SameReading DEF c
<1>7. DraftDialog(u)'
  BY <1>1, <1>2, <1>4, <1>5, DialogStays
<1>8. DraftFolding(u)'
  BY <1>2, <1>4, <1>5 DEF DraftFolding
<1>9. DraftQuestion(u)'
  BY <1>1, <1>2, <1>4, <1>5, <1>6 DEF DraftQuestion, IInv, RowsAreSound, IdsAreTaken
<1>10. DraftIsSound(u)'
  BY <1>4, <1>5, <1>7, <1>8, <1>9 DEF DraftIsSound, DraftInPhase, Working
<1>11. next_id' \in Nat /\ next_id' >= next_id /\ "asking" \in Phases \ {"sent", "touched", "leased"}
  BY <1>1, <1>2 DEF Phases
<1>12. QED BY <1>1, <1>2, <1>4, <1>10, <1>11, WorkStep

LEMMA AnswerUnpaidStep ==
  ASSUME IInv, NEW u \in Updates, AnswerUnpaid(u)
  PROVE  IInv'
<1> DEFINE x == Exchange(u)
           d == [draft[u] EXCEPT !.wrote = x, !.answer = TRUE]
<1>1. /\ pc[u] = "asking" /\ pc' = [pc EXCEPT ![u] = "releasing"] /\ next_id' = next_id + 1
      /\ UNCHANGED <<user_lock, lease, rows, balance>>
      /\ draft' = [draft EXCEPT ![u] = d]
  BY DEF AnswerUnpaid
<1>2. /\ user_lock = u /\ draft[u] \in Draft /\ DraftDialog(u) /\ DraftFolding(u)
      /\ ~draft[u].answer /\ next_id \in Nat
  BY <1>1, AtWork
<1>3. /\ draft[u].question \in Nat /\ draft[u].question < next_id
      /\ \A m \in messages : m.id < draft[u].question
  BY <1>1, <1>2 DEF IInv, DraftsAreSound, DraftIsSound, DraftQuestion, Draft
<1>4. x = {Says(u, draft[u].question, "user", "completed"), Says(u, next_id, "assistant", "completed")}
  BY DEF Exchange, Question
<1>5. x \subseteq Message
  BY <1>2, <1>3, <1>4, SaysFields DEF DraftDialog
<1> HIDE DEF x
<1>6. /\ d \in Draft /\ d.wrote = x /\ d.answer = TRUE
      /\ d.dialog = draft[u].dialog /\ d.opened = draft[u].opened
      /\ d.folded = draft[u].folded /\ d.summary = draft[u].summary
  BY <1>2, <1>5 DEF Draft
<1> HIDE DEF d
<1>7. pc'[u] = "releasing" /\ draft'[u] = d /\ UNCHANGED <<dialogs, messages>>
  BY <1>1 DEF IInv, RowsTypeOK, rows
<1>8. \A i, role, status : Says(u, i, role, status)' = Says(u, i, role, status)
  BY <1>6, <1>7, SameReading
<1>9. DraftDialog(u)'
  BY <1>1, <1>2, <1>6, <1>7, DialogStays
<1>10. DraftFolding(u)'
  BY <1>2, <1>6, <1>7 DEF DraftFolding
<1>11. DraftReply(u)'
  BY <1>1, <1>2, <1>3, <1>4, <1>6, <1>7, <1>8 DEF DraftReply
<1>12. DraftIsSound(u)'
  BY <1>6, <1>7, <1>9, <1>10, <1>11 DEF DraftIsSound, DraftInPhase, Working
<1>13. next_id' \in Nat /\ next_id' >= next_id /\ "releasing" \in Phases \ {"sent", "touched", "leased"}
  BY <1>1, <1>2 DEF Phases
<1>14. QED BY <1>1, <1>2, <1>6, <1>7, <1>12, <1>13, WorkStep

\* The lease is let go and the user is told; what is left to commit stays.
LEMMA ReleaseStep ==
  ASSUME IInv, NEW u \in Updates, Release(u) \/ Reply(u)
  PROVE  IInv'
<1>a. PICK p \in {"replying", "returning", "breaking"} : pc' = [pc EXCEPT ![u] = p]
  BY DEF Release, Reply
<1>1. /\ pc[u] \in {"releasing", "replying"} /\ pc' = [pc EXCEPT ![u] = p]
      /\ UNCHANGED <<draft, user_lock, rows, balance, next_id>>
      /\ lease' \in Updates \cup {NoUpdate}
  BY <1>a DEF Release, Reply, IInv, RowsTypeOK
<1>2. draft' = [draft EXCEPT ![u] = draft[u]] /\ draft[u] \in Draft /\ next_id \in Nat
  BY <1>1 DEF IInv, RowsTypeOK
<1>3. pc'[u] = p /\ draft'[u] = draft[u] /\ UNCHANGED <<dialogs, messages>>
  BY <1>1 DEF IInv, RowsTypeOK, rows
<1>4. DraftIsSound(u) /\ (Working(u) => user_lock = u) /\ Working(u)' = Working(u)
  BY <1>1, <1>3 DEF IInv, DraftsAreSound, HoldersLock, Working
<1>5. \A i, role, status : Says(u, i, role, status)' = Says(u, i, role, status)
  BY <1>3, SameReading
<1>6. Working(u) => DraftDialog(u)' /\ DraftFolding(u)'
  <2> SUFFICES ASSUME Working(u) PROVE DraftDialog(u)' /\ DraftFolding(u)'
    OBVIOUS
  <2>1. DraftDialog(u) /\ DraftFolding(u)
    BY <1>4 DEF DraftIsSound
  <2>2. DraftDialog(u)'
    BY <1>1, <1>3, <2>1, DialogStays
  <2>3. DraftFolding(u)'
    BY <1>3, <2>1 DEF DraftFolding
  <2>4. QED BY <2>2, <2>3
<1>7. draft[u].answer => DraftReply(u)'
  BY <1>1, <1>3, <1>4, <1>5 DEF DraftIsSound, DraftReply
<1>8. DraftIsSound(u)'
  BY <1>1, <1>3, <1>4, <1>6, <1>7 DEF DraftIsSound, DraftInPhase
<1>9. p \in Phases /\ next_id' >= next_id /\ user_lock' = user_lock
  BY <1>1, <1>2 DEF Phases
<1>10. QED BY <1>1, <1>2, <1>4, <1>8, <1>9, QuietStep

LEMMA OutsideStep ==
  ASSUME IInv, Expire \/ MoveBalance \/ UNCHANGED vars
  PROVE  IInv'
<1>1. /\ UNCHANGED <<pc, draft, user_lock, rows, next_id>>
      /\ lease' \in Updates \cup {NoUpdate} /\ balance' \in 0..MaxBalance
  BY DEF Expire, MoveBalance, vars, rows, IInv, RowsTypeOK
<1>2. next_id' \in Nat /\ next_id' >= next_id
  BY <1>1 DEF IInv, RowsTypeOK
<1>3. RowsAreSound' /\ LimitKept' /\ ChargesStored'
  BY <1>1, <1>2, RowsStay
<1>4. DraftsAreSound'
  BY <1>1, <1>2, DraftStays DEF DraftsAreSound
<1>5. RowsTypeOK' /\ FreshDialogs' /\ HoldersLock'
  BY <1>1 DEF IInv, RowsTypeOK, rows, FreshDialogs, HoldersLock, Working
<1>6. QED BY <1>3, <1>4, <1>5 DEF IInv

LEMMA StepHolds == IInv /\ [Next]_vars => IInv'
<1> SUFFICES ASSUME IInv, [Next]_vars PROVE IInv'
  OBVIOUS
<1>1. CASE \E u \in Updates : Touch(u) \/ RefuseAtOnce(u) \/ Acquire(u) \/ RefuseInLease(u) \/ Break(u)
  BY <1>1, EnterStep, BreakStep
<1>2. CASE \E u \in Updates : Rotate(u) \/ Admit(u) \/ StartSummary(u) \/ SkipSummary(u) \/ EndSummary(u)
  BY <1>2, RotateStep, AdmitStep, StartSummaryStep, SummaryStep
<1>3. CASE \E u \in Updates : Ask(u) \/ Answer(u) \/ AnswerUnpaid(u) \/ Fail(u)
                           \/ Release(u) \/ Reply(u) \/ Return(u) \/ GiveUp(u)
  BY <1>3, AskStep, AnswerStep, AnswerUnpaidStep, FailStep, ReleaseStep, ReturnStep, GiveUpStep
<1>4. CASE Crash \/ Expire \/ MoveBalance \/ UNCHANGED vars
  BY <1>4, CrashStep, OutsideStep
<1>5. QED BY <1>1, <1>2, <1>3, <1>4 DEF Next, Step

LEMMA IInvHolds == Spec => []IInv
BY InitHolds, StepHolds, PTL DEF Spec

-----------------------------------------------------------------------------
(* What the handlers say.  Before the model's answer is stored nothing was  *)
(* charged or said; after it the two agree, and neither changes any more.   *)

Unanswered == {"sent", "touched", "leased", "admitted", "summarizing", "summarized", "asking"}

RepliesSound ==
  /\ reply \in [Updates -> Texts] /\ told \in [Updates -> Texts]
  /\ \A u \in Updates :
       /\ pc[u] \in Unanswered => u \notin charged /\ reply[u] = "none" /\ told[u] = "none"
       /\ reply[u] = "answer" \/ told[u] = "answer" => u \in charged
       /\ reply[u] = "failure" \/ told[u] = "failure" => u \notin charged

LEMMA OneReplies ==
  ASSUME RowsTypeOK, RepliesSound, NEW u \in Updates, NEW p, NEW r \in Texts, NEW t \in Texts,
         pc' = [pc EXCEPT ![u] = p],
         reply' = [reply EXCEPT ![u] = r], told' = [told EXCEPT ![u] = t],
         charged' = charged \/ charged' = charged \cup {u},
         p \in Unanswered => u \notin charged' /\ r = "none" /\ t = "none",
         r = "answer" \/ t = "answer" => u \in charged',
         r = "failure" \/ t = "failure" => u \notin charged'
  PROVE  RepliesSound'
<1>1. /\ pc'[u] = p /\ reply'[u] = r /\ told'[u] = t
      /\ reply' \in [Updates -> Texts] /\ told' \in [Updates -> Texts]
  BY DEF RowsTypeOK, RepliesSound
<1>2. \A v \in Updates \ {u} :
        pc'[v] = pc[v] /\ reply'[v] = reply[v] /\ told'[v] = told[v] /\ (v \in charged' <=> v \in charged)
  BY DEF RowsTypeOK, RepliesSound
<1>3. QED BY <1>1, <1>2 DEF RepliesSound

LEMMA RepliesStep == RowsTypeOK /\ RepliesSound /\ [Next]_vars => RepliesSound'
<1> SUFFICES ASSUME RowsTypeOK, RepliesSound, [Next]_vars PROVE RepliesSound'
  OBVIOUS
<1>0. reply \in [Updates -> Texts] /\ told \in [Updates -> Texts]
  BY DEF RepliesSound
<1>1. CASE UNCHANGED <<pc, reply, told, charged>>
  BY <1>1 DEF RepliesSound
<1>2. ASSUME NEW u \in Updates,
             \/ Touch(u) \/ Admit(u) \/ StartSummary(u) \/ SkipSummary(u) \/ EndSummary(u) \/ Ask(u)
             \/ Release(u) \/ Return(u) \/ GiveUp(u)
             \/ (Acquire(u) /\ reply' = reply)
      PROVE  RepliesSound'
  <2>1. /\ reply' = [reply EXCEPT ![u] = reply[u]] /\ told' = [told EXCEPT ![u] = told[u]]
        /\ charged' = charged /\ reply[u] \in Texts /\ told[u] \in Texts
    BY <1>0, <1>2
    DEF Touch, Admit, StartSummary, SkipSummary, EndSummary, Ask, Release, Return, GiveUp, Acquire,
        rows, replies
  <2>2. PICK p : /\ pc' = [pc EXCEPT ![u] = p]
                 /\ p \in Unanswered => pc[u] \in Unanswered
    <3>1. CASE Acquire(u)
      BY <3>1 DEF Acquire, Unanswered
    <3>2. CASE Release(u)
      <4>1. \E p \in {"breaking", "replying"} : pc' = [pc EXCEPT ![u] = p]
        BY <3>2 DEF Release
      <4>2. QED BY <4>1 DEF Unanswered
    <3>3. CASE ~Acquire(u) /\ ~Release(u)
      BY <1>2, <3>3
      DEF Touch, Admit, StartSummary, SkipSummary, EndSummary, Ask, Return, GiveUp, Unanswered
    <3>4. QED BY <3>1, <3>2, <3>3
  <2>3. /\ p \in Unanswered => u \notin charged /\ reply[u] = "none" /\ told[u] = "none"
        /\ reply[u] = "answer" \/ told[u] = "answer" => u \in charged
        /\ reply[u] = "failure" \/ told[u] = "failure" => u \notin charged
    BY <2>2 DEF RepliesSound
  <2>4. QED BY <2>1, <2>2, <2>3, OneReplies
<1>3. ASSUME NEW u \in Updates,
             \/ RefuseAtOnce(u) \/ Rotate(u) \/ RefuseInLease(u) \/ AnswerUnpaid(u)
             \/ (Acquire(u) /\ reply' # reply)
      PROVE  RepliesSound'
  <2>1. /\ reply' = [reply EXCEPT ![u] = "notice"] /\ told' = [told EXCEPT ![u] = told[u]]
        /\ charged' = charged /\ told[u] = "none" /\ "notice" \in Texts /\ "none" \in Texts
    BY <1>0, <1>3
    DEF RefuseAtOnce, Rotate, RefuseInLease, AnswerUnpaid, Acquire, rows, RepliesSound, Unanswered,
        Texts
  <2>2. PICK p \in {"replying", "releasing"} : pc' = [pc EXCEPT ![u] = p]
    BY <1>3 DEF RefuseAtOnce, Rotate, RefuseInLease, AnswerUnpaid, Acquire
  <2>3. p \notin Unanswered
    BY DEF Unanswered
  <2>4. QED BY <2>1, <2>2, <2>3, OneReplies
<1>4. ASSUME NEW u \in Updates, Answer(u) \/ Fail(u) PROVE RepliesSound'
  <2>1. /\ pc' = [pc EXCEPT ![u] = "releasing"] /\ "releasing" \notin Unanswered
        /\ told' = [told EXCEPT ![u] = told[u]] /\ told[u] = "none" /\ u \notin charged
        /\ "none" \in Texts /\ "answer" \in Texts /\ "failure" \in Texts
    BY <1>0, <1>4 DEF Answer, Fail, RepliesSound, Unanswered, Texts
  <2>2. CASE Answer(u)
    <3>1. reply' = [reply EXCEPT ![u] = "answer"] /\ charged' = charged \cup {u}
      BY <2>2 DEF Answer
    <3>2. QED BY <2>1, <3>1, OneReplies
  <2>3. CASE Fail(u)
    <3>1. reply' = [reply EXCEPT ![u] = "failure"] /\ charged' = charged
      BY <2>3 DEF Fail
    <3>2. QED BY <2>1, <3>1, OneReplies
  <2>4. QED BY <1>4, <2>2, <2>3
<1>5. ASSUME NEW u \in Updates, Reply(u) PROVE RepliesSound'
  <2>1. /\ pc' = [pc EXCEPT ![u] = "returning"] /\ "returning" \notin Unanswered
        /\ told' = [told EXCEPT ![u] = reply[u]] /\ reply' = [reply EXCEPT ![u] = "none"]
        /\ charged' = charged /\ reply[u] \in Texts /\ "none" \in Texts
    BY <1>0, <1>5 DEF Reply, rows, Unanswered, Texts
  <2>2. /\ reply[u] = "answer" => u \in charged'
        /\ reply[u] = "failure" => u \notin charged'
    BY <2>1 DEF RepliesSound
  <2>3. QED BY <2>1, <2>2, OneReplies
<1>6. ASSUME NEW u \in Updates, Break(u) PROVE RepliesSound'
  <2>1. /\ told' = [told EXCEPT ![u] = told[u]] /\ reply' = [reply EXCEPT ![u] = "none"]
        /\ charged' = charged /\ told[u] \in Texts /\ "none" \in Texts
    BY <1>0, <1>6 DEF Break, rows, Texts
  <2>2. PICK p \in {"breaking", "releasing"} : pc' = [pc EXCEPT ![u] = p]
    BY <1>6 DEF Break
  <2>3. p \notin Unanswered
    BY DEF Unanswered
  <2>4. /\ told[u] = "answer" => u \in charged'
        /\ told[u] = "failure" => u \notin charged'
    BY <2>1 DEF RepliesSound
  <2>5. QED BY <2>1, <2>2, <2>3, <2>4, OneReplies
<1>7. CASE Crash
  <2>1. /\ reply' = [u \in Updates |-> "none"] /\ told' = told /\ charged' = charged
        /\ \A u \in Updates : pc'[u] = pc[u] \/ pc'[u] = "dead"
    BY <1>7 DEF Crash, rows
  <2>2. QED BY <2>1 DEF RepliesSound, Unanswered, Texts
<1>8. QED
  BY <1>1, <1>2, <1>3, <1>4, <1>5, <1>6, <1>7
  DEF Next, Step, Expire, MoveBalance, vars, rows, replies

LEMMA RepliesHold == Spec => []RepliesSound
<1>1. Init => RepliesSound
  BY DEF Init, RepliesSound, Unanswered, Texts
<1>2. IInv => RowsTypeOK
  BY DEF IInv
<1>3. RowsTypeOK /\ RepliesSound /\ [Next]_vars => RepliesSound'
  BY RepliesStep
<1>4. QED BY <1>1, <1>2, <1>3, IInvHolds, PTL DEF Spec

-----------------------------------------------------------------------------
(* The variables keep their types.                                          *)
THEOREM TypeCorrect == Spec => []TypeOK
<1>1. IInv /\ RepliesSound => TypeOK
  BY DEF IInv, RowsTypeOK, RepliesSound, TypeOK
<1>2. QED BY <1>1, IInvHolds, RepliesHold, PTL

(* What the model is asked with is what is still committed at its answer,   *)
(* whether or not the lease of the turn has run out meanwhile.              *)
THEOREM ContextCurrent == Spec => []ContextIsCurrent
<1>1. IInv => ContextIsCurrent
  BY DEF IInv, DraftsAreSound, DraftIsSound, DraftQuestion, DraftDialog, Working, ContextIsCurrent
<1>2. QED BY <1>1, IInvHolds, PTL

(* Each completed question of a dialog is followed by its own answer.       *)
THEOREM TurnsWhole == Spec => []TurnsStayWhole
<1>1. IInv => TurnsStayWhole
  BY DEF IInv, RowsAreSound
<1>2. QED BY <1>1, IInvHolds, PTL

(* The summary covers the messages marked summarized, and no other.         *)
THEOREM SummaryExact == Spec => []SummaryCoversMarked
<1>1. IInv => SummaryCoversMarked
  BY DEF IInv, RowsAreSound
<1>2. QED BY <1>1, IInvHolds, PTL

(* The day's limit holds, and there is one active dialog at most.           *)
THEOREM LimitsHold == Spec => []LimitsKept
<1>1. ASSUME OneActive PROVE Cardinality(Active) <= 1
  <2>1. CASE Active = {}
    BY <2>1, FS_EmptySet
  <2>2. CASE \E d : Active = {d}
    <3>1. PICK d : Active = {d}
      BY <2>2
    <3>2. Cardinality({d}) = 1
      BY FS_Singleton
    <3>3. QED BY <3>1, <3>2
  <2>3. QED BY <1>1, <2>1, <2>2 DEF OneActive
<1>2. IInv => LimitsKept
  BY <1>1 DEF IInv, RowsAreSound, LimitKept, LimitsKept
<1>3. QED BY <1>2, IInvHolds, PTL

(* Credits are taken only for a stored answer, and what the user is told of *)
(* the charge is so.                                                        *)
THEOREM ChargesAnswered == Spec => []ChargedIsAnswered
<1>1. IInv /\ RepliesSound => ChargedIsAnswered
  BY DEF IInv, ChargesStored, RepliesSound, ChargedIsAnswered
<1>2. QED BY <1>1, IInvHolds, RepliesHold, PTL
=============================================================================
