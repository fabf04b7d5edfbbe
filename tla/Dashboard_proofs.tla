-------------------------- MODULE Dashboard_proofs --------------------------
(***************************************************************************)
(* Theorems about Dashboard, for any number of rows, tokens and requests   *)
(* under way, and any order of their answers; and, for a user who waits    *)
(* for each answer, that the buttons, the rows, the modal of an agent and  *)
(* the chat are right, under what each theorem assumes.                    *)
(***************************************************************************)
EXTENDS Dashboard, TLAPS

\* A form that is open holds one row, or none.
FormWhole ==
  form.open => /\ form.id = form.of
               /\ form.id # None => form.status \in Statuses

\* A request that writes a row, or reads it for the form, has what it is about.
RequestWhole(q) ==
  /\ q.kind = "save" => q.of = q.item
  /\ q.kind \in {"save", "toggle"} /\ q.item # None => q.status \in Statuses
  /\ q.kind = "edit" => q.item \in Items
  /\ q.kind = "edit" /\ q.served => q.status \in Statuses

Kept == req \in [Slots -> Requests] /\ \A r \in Slots : RequestWhole(req[r])

IInv == TypeOK /\ FormWhole /\ Kept

\* What a step has to keep beside the requests.
ViewOK ==
  /\ token \in Tokens \union {None}
  /\ table \in Tables
  /\ form \in Forms /\ FormWhole
  /\ detail \in Details
  /\ chat \in [session : Nat, greeted : BOOLEAN, replies : SUBSET Nat]

-----------------------------------------------------------------------------
(* Lemmas about requests                                                   *)

\* A fresh request is one, and is about nothing yet.
LEMMA AskTyped ==
  ASSUME NEW kind \in Kinds, NEW t \in Tokens \union {None}
  PROVE  /\ Ask(kind, t) \in Requests
         /\ Ask(kind, t).kind = kind
         /\ Ask(kind, t).item = None /\ Ask(kind, t).of = None
         /\ Ask(kind, t).served = FALSE
<1>1. NoRows \in SomeRows
  BY DEF NoRows, SomeRows
<1>2. NoRequest \in Requests
  BY <1>1 DEF NoRequest, Requests, Kinds
<1>. QED
  BY <1>2 DEF Ask, NoRequest, Requests

\* What the page asks with the token of the moment is a fresh request.
LEMMA AskNow ==
  ASSUME ViewOK, NEW kind \in Kinds
  PROVE  /\ Ask(kind, token) \in Requests
         /\ Ask(kind, token).kind = kind
         /\ Ask(kind, token).item = None /\ Ask(kind, token).of = None
         /\ Ask(kind, token).served = FALSE
<1>1. token \in Tokens \union {None}
  BY DEF ViewOK
<1>. QED
  BY <1>1, AskTyped

\* The idle slot satisfies what is said of requests.
LEMMA NoRequestTyped == NoRequest \in Requests /\ RequestWhole(NoRequest)
<1>1. NoRows \in SomeRows
  BY DEF NoRows, SomeRows
<1>2. NoRequest \in Requests
  BY <1>1 DEF NoRequest, Requests, Kinds
<1>. QED
  BY <1>2 DEF NoRequest, RequestWhole

\* Sending a well-formed request keeps all of them well-formed.
LEMMA SendKeeps ==
  ASSUME Kept, NEW r \in Slots, NEW q \in Requests, RequestWhole(q), Send(r, q)
  PROVE  Kept'
<1>1. req' \in [Slots -> Requests]
  BY DEF Kept, Send
<1>2. ASSUME NEW p \in Slots PROVE RequestWhole(req'[p])
  <2>1. req'[p] = IF p = r THEN q ELSE req[p]
    BY DEF Kept, Send
  <2>. QED
    BY <2>1 DEF Kept
<1>3. \A p \in Slots : RequestWhole(req[p])'
  BY <1>2 DEF RequestWhole
<1>. QED
  BY <1>1, <1>3 DEF Kept

\* The request of a load, whichever its query.
LEMMA ListTyped ==
  ASSUME NEW t \in Tokens \union {None}, NEW b \in BOOLEAN
  PROVE  LET q == [Ask("list", t) EXCEPT !.all = b]
         IN  q \in Requests /\ RequestWhole(q)
<1>. DEFINE a == Ask("list", t)
            q == [a EXCEPT !.all = b]
<1>1. a \in Requests /\ a.kind = "list"
  BY AskTyped DEF Kinds
<1>. HIDE DEF a
<1>2. q \in Requests
  BY <1>1 DEF Requests
<1>3. q.kind = "list"
  BY <1>1 DEF Requests
<1>4. RequestWhole(q)
  BY <1>3 DEF RequestWhole
<1>. QED
  BY <1>2, <1>4 DEF a

\* A load is well-formed, and the table loads.
LEMMA LoadKeeps ==
  ASSUME Kept, NEW r \in Slots, NEW t \in Tokens \union {None}, Load(r, t)
  PROVE  Kept' /\ table' = Shows("loading")
<1>1. PICK b \in BOOLEAN : b = (Table = "agents" \/ IsAdmin(t))
  BY DEF IsAdmin
<1>. DEFINE q == [Ask("list", t) EXCEPT !.all = b]
<1>2. Send(r, q) /\ table' = Shows("loading")
  BY <1>1 DEF Load
<1>3. q \in Requests /\ RequestWhole(q)
  BY ListTyped
<1>. HIDE DEF q
<1>. QED
  BY <1>2, <1>3, SendKeeps

\* A table that shows no rows is one.
LEMMA ShowsTyped ==
  ASSUME NEW state \in {"blank", "loading", "shown", "error"}
  PROVE  Shows(state) \in Tables
BY DEF Shows, Tables, SomeRows, NoRows

\* Asking the registry about the token keeps everything well-formed.
LEMMA RefreshKeeps ==
  ASSUME Kept, table \in Tables,
         NEW r \in Slots, NEW t \in Tokens \union {None}, RefreshAuth(r, t)
  PROVE  Kept' /\ table' \in Tables
<1>1. CASE t = None
  <2>1. Load(r, t)
    BY <1>1 DEF RefreshAuth
  <2>2. Kept' /\ table' = Shows("loading")
    BY <2>1, LoadKeeps
  <2>. QED
    BY <2>2, ShowsTyped
<1>2. CASE t # None
  <2>1. Send(r, Ask("me", t)) /\ table' = table
    BY <1>2 DEF RefreshAuth
  <2>2. Ask("me", t) \in Requests /\ Ask("me", t).kind = "me"
    BY AskTyped DEF Kinds
  <2>3. RequestWhole(Ask("me", t))
    BY <2>2 DEF RequestWhole
  <2>. QED
    BY <2>1, <2>2, <2>3, SendKeeps
<1>. QED
  BY <1>1, <1>2

-----------------------------------------------------------------------------
(* The steps                                                               *)

ServerOK == status \in [Items -> Statuses] /\ live \subseteq Tokens /\ clicks \in 0..MaxClicks

\* The invariant in the parts that a step may change.
LEMMA Parts == IInv <=> Kept /\ ViewOK /\ ServerOK
BY DEF IInv, TypeOK, Kept, ViewOK, ServerOK

\* The same of the next state.
LEMMA PartsNext == Kept' /\ ViewOK' /\ ServerOK' => IInv'
BY DEF IInv, TypeOK, Kept, ViewOK, ServerOK

\* A click stays within its bound.
LEMMA ClickCounts == ASSUME clicks \in 0..MaxClicks, Click PROVE clicks' \in 0..MaxClicks
BY BoundsAssumption DEF Click

\* What the page does of its own account keeps the invariant.
LEMMA IdentityKeeps ==
  ASSUME IInv, NEW r \in Slots,
         \/ Reload(r) \/ EndConfig(r) \/ EndMe(r)
         \/ \E t \in Tokens \union {None} : SaveToken(r, t)
  PROVE  IInv'
<1>1. Kept /\ ViewOK /\ ServerOK
  BY Parts
<1>2. CASE Reload(r)
  <2>1. Ask("config", None) \in Requests /\ RequestWhole(Ask("config", None))
    BY AskTyped DEF Kinds, RequestWhole
  <2>2. req' \in [Slots -> Requests]
    BY <1>2, <2>1, NoRequestTyped DEF Reload, Opened
  <2>3. ASSUME NEW p \in Slots PROVE RequestWhole(req'[p])
    <3>1. req'[p] = IF p = r THEN Ask("config", None) ELSE NoRequest
      BY <1>2 DEF Reload, Opened
    <3>. QED
      BY <2>1, <3>1, NoRequestTyped
  <2>4. Kept'
    BY <2>2, <2>3 DEF Kept, RequestWhole
  <2>5. ViewOK'
    <3>1. table' \in Tables
      BY <1>2, ShowsTyped DEF Reload
    <3>2. form' \in Forms /\ FormWhole'
      BY <1>2 DEF Reload, Forms, NoForm, FormWhole
    <3>3. chat' \in [session : Nat, greeted : BOOLEAN, replies : SUBSET Nat]
      BY <1>1, <1>2 DEF Reload, ViewOK
    <3>4. token' = token
      BY <1>2 DEF Reload
    <3>5. detail' \in Details
      BY <1>2 DEF Reload, NoDetail, Details, AnItem
    <3>. QED
      BY <1>1, <3>1, <3>2, <3>3, <3>4, <3>5 DEF ViewOK
  <2>6. ServerOK'
    BY <1>1, <1>2, ClickCounts DEF Reload, ServerOK, server
  <2>. QED
    BY <2>4, <2>5, <2>6, PartsNext
<1>3. CASE EndConfig(r)
  <2>1. Kept' /\ table' \in Tables
    BY <1>1, <1>3, RefreshKeeps DEF EndConfig, ViewOK
  <2>2. ViewOK' /\ ServerOK'
    BY <1>1, <1>3, <2>1 DEF EndConfig, ViewOK, ServerOK, FormWhole, server
  <2>. QED
    BY <2>1, <2>2, PartsNext
<1>4. ASSUME NEW t \in Tokens \union {None}, SaveToken(r, t) PROVE IInv'
  <2>1. Kept' /\ table' \in Tables
    BY <1>1, <1>4, RefreshKeeps DEF SaveToken, SetToken, ViewOK
  <2>2. ViewOK' /\ ServerOK'
    BY <1>1, <1>4, <2>1, ClickCounts
    DEF SaveToken, SetToken, ViewOK, ServerOK, FormWhole, server
  <2>. QED
    BY <2>1, <2>2, PartsNext
<1>5. CASE EndMe(r)
  <2>1. token' \in Tokens \union {None}
    BY <1>1, <1>5 DEF EndMe, ViewOK
  <2>2. Kept' /\ table' \in Tables
    BY <1>1, <1>5, <2>1, LoadKeeps, ShowsTyped DEF EndMe
  <2>3. ViewOK' /\ ServerOK'
    BY <1>1, <1>5, <2>1, <2>2 DEF EndMe, ViewOK, ServerOK, FormWhole, server
  <2>. QED
    BY <2>2, <2>3, PartsNext
<1>. QED
  BY <1>2, <1>3, <1>4, <1>5

\* The table's handlers keep the invariant.
LEMMA TableKeeps ==
  ASSUME IInv, NEW r \in Slots,
         \/ OpenTab(r) \/ Search(r) \/ EndList(r) \/ EndListFailed(r) \/ EndToggle(r)
         \/ \E i \in Items : MakeRow(r, i) \/ Toggle(r, i)
  PROVE  IInv'
<1>1. Kept /\ ViewOK /\ ServerOK
  BY Parts
<1>2. req[r] \in Requests /\ RequestWhole(req[r])
  BY <1>1 DEF Kept
<1>3. CASE OpenTab(r)
  <2>1. Kept' /\ table' \in Tables
    BY <1>1, <1>3, LoadKeeps, ShowsTyped DEF OpenTab, ViewOK
  <2>2. ViewOK' /\ ServerOK'
    BY <1>1, <1>3, <2>1, ClickCounts DEF OpenTab, ViewOK, ServerOK, FormWhole, server
  <2>. QED
    BY <2>1, <2>2, PartsNext
<1>4. CASE Search(r)
  <2>1. Ask("search", token) \in Requests /\ RequestWhole(Ask("search", token))
    BY <1>1, AskNow DEF Kinds, RequestWhole
  <2>2. Kept' /\ table' \in Tables
    BY <1>1, <1>4, <2>1, SendKeeps, ShowsTyped DEF Search
  <2>3. ViewOK' /\ ServerOK'
    BY <1>1, <1>4, <2>2, ClickCounts DEF Search, ViewOK, ServerOK, FormWhole, server
  <2>. QED
    BY <2>2, <2>3, PartsNext
<1>5. CASE EndList(r)
  <2>1. Kept'
    BY <1>1, <1>5, SendKeeps, NoRequestTyped DEF EndList, Done
  <2>2. table' \in Tables
    BY <1>2, <1>5 DEF EndList, Tables, Requests
  <2>3. ViewOK' /\ ServerOK'
    BY <1>1, <1>5, <2>2 DEF EndList, ViewOK, ServerOK, FormWhole, server
  <2>. QED
    BY <2>1, <2>3, PartsNext
<1>6. CASE EndListFailed(r)
  <2>1. Kept' /\ table' \in Tables
    BY <1>1, <1>6, SendKeeps, NoRequestTyped, ShowsTyped DEF EndListFailed, Done
  <2>2. ViewOK' /\ ServerOK'
    BY <1>1, <1>6, <2>1 DEF EndListFailed, ViewOK, ServerOK, FormWhole, server
  <2>. QED
    BY <2>1, <2>2, PartsNext
<1>7. CASE EndToggle(r)
  <2>2. Kept' /\ table' \in Tables
    <3>1. CASE Load(r, token)
      BY <1>1, <3>1, LoadKeeps, ShowsTyped DEF ViewOK
    <3>2. CASE Done(r) /\ UNCHANGED table
      BY <1>1, <3>2, SendKeeps, NoRequestTyped DEF Done, ViewOK
    <3>. QED
      BY <1>7, <3>1, <3>2 DEF EndToggle
  <2>3. ViewOK' /\ ServerOK'
    BY <1>1, <1>7, <2>2 DEF EndToggle, ViewOK, ServerOK, FormWhole, server
  <2>. QED
    BY <2>2, <2>3, PartsNext
<1>8. ASSUME NEW i \in Items, MakeRow(r, i) PROVE IInv'
  <2>. DEFINE q == [req[r] EXCEPT !.made = @ \union {i},
                                  !.offers = IF CanMutate THEN @ \union {i} ELSE @]
  <2>1. q \in Requests
    BY <1>2 DEF Requests
  <2>2. q.kind = "list"
    BY <1>2, <1>8 DEF MakeRow, Requests
  <2>3. RequestWhole(q)
    BY <2>2 DEF RequestWhole
  <2>4. Send(r, q)
    BY <1>8 DEF MakeRow
  <2>. HIDE DEF q
  <2>5. Kept'
    BY <1>1, <2>1, <2>3, <2>4, SendKeeps
  <2>6. ViewOK' /\ ServerOK'
    BY <1>1, <1>8 DEF MakeRow, ViewOK, ServerOK, FormWhole, server
  <2>. QED
    BY <2>5, <2>6, PartsNext
<1>9. ASSUME NEW i \in Items, Toggle(r, i) PROVE IInv'
  <2>1. PICK s \in Statuses : Send(r, [Ask("toggle", token) EXCEPT !.item = i, !.status = s])
    BY <1>9 DEF Toggle
  <2>. DEFINE a == Ask("toggle", token)
              q == [a EXCEPT !.item = i, !.status = s]
  <2>2. q \in Requests /\ q.kind = "toggle" /\ q.status = s
    <3>1. a \in Requests /\ a.kind = "toggle" /\ a.served = FALSE
      BY <1>1, AskNow DEF Kinds
    <3>. HIDE DEF a
    <3>. QED
      BY <3>1 DEF Requests
  <2>3. RequestWhole(q)
    BY <2>2 DEF RequestWhole
  <2>4. Kept'
    BY <1>1, <2>1, <2>2, <2>3, SendKeeps
  <2>5. ViewOK' /\ ServerOK'
    BY <1>1, <1>9, ClickCounts DEF Toggle, ViewOK, ServerOK, FormWhole, server
  <2>. QED
    BY <2>4, <2>5, PartsNext
<1>. QED
  BY <1>3, <1>4, <1>5, <1>6, <1>7, <1>8, <1>9

\* The handlers of the form keep the invariant.
LEMMA FormKeeps ==
  ASSUME IInv, NEW r \in Slots,
         \/ EndEdit(r) \/ Submit(r) \/ EndSave(r)
         \/ \E i \in Items : Edit(r, i)
  PROVE  IInv'
<1>1. Kept /\ ViewOK /\ ServerOK
  BY Parts
<1>2. req[r] \in Requests /\ RequestWhole(req[r])
  BY <1>1 DEF Kept
<1>3. CASE EndEdit(r)
  <2>1. Kept'
    BY <1>1, <1>3, SendKeeps, NoRequestTyped DEF EndEdit, Done
  <2>2. form' \in Forms /\ FormWhole'
    <3>1. CASE form' = form
      BY <1>1, <3>1 DEF ViewOK, FormWhole
    <3>2. CASE /\ req[r].served
               /\ form' = [open |-> TRUE, id |-> req[r].item, of |-> req[r].item,
                           status |-> req[r].status]
      <4>1. req[r].item \in Items /\ req[r].status \in Statuses
        BY <1>2, <1>3, <3>2 DEF EndEdit, RequestWhole
      <4>. QED
        BY <3>2, <4>1 DEF Forms, FormWhole
    <3>. QED
      BY <1>3, <3>1, <3>2 DEF EndEdit
  <2>3. ViewOK' /\ ServerOK'
    BY <1>1, <1>3, <2>2 DEF EndEdit, ViewOK, ServerOK, server
  <2>. QED
    BY <2>1, <2>3, PartsNext
<1>4. CASE Submit(r)
  <2>. DEFINE a == Ask("save", token)
              q == [a EXCEPT !.item = form.id, !.of = form.of, !.status = form.status]
  <2>1. /\ form.id \in Items \union {None} /\ form.of \in Items \union {None}
        /\ form.status \in Statuses \union {"none"} /\ form.id = form.of
        /\ form.id # None => form.status \in Statuses
    BY <1>1, <1>4 DEF Submit, ViewOK, Forms, FormWhole
  <2>2. q \in Requests /\ q.kind = "save" /\ q.item = form.id /\ q.of = form.of
        /\ q.status = form.status
    <3>1. a \in Requests /\ a.kind = "save" /\ a.served = FALSE
      BY <1>1, AskNow DEF Kinds
    <3>. HIDE DEF a
    <3>. QED
      BY <2>1, <3>1 DEF Requests
  <2>. HIDE DEF q
  <2>3. RequestWhole(q)
    BY <2>1, <2>2 DEF RequestWhole
  <2>4. Send(r, q)
    BY <1>4 DEF Submit, q, a
  <2>5. Kept'
    BY <1>1, <2>2, <2>3, <2>4, SendKeeps
  <2>6. ViewOK' /\ ServerOK'
    BY <1>1, <1>4, ClickCounts DEF Submit, ViewOK, ServerOK, FormWhole, server
  <2>. QED
    BY <2>5, <2>6, PartsNext
<1>5. CASE EndSave(r)
  <2>1. Kept' /\ table' \in Tables /\ form' \in Forms /\ FormWhole'
    <3>1. CASE form' = [NoForm EXCEPT !.id = form.id] /\ Load(r, token)
      <4>1. Kept' /\ table' \in Tables
        BY <1>1, <3>1, LoadKeeps, ShowsTyped DEF ViewOK
      <4>2. form.id \in Items \union {None}
        BY <1>1 DEF ViewOK, Forms
      <4>3. form' \in Forms /\ ~form'.open
        BY <3>1, <4>2 DEF NoForm, Forms
      <4>. QED
        BY <4>1, <4>3 DEF FormWhole
    <3>2. CASE Done(r) /\ UNCHANGED <<form, table>>
      BY <1>1, <3>2, SendKeeps, NoRequestTyped DEF Done, ViewOK, FormWhole
    <3>. QED
      BY <1>5, <3>1, <3>2 DEF EndSave
  <2>2. ViewOK' /\ ServerOK'
    BY <1>1, <1>5, <2>1 DEF EndSave, ViewOK, ServerOK, server
  <2>. QED
    BY <2>1, <2>2, PartsNext
<1>6. ASSUME NEW i \in Items, Edit(r, i) PROVE IInv'
  <2>. DEFINE a == Ask("edit", token)
              q == [a EXCEPT !.item = i]
  <2>1. q \in Requests /\ q.kind = "edit" /\ q.item = i /\ q.served = FALSE
    <3>1. a \in Requests /\ a.kind = "edit" /\ a.served = FALSE
      BY <1>1, AskNow DEF Kinds
    <3>. HIDE DEF a
    <3>. QED
      BY <3>1 DEF Requests
  <2>. HIDE DEF q
  <2>2. RequestWhole(q)
    BY <2>1 DEF RequestWhole
  <2>3. Send(r, q)
    BY <1>6 DEF Edit, q, a
  <2>4. Kept'
    BY <1>1, <2>1, <2>2, <2>3, SendKeeps
  <2>5. ViewOK' /\ ServerOK'
    BY <1>1, <1>6, ClickCounts DEF Edit, ViewOK, ServerOK, FormWhole, server
  <2>. QED
    BY <2>4, <2>5, PartsNext
<1>. QED
  BY <1>3, <1>4, <1>5, <1>6

\* The handlers of the modal and of the chat keep the invariant.
LEMMA PanelsKeep ==
  ASSUME IInv, NEW r \in Slots,
         \/ OpenChat(r) \/ Say(r) \/ NewSession(r) \/ EndChat(r)
         \/ \E i \in Items : OpenDetail(r, i)
         \/ \E found, figures \in BOOLEAN : EndDetail(r, found, figures)
  PROVE  IInv'
<1>1. Kept /\ ViewOK /\ ServerOK
  BY Parts
<1>2. req[r] \in Requests /\ RequestWhole(req[r])
  BY <1>1 DEF Kept
<1>3. ASSUME NEW n \in Nat, Send(r, [Ask("chat", token) EXCEPT !.session = n]) PROVE Kept'
  <2>. DEFINE a == Ask("chat", token)
              q == [a EXCEPT !.session = n]
  <2>1. q \in Requests /\ q.kind = "chat"
    <3>1. a \in Requests /\ a.kind = "chat" /\ a.served = FALSE
      BY <1>1, AskNow DEF Kinds
    <3>. HIDE DEF a
    <3>. QED
      BY <3>1 DEF Requests
  <2>. HIDE DEF q
  <2>2. RequestWhole(q)
    BY <2>1 DEF RequestWhole
  <2>3. Send(r, q)
    BY <1>3 DEF q, a
  <2>. QED
    BY <1>1, <2>1, <2>2, <2>3, SendKeeps
<1>4. chat.session \in Nat /\ chat.session + 1 \in Nat
  <2>1. chat \in [session : Nat, greeted : BOOLEAN, replies : SUBSET Nat]
    BY <1>1 DEF ViewOK
  <2>. QED
    BY <2>1
<1>5. CASE OpenChat(r)
  <2>1. Kept'
    BY <1>3, <1>4, <1>5 DEF OpenChat
  <2>2. ViewOK' /\ ServerOK'
    BY <1>1, <1>5, ClickCounts DEF OpenChat, ViewOK, ServerOK, FormWhole, server
  <2>. QED
    BY <2>1, <2>2, PartsNext
<1>6. CASE Say(r)
  <2>1. Kept'
    BY <1>3, <1>4, <1>6 DEF Say
  <2>2. ViewOK' /\ ServerOK'
    BY <1>1, <1>6, ClickCounts DEF Say, ViewOK, ServerOK, FormWhole, server
  <2>. QED
    BY <2>1, <2>2, PartsNext
<1>7. CASE NewSession(r)
  <2>1. Kept'
    BY <1>3, <1>4, <1>7 DEF NewSession
  <2>2. ViewOK' /\ ServerOK'
    BY <1>1, <1>4, <1>7, ClickCounts DEF NewSession, ViewOK, ServerOK, FormWhole, server
  <2>. QED
    BY <2>1, <2>2, PartsNext
<1>8. CASE EndChat(r)
  <2>1. Kept'
    BY <1>1, <1>8, SendKeeps, NoRequestTyped DEF EndChat, Done
  <2>2. req[r].session \in Nat
    BY <1>2 DEF Requests
  <2>3. chat' \in [session : Nat, greeted : BOOLEAN, replies : SUBSET Nat]
    <3>1. chat \in [session : Nat, greeted : BOOLEAN, replies : SUBSET Nat]
      BY <1>1 DEF ViewOK
    <3>2. \/ chat' = chat
          \/ chat' = [chat EXCEPT !.replies = @ \union {req[r].session}]
      BY <1>8 DEF EndChat
    <3>. QED
      BY <2>2, <3>1, <3>2
  <2>4. ViewOK' /\ ServerOK'
    BY <1>1, <1>8, <2>3 DEF EndChat, ViewOK, ServerOK, FormWhole, server
  <2>. QED
    BY <2>1, <2>4, PartsNext
<1>9. ASSUME NEW i \in Items, OpenDetail(r, i) PROVE IInv'
  <2>. DEFINE a == Ask("detail", token)
              q == [a EXCEPT !.item = i]
  <2>1. q \in Requests /\ q.kind = "detail"
    <3>1. a \in Requests /\ a.kind = "detail" /\ a.served = FALSE
      BY <1>1, AskNow DEF Kinds
    <3>. HIDE DEF a
    <3>. QED
      BY <3>1 DEF Requests
  <2>. HIDE DEF q
  <2>2. RequestWhole(q)
    BY <2>1 DEF RequestWhole
  <2>3. Send(r, q)
    BY <1>9 DEF OpenDetail, q, a
  <2>4. Kept'
    BY <1>1, <2>1, <2>2, <2>3, SendKeeps
  <2>5. ViewOK' /\ ServerOK'
    BY <1>1, <1>9, ClickCounts
    DEF OpenDetail, NoDetail, Details, AnItem, ViewOK, ServerOK, FormWhole, server
  <2>. QED
    BY <2>4, <2>5, PartsNext
<1>10. ASSUME NEW found \in BOOLEAN, NEW figures \in BOOLEAN, EndDetail(r, found, figures)
       PROVE  IInv'
  <2>1. Kept'
    BY <1>1, <1>10, SendKeeps, NoRequestTyped DEF EndDetail, Done
  <2>2. req[r].item \in Items \union {None}
    BY <1>2 DEF Requests
  <2>3. detail' \in Details
    BY <1>1, <1>10, <2>2 DEF EndDetail, ViewOK, Details, AnItem
  <2>4. ViewOK' /\ ServerOK'
    BY <1>1, <1>10, <2>3 DEF EndDetail, ViewOK, ServerOK, FormWhole, server
  <2>. QED
    BY <2>1, <2>4, PartsNext
<1>. QED
  BY <1>5, <1>6, <1>7, <1>8, <1>9, <1>10

\* What the registry does keeps the invariant.
LEMMA RegistryKeeps ==
  ASSUME IInv, NEW r \in Slots, ServeRead(r) \/ ServeWrite(r)
  PROVE  IInv'
<1>1. Kept /\ ViewOK /\ ServerOK
  BY Parts
<1>2. req[r] \in Requests /\ RequestWhole(req[r])
  BY <1>1 DEF Kept
<1>3. CASE ServeRead(r)
  <2>1. Kept'
    <3>1. CASE req[r].kind \in {"list", "search"}
      <4>. DEFINE told == {i \in Items : req[r].kind = "search" \/ req[r].all \/ status[i] = "active"}
                  rows == [i \in told |-> status[i]]
                  q == [req[r] EXCEPT !.served = TRUE, !.rows = rows]
      <4>1. rows \in [told -> Statuses] /\ told \in SUBSET Items
        BY <1>1 DEF ServerOK
      <4>2. rows \in SomeRows
        BY <4>1 DEF SomeRows
      <4>3. Send(r, q)
        BY <1>3, <3>1 DEF ServeRead
      <4>. HIDE DEF rows
      <4>4. q \in Requests /\ q.kind = req[r].kind
        BY <1>2, <4>2 DEF Requests
      <4>. HIDE DEF q
      <4>5. RequestWhole(q)
        BY <3>1, <4>4 DEF RequestWhole
      <4>. QED
        BY <1>1, <4>3, <4>4, <4>5, SendKeeps
    <3>2. CASE req[r].kind = "edit"
      <4>. DEFINE q == [req[r] EXCEPT !.served = TRUE, !.status = status[req[r].item]]
      <4>1. status[req[r].item] \in Statuses /\ req[r].item \in Items
        BY <1>1, <1>2, <3>2 DEF RequestWhole, ServerOK
      <4>2. Send(r, q)
        BY <1>3, <3>2 DEF ServeRead
      <4>3. q \in Requests /\ q.kind = "edit" /\ q.item = req[r].item
            /\ q.status = status[req[r].item]
        BY <1>2, <3>2, <4>1 DEF Requests
      <4>. HIDE DEF q
      <4>4. RequestWhole(q)
        BY <4>1, <4>3 DEF RequestWhole
      <4>. QED
        BY <1>1, <4>2, <4>3, <4>4, SendKeeps
    <3>3. CASE req[r].kind = "me"
      <4>. DEFINE ok == (req[r].tok \in live)
      <4>1. ok \in BOOLEAN
        OBVIOUS
      <4>. HIDE DEF ok
      <4>. DEFINE q == [req[r] EXCEPT !.served = TRUE, !.ok = ok]
      <4>2. Send(r, q)
        BY <1>3, <3>3 DEF ServeRead, ok
      <4>3. q \in Requests /\ q.kind = "me"
        BY <1>2, <3>3, <4>1 DEF Requests
      <4>. HIDE DEF q
      <4>4. RequestWhole(q)
        BY <4>3 DEF RequestWhole
      <4>. QED
        BY <1>1, <4>2, <4>3, <4>4, SendKeeps
    <3>. QED
      BY <1>3, <3>1, <3>2, <3>3 DEF ServeRead
  <2>2. ViewOK' /\ ServerOK'
    BY <1>1, <1>3 DEF ServeRead, ViewOK, ServerOK, FormWhole, server
  <2>. QED
    BY <2>1, <2>2, PartsNext
<1>4. CASE ServeWrite(r)
  <2>1. ASSUME NEW ok \in BOOLEAN,
               Send(r, [req[r] EXCEPT !.served = TRUE, !.ok = ok]), req[r].kind # "edit"
        PROVE  Kept'
    <3>. DEFINE q == [req[r] EXCEPT !.served = TRUE, !.ok = ok]
    <3>1. q \in Requests /\ q.kind = req[r].kind /\ q.item = req[r].item /\ q.of = req[r].of
          /\ q.status = req[r].status
      BY <1>2 DEF Requests
    <3>2. Send(r, q)
      BY <2>1
    <3>. HIDE DEF q
    <3>3. RequestWhole(q)
      BY <1>2, <2>1, <3>1 DEF RequestWhole
    <3>. QED
      BY <1>1, <3>1, <3>2, <3>3, SendKeeps
  <2>. DEFINE i == req[r].item
              allowed == IF i = None THEN MayAdd(req[r].tok) ELSE MayChange(req[r].tok)
  <2>2. PICK ok \in BOOLEAN : ok = allowed
    <3>1. allowed \in BOOLEAN
      BY DEF MayAdd, MayChange
    <3>. QED
      BY <3>1
  <2>3. /\ Send(r, [req[r] EXCEPT !.served = TRUE, !.ok = ok])
        /\ status' = IF ok /\ i # None THEN [status EXCEPT ![i] = req[r].status] ELSE status
        /\ req[r].kind \in {"save", "toggle"}
    BY <1>4, <2>2 DEF ServeWrite
  <2>4. Kept'
    BY <2>1, <2>3
  <2>5. i # None => req[r].status \in Statuses
    BY <1>2, <2>3 DEF RequestWhole
  <2>6. status' \in [Items -> Statuses]
    BY <1>1, <2>3, <2>5 DEF ServerOK
  <2>7. ViewOK' /\ ServerOK'
    BY <1>1, <1>4, <2>6 DEF ServeWrite, ViewOK, ServerOK, FormWhole
  <2>. QED
    BY <2>4, <2>7, PartsNext
<1>. QED
  BY <1>3, <1>4

\* Opening an empty form, closing one, and other clients keep the invariant.
LEMMA RestKeeps ==
  ASSUME IInv,
         Add \/ Cancel \/ (\E i \in Items : Elsewhere(i)) \/ (\E t \in Tokens : Revoke(t))
  PROVE  IInv'
<1>1. Kept /\ ViewOK /\ ServerOK
  BY Parts
<1>2. req' = req
  BY DEF Add, Cancel, Elsewhere, Revoke
<1>3. Kept'
  BY <1>1, <1>2 DEF Kept, RequestWhole
<1>4. CASE Add
  <2>1. form' \in Forms /\ form'.id = None /\ form'.of = None
    BY <1>4 DEF Add, NoForm, Forms
  <2>2. ViewOK' /\ ServerOK'
    BY <1>1, <1>4, <2>1, ClickCounts DEF Add, ViewOK, ServerOK, FormWhole, server
  <2>. QED
    BY <1>3, <2>2, PartsNext
<1>5. CASE Cancel
  <2>1. form' \in Forms /\ ~form'.open
    BY <1>1, <1>5 DEF Cancel, ViewOK, Forms
  <2>2. ViewOK' /\ ServerOK'
    BY <1>1, <1>5, <2>1 DEF Cancel, ViewOK, ServerOK, FormWhole, server
  <2>. QED
    BY <1>3, <2>2, PartsNext
<1>6. ASSUME NEW i \in Items, Elsewhere(i) PROVE IInv'
  <2>1. status' \in [Items -> Statuses]
    BY <1>1, <1>6 DEF Elsewhere, ServerOK
  <2>2. ViewOK' /\ ServerOK'
    BY <1>1, <1>6, <2>1, ClickCounts DEF Elsewhere, ViewOK, ServerOK, FormWhole
  <2>. QED
    BY <1>3, <2>2, PartsNext
<1>7. ASSUME NEW t \in Tokens, Revoke(t) PROVE IInv'
  <2>1. ViewOK' /\ ServerOK'
    BY <1>1, <1>7, ClickCounts DEF Revoke, ViewOK, ServerOK, FormWhole
  <2>. QED
    BY <1>3, <2>1, PartsNext
<1>. QED
  BY <1>4, <1>5, <1>6, <1>7

-----------------------------------------------------------------------------
(* The theorems                                                            *)

\* A page that was just opened satisfies the invariant.
LEMMA InitHolds == Init => IInv
<1>. SUFFICES ASSUME Init PROVE IInv
  OBVIOUS
<1>1. PICK r \in Slots : req = Opened(r)
  BY DEF Init
<1>2. Ask("config", None) \in Requests /\ RequestWhole(Ask("config", None))
  BY AskTyped DEF Kinds, RequestWhole
<1>3. req \in [Slots -> Requests]
  BY <1>1, <1>2, NoRequestTyped DEF Opened
<1>4. ASSUME NEW p \in Slots PROVE RequestWhole(req[p])
  <2>1. req[p] = IF p = r THEN Ask("config", None) ELSE NoRequest
    BY <1>1 DEF Opened
  <2>. QED
    BY <1>2, <2>1, NoRequestTyped
<1>5. Kept
  BY <1>3, <1>4 DEF Kept
<1>6. table \in Tables
  BY ShowsTyped DEF Init
<1>7. form \in Forms /\ FormWhole
  BY DEF Init, Forms, NoForm, FormWhole
<1>8. detail \in Details
  BY DEF Init, NoDetail, Details, AnItem
<1>9. chat \in [session : Nat, greeted : BOOLEAN, replies : SUBSET Nat]
  BY DEF Init
<1>10. token \in Tokens \union {None}
  BY DEF Init
<1>11. ViewOK
  BY <1>6, <1>7, <1>8, <1>9, <1>10 DEF ViewOK
<1>12. ServerOK
  BY BoundsAssumption DEF Init, ServerOK
<1>. QED
  BY <1>5, <1>11, <1>12, Parts

\* Every step keeps the invariant.
LEMMA StepHolds == IInv /\ [Next]_vars => IInv'
<1>. SUFFICES ASSUME IInv, [Next]_vars PROVE IInv'
  OBVIOUS
<1>1. ASSUME NEW r \in Slots, Settle(r) PROVE IInv'
  BY <1>1, IdentityKeeps, TableKeeps, FormKeeps, PanelsKeep DEF Settle
<1>2. ASSUME NEW r \in Slots,
             \/ ServeRead(r) \/ ServeWrite(r)
             \/ Reload(r) \/ OpenTab(r) \/ Search(r) \/ Submit(r)
             \/ OpenChat(r) \/ Say(r) \/ NewSession(r)
             \/ \E t \in Tokens \union {None} : SaveToken(r, t)
             \/ \E i \in Items : Toggle(r, i) \/ Edit(r, i) \/ OpenDetail(r, i)
      PROVE  IInv'
  BY <1>2, IdentityKeeps, TableKeeps, FormKeeps, PanelsKeep, RegistryKeeps
<1>3. CASE UNCHANGED vars
  BY <1>3 DEF IInv, TypeOK, FormWhole, Kept, RequestWhole, vars
<1>. QED
  BY <1>1, <1>2, <1>3, RestKeeps DEF Next

\* Every variable keeps its type.
THEOREM TypeCorrect == Spec => []TypeOK
<1>1. IInv => TypeOK
  BY DEF IInv
<1>. QED
  BY <1>1, InitHolds, StepHolds, PTL DEF Spec

\* What is saved under the id of a row was read from that row (app.js:900), for
\* any number of requests under way, in whatever order they are answered.
THEOREM SavesAreWhole == Spec => []SavesWhatWasShown
<1>1. IInv => SavesWhatWasShown
  BY DEF IInv, Kept, RequestWhole, SavesWhatWasShown
<1>. QED
  BY <1>1, InitHolds, StepHolds, PTL DEF Spec

\* However many agents are opened and in whatever order their answers come, the
\* modal's name, its id and its figures are of one agent (app.js:750).
THEOREM DetailIsOne == Spec => []DetailAgrees
<1>1. Init => DetailAgrees
  <2>. SUFFICES ASSUME Init PROVE DetailAgrees
    OBVIOUS
  <2>1. detail.name = None /\ detail.meta = None /\ detail.metrics = None
    BY DEF Init, NoDetail
  <2>. QED
    BY <2>1, NoneAssumption DEF DetailAgrees
<1>2. TypeOK /\ DetailAgrees /\ [Next]_vars => DetailAgrees'
  <2>. SUFFICES ASSUME TypeOK, DetailAgrees, [Next]_vars PROVE DetailAgrees'
    OBVIOUS
  <2>1. CASE detail' = detail
    BY <2>1 DEF DetailAgrees
  <2>2. CASE detail' = NoDetail
    BY <2>2, NoneAssumption DEF NoDetail, DetailAgrees
  <2>3. ASSUME NEW i, detail' = [NoDetail EXCEPT !.meta = i] PROVE DetailAgrees'
    BY <2>3, NoneAssumption DEF NoDetail, DetailAgrees
  <2>4. ASSUME NEW i, detail' = [name |-> i, meta |-> i, metrics |-> i, spark |-> i]
        PROVE  DetailAgrees'
    BY <2>4 DEF DetailAgrees
  <2>11. ASSUME NEW i, detail' = [detail EXCEPT !.name = i, !.meta = i, !.metrics = None]
         PROVE  DetailAgrees'
    <3>1. detail'.name = i /\ detail'.meta = i /\ detail'.metrics = None
      BY <2>11 DEF TypeOK, Details
    <3>. QED
      BY <3>1, NoneAssumption DEF DetailAgrees
  <2>5. CASE detail' = [detail EXCEPT !.name = "not found"]
    <3>1. detail'.name = "not found" /\ detail'.meta = detail.meta
          /\ detail'.metrics = detail.metrics
      BY <2>5 DEF TypeOK, Details
    <3>. QED
      BY <3>1, NoneAssumption DEF DetailAgrees
  <2>6. ASSUME NEW r \in Slots, Reload(r) PROVE DetailAgrees'
    BY <2>2, <2>6 DEF Reload
  <2>7. ASSUME NEW r \in Slots, NEW i \in Items, OpenDetail(r, i) PROVE DetailAgrees'
    BY <2>3, <2>7 DEF OpenDetail
  <2>8. ASSUME NEW r \in Slots, NEW found \in BOOLEAN, NEW figures \in BOOLEAN,
               EndDetail(r, found, figures)
        PROVE  DetailAgrees'
    BY <2>4, <2>5, <2>8, <2>11 DEF EndDetail
  <2>9. ASSUME NEW r \in Slots, Settle(r) PROVE DetailAgrees'
    BY <2>1, <2>8, <2>9
    DEF Settle, EndConfig, EndList, EndListFailed, EndToggle, EndEdit, EndSave, EndChat,
        EndMe, MakeRow
  <2>10. CASE UNCHANGED vars
    BY <2>1, <2>10 DEF vars
  <2>. QED
    BY <2>1, <2>6, <2>7, <2>9, <2>10
    DEF Next, ServeRead, ServeWrite, OpenTab, Search, Submit, OpenChat, Say, NewSession,
        SaveToken, Toggle, Edit, Add, Cancel, Elsewhere, Revoke
<1>. QED
  BY <1>1, <1>2, TypeCorrect, PTL DEF Spec

-----------------------------------------------------------------------------
(* One request at a time                                                   *)

\* The user waits for each answer: no two requests are under way.
OneAtATime == \A p, q \in Slots : Free(p) \/ Free(q) \/ p = q

\* If nobody revokes tokens: the page's token, if it has one, is live, and there are
\* no buttons without one; rows are as they are.
Identity == ~Others => token = None \/ token \in live
Allowed(offers) == ~Others /\ offers # {} => token \in live
Now(rows) == \A i \in DOMAIN rows : rows[i] = status[i]

\* What holds of the page while q is the only request under way.
Identified(q) ==
  /\ q.kind \notin {"config", "me"} => Identity /\ Allowed(table.offers) /\ Allowed(q.offers)
  /\ q.kind = "me" => q.tok = token /\ (~Others /\ q.served /\ q.ok => token \in live)
Current(q) ==
  ~Failures /\ ~Others =>
    /\ Now(table.rows) \/ (q.kind \in {"save", "toggle"} /\ q.served /\ q.ok)
    /\ q.kind \in {"list", "search"} => Now(q.rows)
Addressed(q) == q.kind = "chat" => q.session = chat.session
About(q) == Identified(q) /\ Current(q) /\ Addressed(q)

Alone(r) == \A p \in Slots \ {r} : Free(p)
Ordered == RepliesOfSession /\ \E r \in Slots : Alone(r) /\ About(req[r])

\* No rows are up to date.
LEMMA NoneNow == Now(NoRows)
BY DEF Now, NoRows

\* The request that a step changes is the only one, before and after.
LEMMA TheOne ==
  ASSUME IInv, Ordered, OneAtATime', NEW r \in Slots, NEW q, Send(r, q),
         q # NoRequest \/ ~Free(r)
  PROVE  About(req[r]) /\ req'[r] = q /\ Alone(r)'
<1>1. PICK s \in Slots : Alone(s) /\ About(req[s])
  BY DEF Ordered
<1>2. /\ req'[r] = q
      /\ \A p \in Slots \ {r} : req'[p] = req[p]
  BY DEF IInv, Kept, Send
<1>3. Free(s) \/ r = s
  <2>1. CASE Free(r)
    <3>1. req'[r] # NoRequest
      BY <1>2, <2>1
    <3>2. req'[s] = NoRequest \/ r = s
      BY <3>1 DEF OneAtATime, Free
    <3>. QED
      BY <1>2, <3>2 DEF Free
  <2>2. CASE ~Free(r)
    BY <1>1, <2>2 DEF Alone
  <2>. QED
    BY <2>1, <2>2
<1>4. Alone(r) /\ About(req[r])
  <2>1. CASE r = s
    BY <1>1, <2>1
  <2>2. CASE r # s
    <3>1. Free(r) /\ Free(s)
      BY <1>1, <1>3, <2>2 DEF Alone
    <3>2. req[r] = req[s]
      BY <3>1 DEF Free
    <3>. QED
      BY <1>1, <3>1, <3>2 DEF Alone
  <2>. QED
    BY <2>1, <2>2
<1>5. Alone(r)'
  BY <1>2, <1>4 DEF Alone, Free
<1>. QED
  BY <1>2, <1>4, <1>5

\* A step that sends, or goes on with, or ends the one request, and leaves the
\* identity, the table and the rows alone.
LEMMA SendOrdered ==
  ASSUME IInv, Ordered, OneAtATime', NEW r \in Slots, NEW q, Send(r, q),
         q # NoRequest \/ ~Free(r),
         UNCHANGED <<token, live, status, table>>,
         chat'.session = chat.session, RepliesOfSession',
         About(req[r]) => About(q)
  PROVE  Ordered'
<1>1. About(req[r]) /\ req'[r] = q /\ Alone(r)'
  BY TheOne
<1>2. About(q)
  BY <1>1
<1>3. About(req[r])'
  BY <1>1, <1>2
  DEF About, Identified, Current, Addressed, Identity, Allowed, Now
<1>. QED
  BY <1>1, <1>3 DEF Ordered

\* A load with a token that is then rightly there.
LEMMA LoadOrdered ==
  ASSUME IInv, Ordered, OneAtATime', NEW r \in Slots, NEW t, Load(r, t),
         About(req[r]) => Identity', RepliesOfSession'
  PROVE  Ordered'
<1>. DEFINE q == [Ask("list", t) EXCEPT !.all = (Table = "agents" \/ IsAdmin(t))]
<1>1. Send(r, q) /\ table' = Shows("loading")
  BY DEF Load
<1>2. q.kind = "list" /\ q.offers = {} /\ q.rows = NoRows /\ q # NoRequest
  BY DEF Ask, NoRequest
<1>. HIDE DEF q
<1>3. About(req[r]) /\ req'[r] = q /\ Alone(r)'
  BY <1>1, <1>2, TheOne
<1>4. table'.offers = {} /\ table'.rows = NoRows
  BY <1>1 DEF Shows
<1>5. Identified(req[r])'
  BY <1>2, <1>3, <1>4 DEF Identified, Allowed
<1>6. Now(NoRows)'
  BY DEF Now, NoRows
<1>7. Current(req[r])'
  BY <1>2, <1>3, <1>4, <1>6 DEF Current, Now
<1>8. Addressed(req[r])'
  BY <1>2, <1>3 DEF Addressed
<1>. QED
  BY <1>3, <1>5, <1>7, <1>8 DEF Ordered, About

\* The lines of the chat stay its own while the chat is left alone.
LEMMA ChatStays == ASSUME Ordered, chat' = chat PROVE RepliesOfSession'
BY DEF Ordered, RepliesOfSession

\* The user may start a request that has neither rows nor buttons.
LEMMA StartAbout ==
  ASSUME About(NoRequest), NEW q, q.kind \notin {"me", "list", "search", "chat"}, q.offers = {}
  PROVE  About(q)
<1>1. NoRequest.kind = "idle"
  BY DEF NoRequest
<1>. QED
  BY <1>1 DEF About, Identified, Current, Addressed, Allowed

\* The registry is asked of the token; or there is none.
LEMMA RefreshOrdered ==
  ASSUME IInv, Ordered, OneAtATime', NEW r \in Slots, NEW t, RefreshAuth(r, t),
         req[r].kind \in {"idle", "config"}, token' = t, UNCHANGED <<live, status, chat>>
  PROVE  Ordered'
<1>1. RepliesOfSession'
  BY ChatStays
<1>2. CASE t = None
  <2>1. Load(r, t)
    BY <1>2 DEF RefreshAuth
  <2>2. Identity'
    BY <1>2 DEF Identity
  <2>. QED
    BY <1>1, <2>1, <2>2, LoadOrdered
<1>3. CASE t # None
  <2>. DEFINE q == Ask("me", t)
  <2>1. Send(r, q) /\ table' = table
    BY <1>3 DEF RefreshAuth
  <2>2. q.kind = "me" /\ q.tok = t /\ ~q.served /\ q # NoRequest
    BY DEF Ask, NoRequest
  <2>. HIDE DEF q
  <2>3. About(req[r]) /\ req'[r] = q /\ Alone(r)'
    BY <2>1, <2>2, TheOne
  <2>4. Identified(req[r])' /\ Addressed(req[r])'
    BY <2>2, <2>3 DEF Identified, Addressed
  <2>5. ~Failures /\ ~Others => Now(table.rows)
    BY <2>3 DEF About, Current
  <2>6. Current(req[r])'
    BY <2>1, <2>2, <2>3, <2>5 DEF Current, Now
  <2>. QED
    BY <1>1, <2>3, <2>4, <2>6 DEF Ordered, About
<1>. QED
  BY <1>2, <1>3

\* The page's own steps keep the order.
LEMMA IdentityOrdered ==
  ASSUME IInv, Ordered, OneAtATime', NEW r \in Slots,
         \/ Reload(r) \/ EndConfig(r) \/ EndMe(r)
         \/ \E t \in Tokens \union {None} : SaveToken(r, t)
  PROVE  Ordered'
<1>1. NoRequest.kind = "idle"
  BY DEF NoRequest
<1>2. CASE Reload(r)
  <2>1. req'[r] = Ask("config", None) /\ Alone(r)'
    BY <1>2 DEF Reload, Opened, Alone, Free
  <2>2. req'[r].kind = "config"
    BY <2>1 DEF Ask, NoRequest
  <2>3. table'.rows = NoRows
    BY <1>2 DEF Reload, Shows
  <2>4. Now(NoRows)'
    BY DEF Now, NoRows
  <2>5. About(req[r])'
    BY <2>2, <2>3, <2>4 DEF About, Identified, Current, Addressed
  <2>6. RepliesOfSession'
    <3>1. chat'.replies = {}
      BY <1>2 DEF Reload, IInv, TypeOK
    <3>. QED
      BY <3>1 DEF RepliesOfSession
  <2>. QED
    BY <2>1, <2>5, <2>6 DEF Ordered
<1>3. CASE EndConfig(r)
  BY <1>3, RefreshOrdered DEF EndConfig, server
<1>6. ASSUME NEW t \in Tokens \union {None}, SaveToken(r, t) PROVE Ordered'
  <2>1. req[r].kind = "idle"
    BY <1>1, <1>6 DEF SaveToken, Free
  <2>. QED
    BY <1>6, <2>1, RefreshOrdered DEF SaveToken, SetToken, server
<1>7. CASE EndMe(r)
  <2>1. Load(r, token') /\ req[r].kind = "me" /\ live' = live
    BY <1>7 DEF EndMe, server
  <2>2. RepliesOfSession'
    BY <1>7, ChatStays DEF EndMe
  <2>3. About(req[r]) => Identity'
    <3>1. ASSUME About(req[r]), req[r].served, req[r].ok, token' = token PROVE Identity'
      BY <2>1, <3>1 DEF About, Identified, Identity
    <3>2. ASSUME token' = None PROVE Identity'
      BY <3>2 DEF Identity
    <3>. QED
      BY <1>7, <3>1, <3>2 DEF EndMe
  <2>. QED
    BY <2>1, <2>2, <2>3, LoadOrdered
<1>. QED
  BY <1>2, <1>3, <1>6, <1>7

\* The table's handlers keep the order.
LEMMA TableOrdered ==
  ASSUME IInv, Ordered, OneAtATime', NEW r \in Slots,
         \/ OpenTab(r) \/ Search(r) \/ EndList(r) \/ EndListFailed(r) \/ EndToggle(r)
         \/ \E i \in Items : MakeRow(r, i) \/ Toggle(r, i)
  PROVE  Ordered'
<1>1. NoRequest.kind = "idle" /\ NoRequest.offers = {}
  BY DEF NoRequest
<1>2. req[r] \in Requests
  BY DEF IInv, Kept
<1>3. RepliesOfSession'
  BY ChatStays
  DEF OpenTab, Search, EndList, EndListFailed, EndToggle, MakeRow, Toggle
<1>4. UNCHANGED <<token, live, status>> /\ chat' = chat
  BY DEF OpenTab, Search, EndList, EndListFailed, EndToggle, MakeRow, Toggle, server
<1>5. ASSUME req[r].kind \notin {"config", "me"}, About(req[r]) PROVE Identity'
  BY <1>4, <1>5 DEF About, Identified, Identity
<1>6. CASE OpenTab(r)
  BY <1>1, <1>3, <1>5, <1>6, LoadOrdered DEF OpenTab, Free
<1>7. CASE Search(r)
  <2>. DEFINE q == Ask("search", token)
  <2>1. Send(r, q) /\ Free(r) /\ table' = Shows("loading")
    BY <1>7 DEF Search
  <2>2. q.kind = "search" /\ q.offers = {} /\ q.rows = NoRows /\ q # NoRequest
    BY DEF Ask, NoRequest
  <2>. HIDE DEF q
  <2>3. About(req[r]) /\ req'[r] = q /\ Alone(r)'
    BY <2>1, <2>2, TheOne
  <2>4. table'.offers = {} /\ table'.rows = NoRows
    BY <2>1 DEF Shows
  <2>5. Identity'
    BY <1>1, <1>5, <2>1, <2>3 DEF Free
  <2>6. Now(NoRows)'
    BY DEF Now, NoRows
  <2>7. About(req[r])'
    BY <2>2, <2>3, <2>4, <2>5, <2>6
    DEF About, Identified, Current, Addressed, Allowed, Now
  <2>. QED
    BY <1>3, <2>3, <2>7 DEF Ordered
<1>8. CASE EndList(r) \/ EndListFailed(r)
  <2>1. Send(r, NoRequest) /\ req[r].kind \in {"list", "search"}
    BY <1>8 DEF EndList, EndListFailed, Done
  <2>2. About(req[r]) /\ req'[r] = NoRequest /\ Alone(r)'
    BY <1>1, <2>1, TheOne DEF Free
  <2>3. Identity'
    BY <1>5, <2>1, <2>2
  <2>4. ASSUME EndList(r) PROVE About(req[r])'
    <3>1. table'.rows = req[r].rows /\ table'.offers = req[r].offers
      BY <2>4 DEF EndList
    <3>2. Allowed(req[r].offers) /\ (~Failures /\ ~Others => Now(req[r].rows))
      BY <2>1, <2>2 DEF About, Identified, Current
    <3>. QED
      BY <1>1, <1>4, <2>2, <2>3, <3>1, <3>2
      DEF About, Identified, Current, Addressed, Allowed, Now
  <2>5. ASSUME EndListFailed(r) PROVE About(req[r])'
    <3>1. table'.rows = NoRows /\ table'.offers = {}
      BY <2>5 DEF EndListFailed, Shows
    <3>2. Now(NoRows)'
      BY DEF Now, NoRows
    <3>. QED
      BY <1>1, <2>2, <2>3, <3>1, <3>2
      DEF About, Identified, Current, Addressed, Allowed, Now
  <2>6. About(req[r])'
    BY <1>8, <2>4, <2>5
  <2>. QED
    BY <1>3, <2>2, <2>6 DEF Ordered
<1>9. CASE EndToggle(r)
  <2>1. CASE Load(r, token)
    BY <1>3, <1>5, <1>9, <2>1, LoadOrdered DEF EndToggle
  <2>2. CASE Done(r) /\ UNCHANGED table /\ (Failures \/ ~req[r].ok)
    <3>1. About(req[r]) => About(NoRequest)
      BY <1>1, <1>9, <2>2
      DEF EndToggle, About, Identified, Current, Addressed, Allowed
    <3>. QED
      BY <1>1, <1>3, <1>4, <1>9, <2>2, <3>1, SendOrdered DEF Done, EndToggle, Free
  <2>. QED
    BY <1>9, <2>1, <2>2 DEF EndToggle
<1>10. ASSUME NEW i \in Items, MakeRow(r, i) PROVE Ordered'
  <2>. DEFINE q == [req[r] EXCEPT !.made = @ \union {i},
                                  !.offers = IF CanMutate THEN @ \union {i} ELSE @]
  <2>1. Send(r, q) /\ UNCHANGED table /\ req[r].kind = "list"
    BY <1>10 DEF MakeRow
  <2>2. /\ q.kind = "list" /\ q.rows = req[r].rows /\ q # NoRequest
        /\ q.offers \subseteq req[r].offers \union {j \in {i} : CanMutate}
    <3>1. q.kind = "list" /\ q.rows = req[r].rows
      BY <1>2, <2>1 DEF Requests
    <3>2. q.offers = IF CanMutate THEN req[r].offers \union {i} ELSE req[r].offers
      BY <1>2 DEF Requests
    <3>. QED
      BY <1>1, <3>1, <3>2
  <2>. HIDE DEF q
  <2>3. ASSUME ~Others, Identity, CanMutate PROVE token \in live
    BY <2>3 DEF Identity, CanMutate, IsAdmin
  <2>4. About(req[r]) => About(q)
    BY <2>1, <2>2, <2>3 DEF About, Identified, Current, Addressed, Allowed
  <2>. QED
    BY <1>3, <1>4, <2>1, <2>2, <2>4, SendOrdered
<1>11. ASSUME NEW i \in Items, Toggle(r, i) PROVE Ordered'
  <2>1. PICK s \in Statuses : Send(r, [Ask("toggle", token) EXCEPT !.item = i, !.status = s])
    BY <1>11 DEF Toggle
  <2>. DEFINE q == [Ask("toggle", token) EXCEPT !.item = i, !.status = s]
  <2>2. q.kind = "toggle" /\ q.offers = {} /\ q # NoRequest
    BY DEF Ask, NoRequest
  <2>. HIDE DEF q
  <2>3. About(req[r]) => About(q)
    BY <1>11, <2>2, StartAbout DEF Toggle, Free
  <2>4. Send(r, q) /\ UNCHANGED table
    BY <1>11, <2>1 DEF Toggle, q
  <2>. QED
    BY <1>3, <1>4, <2>2, <2>3, <2>4, SendOrdered
<1>. QED
  BY <1>6, <1>7, <1>8, <1>9, <1>10, <1>11

\* The handlers of the form keep the order.
LEMMA FormOrdered ==
  ASSUME IInv, Ordered, OneAtATime', NEW r \in Slots,
         \/ EndEdit(r) \/ Submit(r) \/ EndSave(r)
         \/ \E i \in Items : Edit(r, i)
  PROVE  Ordered'
<1>1. NoRequest.kind = "idle" /\ NoRequest.offers = {}
  BY DEF NoRequest
<1>2. RepliesOfSession'
  BY ChatStays DEF EndEdit, Submit, EndSave, Edit
<1>3. UNCHANGED <<token, live, status>> /\ chat' = chat
  BY DEF EndEdit, Submit, EndSave, Edit, server
<1>4. CASE EndEdit(r)
  <2>1. About(req[r]) => About(NoRequest)
    BY <1>1, <1>4 DEF EndEdit, About, Identified, Current, Addressed, Allowed
  <2>. QED
    BY <1>1, <1>2, <1>3, <1>4, <2>1, SendOrdered DEF EndEdit, Done, Free
<1>5. CASE Submit(r)
  <2>. DEFINE q == [Ask("save", token) EXCEPT !.item = form.id, !.of = form.of,
                                              !.status = form.status]
  <2>1. q.kind = "save" /\ q.offers = {} /\ q # NoRequest
    BY DEF Ask, NoRequest
  <2>2. Send(r, q) /\ UNCHANGED table
    BY <1>5 DEF Submit
  <2>. HIDE DEF q
  <2>3. About(req[r]) => About(q)
    BY <1>5, <2>1, StartAbout DEF Submit, Free
  <2>. QED
    BY <1>2, <1>3, <2>1, <2>2, <2>3, SendOrdered
<1>6. CASE EndSave(r)
  <2>1. CASE Load(r, token)
    <3>1. About(req[r]) => Identity'
      BY <1>3, <1>6 DEF EndSave, About, Identified, Identity
    <3>. QED
      BY <1>2, <2>1, <3>1, LoadOrdered
  <2>2. CASE Done(r) /\ UNCHANGED table /\ (Failures \/ ~req[r].ok)
    <3>1. About(req[r]) => About(NoRequest)
      BY <1>1, <1>6, <2>2 DEF EndSave, About, Identified, Current, Addressed, Allowed
    <3>. QED
      BY <1>1, <1>2, <1>3, <1>6, <2>2, <3>1, SendOrdered DEF Done, EndSave, Free
  <2>. QED
    BY <1>6, <2>1, <2>2 DEF EndSave
<1>7. ASSUME NEW i \in Items, Edit(r, i) PROVE Ordered'
  <2>. DEFINE q == [Ask("edit", token) EXCEPT !.item = i]
  <2>1. q.kind = "edit" /\ q.offers = {} /\ q # NoRequest
    BY DEF Ask, NoRequest
  <2>2. Send(r, q) /\ UNCHANGED table
    BY <1>7 DEF Edit
  <2>. HIDE DEF q
  <2>3. About(req[r]) => About(q)
    BY <1>7, <2>1, StartAbout DEF Edit, Free
  <2>. QED
    BY <1>2, <1>3, <2>1, <2>2, <2>3, SendOrdered
<1>. QED
  BY <1>4, <1>5, <1>6, <1>7

\* The handlers of the modal and of the chat keep the order.
LEMMA PanelsOrdered ==
  ASSUME IInv, Ordered, OneAtATime', NEW r \in Slots,
         \/ OpenChat(r) \/ Say(r) \/ NewSession(r) \/ EndChat(r)
         \/ \E i \in Items : OpenDetail(r, i)
         \/ \E found, figures \in BOOLEAN : EndDetail(r, found, figures)
  PROVE  Ordered'
<1>1. NoRequest.kind = "idle" /\ NoRequest.offers = {}
  BY DEF NoRequest
<1>2. UNCHANGED <<token, live, status, table>>
  BY DEF OpenChat, Say, NewSession, EndChat, OpenDetail, EndDetail, server
<1>3. chat \in [session : Nat, greeted : BOOLEAN, replies : SUBSET Nat]
  BY DEF IInv, TypeOK
<1>4. CASE OpenChat(r) \/ Say(r)
  <2>. DEFINE q == [Ask("chat", token) EXCEPT !.session = chat.session]
  <2>1. q.kind = "chat" /\ q.offers = {} /\ q.session = chat.session /\ q # NoRequest
    BY DEF Ask, NoRequest
  <2>2. Send(r, q) /\ Free(r)
    BY <1>4 DEF OpenChat, Say
  <2>. HIDE DEF q
  <2>3. chat'.session = chat.session /\ chat'.replies = chat.replies
    BY <1>3, <1>4 DEF OpenChat, Say
  <2>4. RepliesOfSession'
    BY <2>3 DEF Ordered, RepliesOfSession
  <2>5. About(req[r]) => About(q)
    BY <1>1, <2>1, <2>2 DEF Free, About, Identified, Current, Addressed, Allowed
  <2>. QED
    BY <1>2, <2>1, <2>2, <2>3, <2>4, <2>5, SendOrdered
<1>5. CASE NewSession(r)
  <2>. DEFINE q == [Ask("chat", token) EXCEPT !.session = chat.session + 1]
  <2>1. q.kind = "chat" /\ q.offers = {} /\ q.session = chat.session + 1 /\ q # NoRequest
    BY DEF Ask, NoRequest
  <2>2. /\ Send(r, q) /\ Free(r)
        /\ chat' = [session |-> chat.session + 1, greeted |-> TRUE, replies |-> {}]
    BY <1>5 DEF NewSession
  <2>. HIDE DEF q
  <2>3. About(req[r]) /\ req'[r] = q /\ Alone(r)'
    BY <2>1, <2>2, TheOne
  <2>4. RepliesOfSession'
    BY <2>2 DEF RepliesOfSession
  <2>5. About(req[r])'
    BY <1>1, <1>2, <2>1, <2>2, <2>3
    DEF Free, About, Identified, Current, Addressed, Identity, Allowed, Now
  <2>. QED
    BY <2>3, <2>4, <2>5 DEF Ordered
<1>6. CASE EndChat(r)
  <2>1. Done(r) /\ req[r].kind = "chat"
    BY <1>6 DEF EndChat
  <2>2. About(req[r])
    BY <1>1, <2>1, TheOne DEF Done, Free
  <2>3. req[r].session = chat.session
    BY <2>1, <2>2 DEF About, Addressed
  <2>4. chat'.session = chat.session /\ chat'.replies \subseteq chat.replies \union {chat.session}
    <3>1. chat' = chat \/ chat' = [chat EXCEPT !.replies = @ \union {chat.session}]
      BY <1>6, <2>3 DEF EndChat
    <3>. QED
      BY <1>3, <3>1
  <2>5. RepliesOfSession'
    BY <2>4 DEF Ordered, RepliesOfSession
  <2>6. About(req[r]) => About(NoRequest)
    BY <1>1, <2>1 DEF About, Identified, Current, Addressed, Allowed
  <2>. QED
    BY <1>1, <1>2, <2>1, <2>4, <2>5, <2>6, SendOrdered DEF Done, Free
<1>7. ASSUME NEW i \in Items, OpenDetail(r, i) PROVE Ordered'
  <2>. DEFINE q == [Ask("detail", token) EXCEPT !.item = i]
  <2>1. q.kind = "detail" /\ q.offers = {} /\ q # NoRequest
    BY DEF Ask, NoRequest
  <2>2. Send(r, q) /\ Free(r) /\ chat' = chat
    BY <1>7 DEF OpenDetail
  <2>. HIDE DEF q
  <2>3. About(req[r]) => About(q)
    BY <2>1, <2>2, StartAbout DEF Free
  <2>. QED
    BY <1>2, <2>1, <2>2, <2>3, ChatStays, SendOrdered
<1>8. ASSUME NEW found \in BOOLEAN, NEW figures \in BOOLEAN, EndDetail(r, found, figures)
      PROVE  Ordered'
  <2>1. Done(r) /\ req[r].kind = "detail" /\ chat' = chat
    BY <1>8 DEF EndDetail
  <2>2. About(req[r]) => About(NoRequest)
    BY <1>1, <2>1 DEF About, Identified, Current, Addressed, Allowed
  <2>. QED
    BY <1>1, <1>2, <2>1, <2>2, ChatStays, SendOrdered DEF Done, Free
<1>. QED
  BY <1>4, <1>5, <1>6, <1>7, <1>8

\* The registry's answers keep the order: a row that is changed is loaded again.
LEMMA RegistryOrdered ==
  ASSUME IInv, Ordered, OneAtATime', NEW r \in Slots, ServeRead(r) \/ ServeWrite(r)
  PROVE  Ordered'
<1>1. NoRequest.kind = "idle"
  BY DEF NoRequest
<1>2. req[r] \in Requests
  BY DEF IInv, Kept
<1>3. UNCHANGED <<token, table>> /\ chat' = chat
  BY DEF ServeRead, ServeWrite
<1>4. RepliesOfSession'
  BY <1>3, ChatStays
<1>5. CASE ServeRead(r)
  <2>. DEFINE told == {i \in Items : req[r].kind = "search" \/ req[r].all \/ status[i] = "active"}
              rows == [i \in told |-> status[i]]
  <2>1. CASE req[r].kind \in {"list", "search"}
    <3>. DEFINE q == [req[r] EXCEPT !.served = TRUE, !.rows = rows]
    <3>1. q.kind = req[r].kind /\ q.offers = req[r].offers /\ q.rows = rows
      BY <1>2 DEF Requests
    <3>2. Now(rows)
      BY DEF Now
    <3>3. Send(r, q)
      BY <1>5, <2>1 DEF ServeRead
    <3>. HIDE DEF q, rows
    <3>4. About(req[r]) => About(q)
      BY <2>1, <3>1, <3>2 DEF About, Identified, Current, Addressed
    <3>. QED
      BY <1>1, <1>3, <1>4, <1>5, <2>1, <3>1, <3>3, <3>4, SendOrdered DEF ServeRead, server
  <2>2. CASE req[r].kind = "edit"
    <3>. DEFINE q == [req[r] EXCEPT !.served = TRUE, !.status = status[req[r].item]]
    <3>1. q.kind = req[r].kind /\ q.offers = req[r].offers
      BY <1>2 DEF Requests
    <3>2. Send(r, q)
      BY <1>5, <2>2 DEF ServeRead
    <3>. HIDE DEF q
    <3>3. About(req[r]) => About(q)
      BY <2>2, <3>1 DEF About, Identified, Current, Addressed
    <3>. QED
      BY <1>1, <1>3, <1>4, <1>5, <2>2, <3>1, <3>2, <3>3, SendOrdered DEF ServeRead, server
  <2>3. CASE req[r].kind = "me"
    <3>. DEFINE q == [req[r] EXCEPT !.served = TRUE, !.ok = (req[r].tok \in live)]
    <3>1. q.kind = "me" /\ q.tok = req[r].tok /\ (q.ok <=> req[r].tok \in live)
      BY <1>2, <2>3 DEF Requests
    <3>2. Send(r, q)
      BY <1>5, <2>3 DEF ServeRead
    <3>. HIDE DEF q
    <3>3. About(req[r]) => About(q)
      BY <2>3, <3>1 DEF About, Identified, Current, Addressed
    <3>. QED
      BY <1>1, <1>3, <1>4, <1>5, <2>3, <3>1, <3>2, <3>3, SendOrdered DEF ServeRead, server
  <2>. QED
    BY <1>5, <2>1, <2>2, <2>3 DEF ServeRead
<1>6. CASE ServeWrite(r)
  <2>. DEFINE i == req[r].item
              ok == IF i = None THEN MayAdd(req[r].tok) ELSE MayChange(req[r].tok)
              q == [req[r] EXCEPT !.served = TRUE, !.ok = ok]
  <2>1. q.kind = req[r].kind /\ q.offers = req[r].offers /\ q.served /\ q.ok = ok
    BY <1>2 DEF Requests
  <2>2. /\ Send(r, q) /\ live' = live /\ (~ok => status' = status)
        /\ req[r].kind \in {"save", "toggle"} /\ ~req[r].served
    BY <1>6 DEF ServeWrite
  <2>. HIDE DEF q, ok
  <2>3. q # NoRequest
    BY <1>1, <2>1, <2>2
  <2>4. About(req[r]) /\ req'[r] = q /\ Alone(r)'
    BY <2>2, <2>3, TheOne
  <2>5. Identified(req[r])' /\ Addressed(req[r])'
    BY <1>3, <2>1, <2>2, <2>4 DEF About, Identified, Identity, Allowed, Addressed
  <2>6. Current(req[r])'
    <3>1. CASE ok
      BY <2>1, <2>2, <2>4, <3>1 DEF Current
    <3>2. CASE ~ok
      <4>1. ~Failures /\ ~Others => Now(table.rows)
        BY <2>2, <2>4 DEF About, Current
      <4>. QED
        BY <1>3, <2>1, <2>2, <2>4, <3>2, <4>1 DEF Current, Now
    <3>. QED
      BY <3>1, <3>2
  <2>. QED
    BY <1>4, <2>4, <2>5, <2>6 DEF Ordered, About
<1>. QED
  BY <1>5, <1>6

\* Opening an empty form, closing one, and other clients keep the order.
LEMMA RestOrdered ==
  ASSUME Ordered,
         Add \/ Cancel \/ (\E i \in Items : Elsewhere(i)) \/ (\E t \in Tokens : Revoke(t))
  PROVE  Ordered'
<1>1. UNCHANGED <<req, token, table, chat>> /\ (~Others => UNCHANGED <<status, live>>)
  BY DEF Add, Cancel, Elsewhere, Revoke, server
<1>2. PICK r \in Slots : Alone(r) /\ About(req[r])
  BY DEF Ordered
<1>3. Alone(r)'
  BY <1>1, <1>2 DEF Alone, Free
<1>4. About(req[r])'
  BY <1>1, <1>2
  DEF About, Identified, Current, Addressed, Identity, Allowed, Now
<1>. QED
  BY <1>1, <1>3, <1>4, ChatStays DEF Ordered

\* A page that was just opened is in order.
LEMMA InitOrdered == Init => Ordered
<1>. SUFFICES ASSUME Init PROVE Ordered
  OBVIOUS
<1>1. PICK r \in Slots : req = Opened(r)
  BY DEF Init
<1>2. req[r] = Ask("config", None) /\ Alone(r)
  BY <1>1 DEF Opened, Alone, Free
<1>3. req[r].kind = "config"
  BY <1>2 DEF Ask, NoRequest
<1>4. Now(table.rows)
  BY NoneNow DEF Init, Shows
<1>5. About(req[r])
  BY <1>3, <1>4 DEF About, Identified, Current, Addressed
<1>6. RepliesOfSession
  BY DEF Init, RepliesOfSession
<1>. QED
  BY <1>2, <1>5, <1>6 DEF Ordered

\* Every step after which one request at most is under way keeps the order.
LEMMA StepOrdered == IInv /\ Ordered /\ [Next]_vars /\ OneAtATime' => Ordered'
<1>. SUFFICES ASSUME IInv, Ordered, [Next]_vars, OneAtATime' PROVE Ordered'
  OBVIOUS
<1>1. ASSUME NEW r \in Slots, Settle(r) PROVE Ordered'
  BY <1>1, IdentityOrdered, TableOrdered, FormOrdered, PanelsOrdered DEF Settle
<1>2. ASSUME NEW r \in Slots,
             \/ ServeRead(r) \/ ServeWrite(r)
             \/ Reload(r) \/ OpenTab(r) \/ Search(r) \/ Submit(r)
             \/ OpenChat(r) \/ Say(r) \/ NewSession(r)
             \/ \E t \in Tokens \union {None} : SaveToken(r, t)
             \/ \E i \in Items : Toggle(r, i) \/ Edit(r, i) \/ OpenDetail(r, i)
      PROVE  Ordered'
  BY <1>2, IdentityOrdered, TableOrdered, FormOrdered, PanelsOrdered, RegistryOrdered
<1>3. CASE UNCHANGED vars
  BY <1>3
  DEF vars, server, Ordered, RepliesOfSession, Alone, Free, About, Identified, Current, Addressed,
      Identity, Allowed, Now
<1>. QED
  BY <1>1, <1>2, <1>3, RestOrdered DEF Next

\* So a page whose requests never overlap is always in order.
LEMMA AlwaysOrdered == Spec /\ []OneAtATime => [](IInv /\ Ordered)
BY InitHolds, StepHolds, InitOrdered, StepOrdered, PTL DEF Spec

\* What an idle page has that was in order.
LEMMA QuietAbout == ASSUME Ordered, Quiet PROVE About(NoRequest)
<1>1. PICK r \in Slots : About(req[r])
  BY DEF Ordered
<1>. QED
  BY <1>1 DEF Quiet, Free

\* To a user who waits for each answer, and whose tokens are all admin's and are not
\* revoked by others, an idle page offers only what the registry will accept
\* (app.js:44), whatever fails.  So what OffersReflectIdentity fails for is a token
\* of a lower scope, a revocation elsewhere, or requests that overlap.
THEOREM OffersAreRight ==
  ASSUME ~Others, \A t \in Tokens : ScopeOf[t] = "admin"
  PROVE  Spec /\ []OneAtATime => []OffersReflectIdentity
<1>1. IInv /\ Ordered => OffersReflectIdentity
  <2>1. NoRequest.kind = "idle"
    BY DEF NoRequest
  <2>2. ASSUME token \in live, TypeOK PROVE MayChange(token)
    BY <2>2 DEF MayChange, TypeOK
  <2>. QED
    BY <2>1, <2>2, QuietAbout DEF OffersReflectIdentity, About, Identified, Allowed, IInv
<1>. QED
  BY <1>1, AlwaysOrdered, PTL

\* To a user who waits for each answer an idle page shows the rows as they are
\* (app.js:300), if no request fails and nobody else writes.
THEOREM TableIsCurrent ==
  ASSUME ~Failures, ~Others
  PROVE  Spec /\ []OneAtATime => []ShownIsCurrent
<1>1. Ordered => ShownIsCurrent
  <2>1. NoRequest.kind = "idle"
    BY DEF NoRequest
  <2>. QED
    BY <2>1, QuietAbout DEF ShownIsCurrent, About, Current, Now
<1>. QED
  BY <1>1, AlwaysOrdered, PTL

\* To a user who waits for each answer the chat shows the lines of its session only,
\* whatever fails.
THEOREM LinesAreOfSession == Spec /\ []OneAtATime => []RepliesOfSession
<1>1. Ordered => RepliesOfSession
  BY DEF Ordered
<1>. QED
  BY <1>1, AlwaysOrdered, PTL

\* While an agent is being opened the modal has no figures and no sparkline.
Bare == detail.metrics = None /\ detail.spark = None
Cleared ==
  /\ DetailIsWhole /\ SparklineAgrees
  /\ \A r \in Slots : req[r].kind = "detail" => Bare

\* Every step before and after which one request at most is under way keeps that.
LEMMA StepCleared == TypeOK /\ Cleared /\ OneAtATime /\ [Next]_vars /\ OneAtATime' => Cleared'
<1>. SUFFICES ASSUME TypeOK, Cleared, OneAtATime, [Next]_vars, OneAtATime' PROVE Cleared'
  OBVIOUS
<1>1. NoRequest.kind = "idle"
  BY DEF NoRequest
<1>2. ASSUME detail' = detail,
             \A r \in Slots : req'[r].kind = "detail" => req[r].kind = "detail"
      PROVE  Cleared'
  BY <1>2 DEF Cleared, DetailIsWhole, SparklineAgrees, Bare
<1>3. ASSUME NEW r \in Slots, NEW q, Send(r, q), q.kind = "detail" => req[r].kind = "detail",
             detail' = detail
      PROVE  Cleared'
  BY <1>2, <1>3 DEF Send, TypeOK
<1>19. ASSUME Bare' PROVE Cleared'
  BY <1>19 DEF Cleared, DetailIsWhole, SparklineAgrees, Bare
<1>4. ASSUME NEW r \in Slots, Reload(r) PROVE Cleared'
  BY <1>4, <1>19 DEF Reload, NoDetail, Bare
<1>5. ASSUME NEW r \in Slots, NEW i \in Items, OpenDetail(r, i) PROVE Cleared'
  BY <1>5, <1>19 DEF OpenDetail, NoDetail, Bare
<1>6. ASSUME NEW r \in Slots, NEW found \in BOOLEAN, NEW figures \in BOOLEAN,
             EndDetail(r, found, figures)
      PROVE  Cleared'
  <2>1. req[r].kind = "detail" /\ ~Free(r) /\ req' = [req EXCEPT ![r] = NoRequest]
    BY <1>1, <1>6 DEF EndDetail, Done, Send, Free
  <2>2. \A p \in Slots : req'[p] = NoRequest
    BY <2>1 DEF OneAtATime, Free, TypeOK
  <2>3. Bare
    BY <2>1 DEF Cleared
  <2>4. CASE found /\ figures
    <3>. DEFINE i == req[r].item
    <3>1. detail' = [name |-> i, meta |-> i, metrics |-> i, spark |-> i] /\ i \in Items \union {None}
      BY <1>6, <2>4 DEF EndDetail, TypeOK, Requests
    <3>. HIDE DEF i
    <3>2. DetailIsWhole' /\ SparklineAgrees'
      BY <3>1, NoneAssumption DEF DetailIsWhole, SparklineAgrees
    <3>. QED
      BY <1>1, <2>2, <3>2 DEF Cleared
  <2>5. CASE ~(found /\ figures)
    BY <1>6, <1>19, <2>3, <2>5 DEF EndDetail, TypeOK, Details, Bare
  <2>. QED
    BY <2>4, <2>5
<1>7. ASSUME NEW r \in Slots, NEW t, Load(r, t), detail' = detail PROVE Cleared'
  BY <1>3, <1>7 DEF Load, Ask, NoRequest
<1>8. ASSUME NEW r \in Slots, NEW t, RefreshAuth(r, t), detail' = detail PROVE Cleared'
  <2>1. CASE t = None
    BY <1>7, <1>8, <2>1 DEF RefreshAuth
  <2>2. CASE t # None
    <3>1. Ask("me", t).kind = "me"
      BY DEF Ask, NoRequest
    <3>. QED
      BY <1>3, <1>8, <2>2, <3>1 DEF RefreshAuth
  <2>. QED
    BY <2>1, <2>2
<1>9. ASSUME NEW r \in Slots, EndMe(r) PROVE Cleared'
  BY <1>7, <1>9 DEF EndMe
<1>10. ASSUME NEW r \in Slots, Done(r), detail' = detail PROVE Cleared'
  BY <1>1, <1>3, <1>10 DEF Done
<1>11. ASSUME NEW r \in Slots, NEW i \in Items, MakeRow(r, i) PROVE Cleared'
  <2>. DEFINE q == [req[r] EXCEPT !.made = @ \union {i},
                                  !.offers = IF CanMutate THEN @ \union {i} ELSE @]
  <2>1. q.kind = req[r].kind
    BY DEF TypeOK, Requests
  <2>. QED
    BY <1>3, <1>11, <2>1 DEF MakeRow
<1>12. ASSUME NEW r \in Slots, Settle(r) PROVE Cleared'
  BY <1>6, <1>7, <1>8, <1>9, <1>10, <1>11, <1>12
  DEF Settle, EndConfig, EndList, EndListFailed, EndToggle, EndEdit,
      EndSave, EndChat
<1>13. ASSUME NEW r \in Slots, ServeRead(r) \/ ServeWrite(r) PROVE Cleared'
  <2>1. detail' = detail
    BY <1>13 DEF ServeRead, ServeWrite
  <2>2. req[r].kind # "detail"
    BY <1>13 DEF ServeRead, ServeWrite
  <2>3. \E q : Send(r, q) /\ q.kind = req[r].kind
    <3>1. ASSUME NEW rows PROVE [req[r] EXCEPT !.served = TRUE, !.rows = rows].kind = req[r].kind
      BY DEF TypeOK, Requests
    <3>2. ASSUME NEW s PROVE [req[r] EXCEPT !.served = TRUE, !.status = s].kind = req[r].kind
      BY DEF TypeOK, Requests
    <3>3. ASSUME NEW ok PROVE [req[r] EXCEPT !.served = TRUE, !.ok = ok].kind = req[r].kind
      BY DEF TypeOK, Requests
    <3>5. CASE ServeRead(r)
      BY <3>1, <3>2, <3>3, <3>5 DEF ServeRead
    <3>6. CASE ServeWrite(r)
      BY <3>3, <3>6 DEF ServeWrite
    <3>. QED
      BY <1>13, <3>5, <3>6
  <2>. QED
    BY <1>3, <2>1, <2>2, <2>3
<1>14. ASSUME NEW r \in Slots,
              OpenTab(r) \/ Search(r) \/ Submit(r)
                \/ OpenChat(r) \/ Say(r) \/ NewSession(r)
       PROVE  Cleared'
  <2>1. \A n : [Ask("chat", token) EXCEPT !.session = n].kind = "chat"
    BY DEF Ask, NoRequest
  <2>2. [Ask("save", token) EXCEPT !.item = form.id, !.of = form.of,
                                   !.status = form.status].kind = "save"
    BY DEF Ask, NoRequest
  <2>3. Ask("search", token).kind = "search"
    BY DEF Ask, NoRequest
  <2>5. CASE OpenTab(r)
    BY <1>7, <2>5 DEF OpenTab
  <2>6. CASE Search(r)
    BY <1>3, <2>3, <2>6 DEF Search
  <2>7. CASE Submit(r)
    BY <1>3, <2>2, <2>7 DEF Submit
  <2>8. CASE OpenChat(r) \/ Say(r) \/ NewSession(r)
    BY <1>3, <2>1, <2>8 DEF OpenChat, Say, NewSession
  <2>. QED
    BY <1>14, <2>5, <2>6, <2>7, <2>8
<1>15. ASSUME NEW r \in Slots, NEW i \in Items, Toggle(r, i) \/ Edit(r, i) PROVE Cleared'
  <2>1. \A s : [Ask("toggle", token) EXCEPT !.item = i, !.status = s].kind = "toggle"
    BY DEF Ask, NoRequest
  <2>2. [Ask("edit", token) EXCEPT !.item = i].kind = "edit"
    BY DEF Ask, NoRequest
  <2>3. CASE Toggle(r, i)
    <3>1. detail' = detail /\ \E s \in Statuses :
            Send(r, [Ask("toggle", token) EXCEPT !.item = i, !.status = s])
      BY <2>3 DEF Toggle
    <3>. QED
      BY <1>3, <2>1, <3>1
  <2>4. CASE Edit(r, i)
    BY <1>3, <2>2, <2>4 DEF Edit
  <2>. QED
    BY <1>15, <2>3, <2>4
<1>16. ASSUME NEW r \in Slots, NEW t, SaveToken(r, t) PROVE Cleared'
  BY <1>8, <1>16 DEF SaveToken, SetToken
<1>17. CASE Add \/ Cancel \/ (\E i \in Items : Elsewhere(i)) \/ (\E t \in Tokens : Revoke(t))
  BY <1>2, <1>17 DEF Add, Cancel, Elsewhere, Revoke
<1>18. CASE UNCHANGED vars
  BY <1>2, <1>18 DEF vars
<1>. QED
  BY <1>4, <1>5, <1>12, <1>13, <1>14, <1>15, <1>16, <1>17, <1>18 DEF Next

\* So the modal of a page whose requests never overlap is always in order.
LEMMA AlwaysCleared == Spec /\ []OneAtATime => []Cleared
<1>1. Init => Cleared
  <2>. SUFFICES ASSUME Init PROVE Cleared
    OBVIOUS
  <2>1. Bare
    BY DEF Init, NoDetail, Bare
  <2>. QED
    BY <2>1 DEF Cleared, DetailIsWhole, SparklineAgrees, Bare
<1>. QED
  BY <1>1, StepCleared, TypeCorrect, PTL DEF Spec

\* To such a user the modal of an agent that is not found shows no figures of
\* another (app.js:750): that openings overlap is all that DetailIsWhole fails for.
THEOREM NotFoundIsEmpty == Spec /\ []OneAtATime => []DetailIsWhole
<1>1. Cleared => DetailIsWhole
  BY DEF Cleared
<1>. QED
  BY <1>1, AlwaysCleared, PTL

\* To such a user the sparkline is of the agent whose figures are shown (app.js:803),
\* whatever fails: that openings overlap is all that SparklineAgrees fails for.
THEOREM SparklineIsOfAgent == Spec /\ []OneAtATime => []SparklineAgrees
<1>1. Cleared => SparklineAgrees
  BY DEF Cleared
<1>. QED
  BY <1>1, AlwaysCleared, PTL
=============================================================================
