----------------------------- MODULE PagesProofs -----------------------------
(***************************************************************************)
(* Proofs about Pages and Dashboard, for any orders, fees, changes and     *)
(* requests that satisfy their assumptions.                                *)
(***************************************************************************)
EXTENDS Pages, TLAPS

(* What holds of a page by itself: it shows what had been recorded when    *)
(* the sync it tells of ended, the form is that of the order shown and     *)
(* what was typed in it is for that order, a save is for the order it was  *)
(* typed for, and the Solo page has neither form nor saves.                *)
PageSound(p) ==
    /\ p \in Page
    /\ p.data # None => p.data.synced <= p.data.at
    /\ p.form # None => /\ p.data # None /\ p.screen = "orders"
                        /\ p.form.order = p.selected /\ p.form.for = p.form.order
    /\ \A s \in Savers : p.saves[s] # None /\ p.saves[s].pc = "sent"
                            => p.saves[s].for = p.saves[s].order
    /\ product = "solo" => /\ p.selected = None /\ p.form = None
                           /\ \A s \in Savers : p.saves[s] = None

(* Nothing is read before it is committed, and the orders of a dashboard   *)
(* after its mailbox.                                                      *)
ReadsBehind ==
    \A r \in Readers :
        /\ read[r].pc = "half" => read[r].synced <= changes
        /\ read[r].pc = "ready" => read[r].synced <= read[r].at /\ read[r].at <= changes

OneLatest == \A q, r \in Readers : sent[q].latest /\ sent[r].latest => q = r

(* The Solo page's last request was made after the sign-out, if there was  *)
(* one, and what it reads is not older than what the page has shown.       *)
LatestFresh ==
    product = "solo" =>
        \A r \in Readers : sent[r].latest =>
            ~sent[r].before /\ (read[r].pc = "ready" => read[r].at >= shown)

PagesInv == TypeOK /\ PageSound(page) /\ ReadsBehind /\ OneLatest /\ LatestFresh

-----------------------------------------------------------------------------
(* The inspector's form.                                                   *)

LEMMA FormedSound ==
    ASSUME NEW form \in Form, NEW o \in Orders \cup {None}, NEW data \in Data,
           form # None => form.for = form.order
    PROVE  /\ Formed(form, o, data) \in Form
           /\ Formed(form, o, data) # None =>
                /\ o # None /\ data # None
                /\ Formed(form, o, data).order = o /\ Formed(form, o, data).for = o
<1>1. CASE o = None \/ data = None
  BY <1>1 DEF Formed, Form
<1>2. CASE ~(o = None \/ data = None) /\ form # None /\ SameForm(form, o, data)
  <2>1. form \in [order : Orders, fee : Fees, typed : Fees, for : Orders]
    BY <1>2 DEF Form
  <2>2. Formed(form, o, data) = [form EXCEPT !.order = o] /\ form.order = o
    BY <1>2 DEF Formed, SameForm
  <2> QED BY <1>2, <2>1, <2>2 DEF Form
<1>3. CASE ~(o = None \/ data = None) /\ ~(form # None /\ SameForm(form, o, data))
  <2>1. o \in Orders /\ data.fees[o] \in Fees
    BY <1>3 DEF Data, Answers
  <2>2. Formed(form, o, data) = [order |-> o, fee |-> data.fees[o], typed |-> data.fees[o], for |-> o]
    BY <1>3 DEF Formed, Fresh
  <2> QED BY <1>3, <2>1, <2>2 DEF Form
<1> QED BY <1>1, <1>2, <1>3

(* New data on the screen that shows orders.                               *)
LEMMA DataSound ==
    ASSUME PageSound(page), NEW data \in Data
    PROVE  /\ WithData(data) \in Page
           /\ WithData(data).data = data
           /\ WithData(data).form = Formed(page.form, page.selected, data)
           /\ WithData(data).screen = page.screen /\ WithData(data).saves = page.saves
           /\ WithData(data).selected = page.selected
<1>1. page.form \in Form /\ page.selected \in Orders \cup {None}
        /\ (page.form # None => page.form.for = page.form.order)
  BY DEF PageSound, Page
<1>2. Formed(page.form, page.selected, data) \in Form
  BY <1>1, FormedSound
<1> QED BY <1>2 DEF WithData, Page, PageSound

-----------------------------------------------------------------------------
(* The page.                                                               *)

(* A save that ends takes nothing else with it.                            *)
LEMMA SettleSound ==
    ASSUME NEW p, PageSound(p), NEW r \in Readers
    PROVE  PageSound(Settle(p, r)) /\ Settle(p, r).data = p.data
<1> DEFINE ended == {s \in Savers : p.saves[s] = [pc |-> "shown", asks |-> r]}
           saves == [s \in Savers |-> IF s \in ended THEN None ELSE p.saves[s]]
           saving == IF ended = {} THEN p.saving ELSE None
<1>1. p \in Page
  BY DEF PageSound
<1>2. saves \in [Savers -> Save]
  BY <1>1 DEF Page, Save
<1>3. saving \in Orders \cup {None}
  BY <1>1 DEF Page
<1>4. \A s \in Savers : saves[s] = None \/ saves[s] = p.saves[s]
  OBVIOUS
<1>5. Settle(p, r) = [p EXCEPT !.saves = saves, !.saving = saving]
  BY <1>1 DEF Settle, Page
<1> HIDE DEF saves, saving
<1>6. /\ Settle(p, r) \in Page /\ Settle(p, r).saves = saves
      /\ Settle(p, r).data = p.data /\ Settle(p, r).form = p.form
      /\ Settle(p, r).screen = p.screen /\ Settle(p, r).selected = p.selected
  BY <1>1, <1>2, <1>3, <1>5 DEF Page
<1> QED BY <1>4, <1>6 DEF PageSound

LEMMA OpenedSound == PageSound(Opened) /\ PageSound([Opened EXCEPT !.screen = "login"])
<1>1. None \in Data /\ None \in Form /\ [s \in Savers |-> None] \in [Savers -> Save]
  BY DEF Data, Form, Save
<1> QED BY <1>1 DEF PageSound, Opened, Page

LEMMA AnswerTyped ==
    ASSUME TypeOK, NEW r \in Readers, read[r].pc = "ready"
    PROVE  /\ read[r].syncing \in BOOLEAN /\ read[r].synced \in 0..MaxChanges
           /\ read[r].fees \in [Orders -> Fees] /\ read[r].at \in 0..MaxChanges
           /\ Answer(r) \in Answers /\ Answer(r) \in Data
<1>1. read[r] \in [pc : {"ready"}, syncing : BOOLEAN, synced : 0..MaxChanges,
                   fees : [Orders -> Fees], at : 0..MaxChanges]
  BY DEF TypeOK, Read, Closed, Reading
<1> QED BY <1>1 DEF Answer, Data, Answers

LEMMA DeliverSound ==
    ASSUME PagesInv, NEW r \in Readers, Deliver(r)
    PROVE  PageSound(page)' /\ (page' = page \/ page'.data = Answer(r))
<1>1. product' = product
  BY DEF Deliver
<1>2. CASE page' = page
  BY <1>1, <1>2 DEF PagesInv, PageSound
<1>3. CASE page' = Settle([WithData(Answer(r)) EXCEPT !.screen = "orders"], r)
  <2> DEFINE p == [WithData(Answer(r)) EXCEPT !.screen = "orders"]
  <2>1. Answer(r) \in Data /\ PageSound(page)
    BY AnswerTyped DEF Deliver, PagesInv
  <2>2. /\ p \in Page /\ p.data = Answer(r) /\ p.screen = "orders"
        /\ p.form = Formed(page.form, page.selected, Answer(r))
        /\ p.saves = page.saves /\ p.selected = page.selected
    BY <2>1, DataSound DEF Page
  <2> HIDE DEF p
  <2>3. page.form \in Form /\ page.selected \in Orders \cup {None}
          /\ (page.form # None => page.form.for = page.form.order)
    BY <2>1 DEF PageSound, Page
  <2>4. product = "solo" => p.form = None
    BY <2>1, <2>2 DEF PageSound, Formed
  <2>5. p.form # None => /\ p.data # None /\ p.selected # None
                         /\ p.form.order = p.selected /\ p.form.for = p.selected
    <3>1. Formed(page.form, page.selected, Answer(r)) # None =>
            /\ page.selected # None /\ Answer(r) # None
            /\ Formed(page.form, page.selected, Answer(r)).order = page.selected
            /\ Formed(page.form, page.selected, Answer(r)).for = page.selected
      BY <2>1, <2>3, FormedSound
    <3> QED BY <2>2, <3>1
  <2>6. Answer(r).synced <= Answer(r).at
    BY DEF Answer, Deliver, PagesInv, ReadsBehind
  <2>7. PageSound(p)
    BY <2>1, <2>2, <2>4, <2>5, <2>6 DEF PageSound
  <2>8. PageSound(page') /\ page'.data = Answer(r)
    BY <1>3, <2>2, <2>7, SettleSound DEF p
  <2> QED BY <1>1, <2>8 DEF PageSound
<1> QED BY <1>2, <1>3 DEF Deliver

LEMMA ErrorSound ==
    ASSUME PagesInv, NEW r \in Readers, Denied(r) \/ Lost(r)
    PROVE  PageSound(page)' /\ page'.data \in {page.data, None}
<1>1. product' = product /\ PageSound(page)
  BY DEF Denied, Lost, PagesInv
<1>2. None \in Form /\ None \in Data
  BY DEF Form, Data
<1>3. PICK p : PageSound(p) /\ p.data \in {page.data, None} /\ page' \in {p, Settle(p, r)}
  <2>1. CASE Denied(r)
    <3> DEFINE p == [page EXCEPT !.screen = "login", !.form = None,
                                 !.data = IF product = "solo" THEN None ELSE @]
    <3>1. PageSound(p) /\ p.data \in {page.data, None}
      BY <1>1, <1>2 DEF PageSound, Page
    <3>2. page' = page \/ page' = Settle(p, r)
      BY <2>1 DEF Denied
    <3> HIDE DEF p
    <3> QED BY <1>1, <3>1, <3>2
  <2>2. CASE Lost(r)
    <3> DEFINE p == [page EXCEPT !.screen = "error", !.form = None]
    <3>1. PageSound(p) /\ p.data \in {page.data, None}
      BY <1>1, <1>2 DEF PageSound, Page
    <3>2. page' = page \/ page' = Settle(page, r) \/ page' = Settle(p, r)
      BY <2>2 DEF Lost
    <3> HIDE DEF p
    <3> QED BY <1>1, <3>1, <3>2
  <2> QED BY <2>1, <2>2
<1>4. PageSound(page') /\ page'.data \in {page.data, None}
  BY <1>3, SettleSound
<1> QED BY <1>1, <1>4 DEF PageSound

LEMMA SelectSound == ASSUME PagesInv, NEW o \in Orders, Select(o) PROVE PageSound(page)'
<1>1. /\ product = "aco" /\ product' = product /\ page.data # None /\ page.screen = "orders"
      /\ page' = [page EXCEPT !.selected = o, !.form = Formed(@, o, page.data)]
  BY DEF Select, Shows, serverVars
<1>2. page \in Page /\ page.form \in Form /\ page.data \in Data
        /\ (page.form # None => page.form.for = page.form.order)
  BY DEF PagesInv, PageSound, Page
<1>3. Formed(page.form, o, page.data) \in Form
  BY <1>2, FormedSound
<1>4. /\ page' \in Page /\ page'.selected = o /\ page'.form = Formed(page.form, o, page.data)
      /\ page'.data = page.data /\ page'.screen = page.screen /\ page'.saves = page.saves
  BY <1>1, <1>2, <1>3 DEF Page
<1> QED BY <1>1, <1>2, <1>4, FormedSound DEF PageSound, PagesInv

LEMMA TypeSound == ASSUME PagesInv, NEW fee \in Fees, Type(fee) PROVE PageSound(page)'
<1>1. /\ product' = product /\ page.form # None
      /\ page' = [page EXCEPT !.form.typed = fee, !.form.for = page.form.order]
  BY DEF Type, serverVars
<1>2. page \in Page /\ page.form \in [order : Orders, fee : Fees, typed : Fees, for : Orders]
  BY <1>1 DEF PagesInv, PageSound, Page, Form
<1>3. page' = [page EXCEPT !.form = [page.form EXCEPT !.typed = fee, !.for = page.form.order]]
  BY <1>1, <1>2 DEF Page
<1>4. [page.form EXCEPT !.typed = fee, !.for = page.form.order] \in Form
  BY <1>2 DEF Form
<1>5. page' \in Page
  BY <1>2, <1>3, <1>4 DEF Page
<1>6. /\ page'.form = [page.form EXCEPT !.typed = fee, !.for = page.form.order]
      /\ page'.data = page.data /\ page'.screen = page.screen
      /\ page'.saves = page.saves /\ page'.selected = page.selected
  BY <1>2, <1>3 DEF Page
<1>7. page'.form.order = page.form.order /\ page'.form.for = page.form.order
  BY <1>2, <1>6
<1> QED BY <1>1, <1>5, <1>6, <1>7 DEF PageSound, PagesInv

(* A save that is new, goes on or ends.                                    *)
LEMMA SaveKept ==
    ASSUME NEW p, PageSound(p), product # "solo", NEW s \in Savers, NEW save \in Save,
           save # None /\ save.pc = "sent" => save.for = save.order,
           NEW saving \in Orders \cup {None}
    PROVE  PageSound([p EXCEPT !.saves[s] = save, !.saving = saving])
<1> DEFINE saves == [p.saves EXCEPT ![s] = save]
           new == [p EXCEPT !.saves = saves, !.saving = saving]
<1>1. p \in Page /\ p.saves \in [Savers -> Save]
  BY DEF PageSound, Page
<1>2. saves \in [Savers -> Save] /\ \A q \in Savers : saves[q] = IF q = s THEN save ELSE p.saves[q]
  BY <1>1
<1>3. [p EXCEPT !.saves[s] = save, !.saving = saving] = new
  BY <1>1 DEF Page
<1> HIDE DEF saves
<1>4. /\ new \in Page /\ new.saves = saves /\ new.data = p.data /\ new.form = p.form
      /\ new.screen = p.screen /\ new.selected = p.selected
  BY <1>1, <1>2 DEF Page
<1> HIDE DEF new
<1>5. PageSound(new)
  BY <1>2, <1>4 DEF PageSound
<1> QED BY <1>3, <1>5

LEMMA SaveSound ==
    ASSUME PagesInv, NEW s \in Savers, SaveFee(s) \/ FeeSaved(s) \/ FeeRefused(s)
    PROVE  PageSound(page)'
<1>1. PageSound(page) /\ page \in Page /\ product' = product
  BY DEF PagesInv, PageSound, SaveFee, FeeSaved, FeeRefused, SetFee, serverVars
<1>2. page.saves[s] \in Save /\ page.saving \in Orders \cup {None}
  BY <1>1 DEF Page
<1>3. product # "solo"
  BY <1>1 DEF PageSound, SaveFee, FeeSaved, FeeRefused, Saved
<1>4. PICK save \in Save, saving \in Orders \cup {None} :
        /\ save # None /\ save.pc = "sent" => save.for = save.order
        /\ page' = [page EXCEPT !.saves[s] = save, !.saving = saving]
  <2>1. CASE SaveFee(s)
    <3>1. page.form # None /\ page.form.for = page.form.order
      BY <1>1, <2>1 DEF SaveFee, PageSound
    <3>2. page.form \in [order : Orders, fee : Fees, typed : Fees, for : Orders]
      BY <1>1, <3>1 DEF Page, Form
    <3> DEFINE save == [pc |-> "sent", order |-> page.form.order, fee |-> page.form.typed,
                        for |-> page.form.for]
    <3>3. save \in Save /\ save.for = save.order
      BY <3>1, <3>2 DEF Save
    <3>4. page' = [page EXCEPT !.saves[s] = save, !.saving = page.form.order]
      BY <1>1, <2>1 DEF SaveFee, Page
    <3>5. page.form.order \in Orders \cup {None}
      BY <3>2
    <3> HIDE DEF save
    <3> QED BY <3>3, <3>4, <3>5
  <2>2. CASE FeeSaved(s)
    <3>1. Saved(s, "sent") /\ page' = [page EXCEPT !.saves[s].pc = "saved"]
      BY <2>2 DEF FeeSaved
    <3>2. page.saves[s] \in [pc : {"sent", "saved"}, order : Orders, fee : Fees, for : Orders]
      BY <1>2, <3>1 DEF Save, Saved
    <3> DEFINE save == [page.saves[s] EXCEPT !.pc = "saved"]
    <3>3. save \in Save /\ save.pc = "saved"
      BY <3>2 DEF Save
    <3>4. page' = [page EXCEPT !.saves[s] = save, !.saving = page.saving]
      BY <1>1, <3>1 DEF Page
    <3> HIDE DEF save
    <3> QED BY <1>2, <3>3, <3>4
  <2>3. CASE FeeRefused(s)
    <3>1. None \in Save /\ page' = [page EXCEPT !.saves[s] = None, !.saving = None]
      BY <2>3 DEF FeeRefused, Save
    <3> QED BY <3>1
  <2> QED BY <2>1, <2>2, <2>3
<1>5. PageSound(page')
  BY <1>1, <1>3, <1>4, SaveKept
<1> QED BY <1>1, <1>5 DEF PageSound

LEMMA FeeShownSound ==
    ASSUME PagesInv, NEW s \in Savers, NEW r \in Readers, FeeShown(s, r)
    PROVE  PageSound(page)'
<1> DEFINE data == IF page.data = None THEN None
                   ELSE [page.data EXCEPT !.fees[page.saves[s].order] = page.saves[s].fee]
           save == [pc |-> "shown", asks |-> r]
           form == IF Shows THEN Formed(page.form, page.selected, data) ELSE None
           p == [page EXCEPT !.data = data, !.form = form]
<1>1. /\ product' = product /\ page.saves[s] # None /\ page.saves[s].pc = "saved"
      /\ page' = [WithData(data) EXCEPT !.saves[s] = save, !.form = IF Shows THEN @ ELSE None]
  BY DEF FeeShown, Saved
<1>2. PageSound(page) /\ page \in Page /\ product # "solo"
  BY <1>1 DEF PagesInv, PageSound
<1>3. page.saves[s].order \in Orders /\ page.saves[s].fee \in Fees
  BY <1>1, <1>2 DEF Page, Save
<1>4. data \in Data /\ (data # None => data.synced <= data.at)
  <2>1. CASE page.data = None
    BY <2>1 DEF Data
  <2>2. CASE page.data # None
    <3>1. page.data \in Answers /\ page.data.synced <= page.data.at
      BY <1>2, <2>2 DEF Page, Data, PageSound
    <3>2. /\ data = [page.data EXCEPT !.fees[page.saves[s].order] = page.saves[s].fee]
          /\ data \in Answers /\ data.synced = page.data.synced /\ data.at = page.data.at
      BY <1>3, <2>2, <3>1 DEF Answers
    <3> HIDE DEF data
    <3> QED BY <3>1, <3>2 DEF Data
  <2> QED BY <2>1, <2>2
<1> HIDE DEF data
<1>5. page.form \in Form /\ page.selected \in Orders \cup {None}
        /\ (page.form # None => page.form.for = page.form.order)
  BY <1>2 DEF PageSound, Page
<1>6. form \in Form /\ (form # None => /\ Shows /\ data # None
                                       /\ form.order = page.selected /\ form.for = page.selected)
  <2>1. CASE Shows
    <3>1. form = Formed(page.form, page.selected, data)
      BY <2>1
    <3> HIDE DEF form
    <3> QED BY <1>4, <1>5, <2>1, <3>1, FormedSound
  <2>2. CASE ~Shows
    BY <2>2 DEF Form
  <2> QED BY <2>1, <2>2
<1>7. page' = [page EXCEPT !.data = data, !.form = form, !.saves[s] = save]
  <2> DEFINE q == WithData(data)
  <2>1. /\ q \in Page /\ q = [page EXCEPT !.data = data, !.form = Formed(page.form, page.selected, data)]
        /\ q.form = Formed(page.form, page.selected, data) /\ q.saves = page.saves
    BY <1>2, <1>4, DataSound DEF WithData, Page
  <2>2. page' = [q EXCEPT !.saves = [q.saves EXCEPT ![s] = save], !.form = IF Shows THEN q.form ELSE None]
    <3> HIDE DEF q, save
    <3> QED BY <1>1, <2>1 DEF Page, q
  <2>3. page' = [q EXCEPT !.saves = [page.saves EXCEPT ![s] = save], !.form = form]
    BY <2>1, <2>2
  <2> HIDE DEF form, save
  <2> QED BY <1>2, <2>1, <2>3 DEF Page
<1> HIDE DEF form
<1>8. /\ p \in Page /\ p.data = data /\ p.form = form /\ p.screen = page.screen
      /\ p.selected = page.selected /\ p.saves = page.saves
  BY <1>2, <1>4, <1>6 DEF Page
<1>9. PageSound(p)
  BY <1>2, <1>4, <1>6, <1>8 DEF PageSound, Shows
<1>10. save \in Save /\ save.pc # "sent"
  BY DEF Save
<1> HIDE DEF save
<1>11. page' = [p EXCEPT !.saves[s] = save, !.saving = p.saving]
  BY <1>2, <1>7 DEF Page
<1>12. PageSound(page')
  BY <1>2, <1>9, <1>8, <1>10, <1>11, SaveKept DEF Page
<1> QED BY <1>1, <1>12 DEF PageSound

(* The other steps leave form, save and selection alone, or the page.      *)
LEMMA PageKept == ASSUME PagesInv, [Next]_vars PROVE PageSound(page)'
<1>1. PageSound(page) /\ page \in Page /\ None \in Data
  BY DEF PagesInv, PageSound, Data
<1>2. ASSUME page' = page, product' = product PROVE PageSound(page)'
  BY <1>1, <1>2 DEF PageSound
<1>3. CASE ServerStep /\ UNCHANGED pageVars
  BY <1>2, <1>3
     DEF ServerStep, BeginSync, RecordMail, FinishSync, SetFee, ReadStep, pageVars
<1>4. ASSUME NEW r \in Readers, Refresh(r) PROVE PageSound(page)'
  BY <1>2, <1>4 DEF Refresh
<1>5. ASSUME NEW r \in Readers, ActShown(r) PROVE PageSound(page)'
  BY <1>1, <1>5 DEF ActShown, PageSound, Page
<1>6. ASSUME NEW r \in Readers, SignOutFails(r) PROVE PageSound(page)'
  BY <1>1, <1>6 DEF SignOutFails, PageSound, Page
<1>7. ASSUME NEW r \in Readers, SignIn(r) PROVE PageSound(page)'
  <2>1. product' = product /\ (page' = page \/ page' = Opened)
    BY <1>7 DEF SignIn
  <2> QED BY <2>1, <1>2, OpenedSound DEF PageSound
<1>8. CASE Act \/ Acted \/ ActFails
  BY <1>1, <1>8 DEF Act, Acted, ActFails, PageSound, Page, serverVars
<1>9. CASE SyncInbox \/ SyncRefused
  <2>1. PICK flag \in BOOLEAN : page' = [page EXCEPT !.data.syncing = flag]
    BY <1>9 DEF SyncInbox, SyncRefused
  <2>2. page.data # None /\ page.screen = "orders" /\ product' = product /\ product = "aco"
    BY <1>9 DEF SyncInbox, SyncRefused, Shows, serverVars
  <2>3. page.data \in Answers
    BY <1>1, <2>2 DEF Page, Data
  <2> DEFINE data == [page.data EXCEPT !.syncing = flag]
  <2>4. page' = [page EXCEPT !.data = data]
    BY <1>1, <2>1 DEF Page
  <2>5. data \in Answers /\ data.synced = page.data.synced /\ data.at = page.data.at
    BY <2>3 DEF Answers
  <2>6. data \in Data /\ data # None
    BY <2>5, PagesAssumption DEF Data
  <2> HIDE DEF data
  <2>7. /\ page' \in Page /\ page'.form = page.form /\ page'.saves = page.saves
        /\ page'.selected = page.selected /\ page'.screen = page.screen
        /\ page'.data = data
    BY <1>1, <2>4, <2>6 DEF Page
  <2> QED BY <1>1, <2>2, <2>5, <2>6, <2>7 DEF PageSound
<1>10. CASE SignOut
  <2>1. /\ page' = [page EXCEPT !.leaving = TRUE, !.data = None]
        /\ product' = product /\ product = "solo"
    BY <1>10 DEF SignOut, serverVars
  <2>2. /\ page' \in Page /\ page'.form = page.form /\ page'.saves = page.saves
        /\ page'.selected = page.selected /\ page'.screen = page.screen /\ page'.data = None
    BY <1>1, <2>1 DEF Page
  <2> QED BY <1>1, <2>1, <2>2 DEF PageSound
<1>11. CASE SignedOut
  BY <1>11, OpenedSound DEF SignedOut, PageSound
<1>12. CASE UNCHANGED vars
  BY <1>2, <1>12 DEF vars, serverVars, pageVars
<1> QED BY <1>3, <1>4, <1>5, <1>6, <1>7, <1>8, <1>9, <1>10, <1>11, <1>12,
           DeliverSound, ErrorSound, SelectSound, TypeSound, SaveSound, FeeShownSound
        DEF Next, PageStep

-----------------------------------------------------------------------------
(* The requests.                                                           *)

(* What a step does to the requests and to what they may have read.        *)
LEMMA StepKinds ==
    ASSUME [Next]_vars
    PROVE  /\ product' = product
           /\ \/ \E r \in Readers : ReadStep(r) /\ UNCHANGED <<sent, shown>>
              \/ (\E r \in Readers : Ask(r)) /\ UNCHANGED <<changes, shown>>
              \/ \E r \in Readers : Deliver(r)
              \/ (\E r \in Readers : Close(r)) /\ UNCHANGED <<changes, shown>>
              \/ Left /\ UNCHANGED <<changes, shown>>
              \/ SignOut
              \/ Change /\ UNCHANGED <<read, sent, shown>>
              \/ UNCHANGED <<read, sent, shown, changes>>
<1>1. CASE ServerStep /\ UNCHANGED pageVars
  BY <1>1 DEF ServerStep, BeginSync, RecordMail, FinishSync, SetFee, ReadStep, pageVars
<1>2. ASSUME NEW r \in Readers, Refresh(r) \/ ActShown(r) \/ \E s \in Savers : FeeShown(s, r)
      PROVE  product' = product /\ Ask(r) /\ UNCHANGED <<changes, shown>>
  BY <1>2 DEF Refresh, ActShown, FeeShown
<1>3. ASSUME NEW r \in Readers, Deliver(r) PROVE product' = product
  BY <1>3 DEF Deliver
<1>4. ASSUME NEW r \in Readers, Denied(r) \/ Lost(r)
      PROVE  product' = product /\ Close(r) /\ UNCHANGED <<changes, shown>>
  BY <1>4 DEF Denied, Lost
<1>5. ASSUME NEW r \in Readers, SignOutFails(r)
      PROVE  /\ product' = product /\ UNCHANGED <<changes, shown>>
             /\ Ask(r) \/ UNCHANGED <<read, sent>>
  BY <1>5 DEF SignOutFails
<1>6. ASSUME NEW r \in Readers, SignIn(r)
      PROVE  product' = product /\ UNCHANGED <<changes, shown>> /\ (Ask(r) \/ Left)
  BY <1>6 DEF SignIn
<1>7. ASSUME (\E o \in Orders : Select(o)) \/ (\E fee \in Fees : Type(fee)) \/ Act \/ Acted \/ ActFails
                \/ SyncInbox \/ SyncRefused
                \/ \E s \in Savers : SaveFee(s) \/ FeeSaved(s) \/ FeeRefused(s)
      PROVE  /\ product' = product /\ UNCHANGED <<read, sent, shown>>
             /\ Change \/ UNCHANGED changes
  BY <1>7 DEF Select, Type, Act, Acted, ActFails, SyncInbox, SyncRefused, SaveFee, FeeSaved, SetFee,
              FeeRefused, serverVars
<1>8. CASE SignOut
  BY <1>8 DEF SignOut, serverVars
<1>9. CASE SignedOut
  BY <1>9 DEF SignedOut
<1>10. CASE UNCHANGED vars
  BY <1>10 DEF vars, serverVars, pageVars
<1> QED BY <1>1, <1>2, <1>3, <1>4, <1>5, <1>6, <1>7, <1>8, <1>9, <1>10 DEF Next, PageStep

RequestsTyped == read \in [Readers -> Read] /\ sent \in [Readers -> Sent]
Counts == changes \in 0..MaxChanges /\ shown \in 0..changes

RequestsInv == RequestsTyped /\ Counts /\ ReadsBehind /\ OneLatest /\ LatestFresh

LEMMA PartsTyped ==
    /\ Closed \in Read /\ Reading \in Read /\ Nothing \in Sent
    /\ Closed.pc = "closed" /\ Reading.pc = "sent"
    /\ Nothing.latest = FALSE /\ Nothing.before = FALSE
BY DEF Closed, Reading, Read, Nothing, Sent

LEMMA ReadStepKept ==
    ASSUME PagesInv, product' = product, NEW r \in Readers, ReadStep(r), UNCHANGED <<sent, shown>>
    PROVE  RequestsInv'
<1>1. changes' = changes /\ changes \in 0..MaxChanges /\ shown \in 0..changes /\ synced \in 0..changes
  BY DEF ReadStep, PagesInv, TypeOK
<1>2. synced \in 0..MaxChanges /\ (status = "syncing") \in BOOLEAN /\ fees \in [Orders -> Fees]
  BY <1>1, DashboardAssumption DEF PagesInv, TypeOK
<1>3. CASE read' = [read EXCEPT ![r] = [pc |-> "half", syncing |-> status = "syncing", synced |-> synced]]
  <2>1. [pc |-> "half", syncing |-> status = "syncing", synced |-> synced] \in Read
    BY <1>2 DEF Read
  <2>2. \A q \in Readers : read'[q] = IF q = r THEN [pc |-> "half", syncing |-> status = "syncing", synced |-> synced]
                                      ELSE read[q]
    BY <1>3 DEF PagesInv, TypeOK
  <2>3. RequestsTyped'
    BY <1>3, <2>1 DEF RequestsTyped, PagesInv, TypeOK
  <2>4. ReadsBehind' /\ OneLatest' /\ LatestFresh'
    BY <1>1, <2>2 DEF PagesInv, ReadsBehind, OneLatest, LatestFresh
  <2> QED BY <1>1, <2>3, <2>4 DEF RequestsInv, Counts
<1>4. CASE /\ read[r].pc = "half"
           /\ read' = [read EXCEPT ![r] = [pc |-> "ready", syncing |-> @.syncing,
                                           synced |-> @.synced, fees |-> fees, at |-> changes]]
  <2>1. read[r] \in [pc : {"half"}, syncing : BOOLEAN, synced : 0..MaxChanges]
    BY <1>4 DEF PagesInv, TypeOK, Read, Closed, Reading
  <2> DEFINE answer == [pc |-> "ready", syncing |-> read[r].syncing,
                        synced |-> read[r].synced, fees |-> fees, at |-> changes]
  <2>2. answer \in Read
    BY <1>1, <1>2, <2>1 DEF Read
  <2>3. answer.pc = "ready" /\ answer.synced = read[r].synced /\ answer.at = changes
    OBVIOUS
  <2>4. read' = [read EXCEPT ![r] = answer]
    BY <1>4
  <2> HIDE DEF answer
  <2>5. \A q \in Readers : read'[q] = IF q = r THEN answer ELSE read[q]
    BY <2>4 DEF PagesInv, TypeOK
  <2>6. RequestsTyped'
    BY <2>2, <2>4 DEF RequestsTyped, PagesInv, TypeOK
  <2>7. read[r].synced <= changes
    BY <1>4 DEF PagesInv, ReadsBehind
  <2>8. ReadsBehind'
    BY <1>1, <2>3, <2>5, <2>7 DEF PagesInv, ReadsBehind
  <2>9. LatestFresh'
    BY <1>1, <2>3, <2>5 DEF PagesInv, LatestFresh
  <2> QED BY <1>1, <2>6, <2>8, <2>9 DEF RequestsInv, Counts, PagesInv, OneLatest
<1> QED BY <1>3, <1>4 DEF ReadStep

LEMMA AskKept ==
    ASSUME PagesInv, product' = product, NEW r \in Readers, Ask(r), UNCHANGED <<changes, shown>>
    PROVE  RequestsInv'
<1> USE DEF PagesInv, TypeOK
<1>1. RequestsTyped'
  BY PartsTyped DEF Ask, RequestsTyped, Sent
<1>2. \A q \in Readers :
        /\ read'[q] = IF q = r THEN Reading ELSE read[q]
        /\ sent'[q].latest = (q = r)
        /\ sent'[r].before = FALSE
  BY DEF Ask, Sent
<1>3. ReadsBehind' /\ OneLatest' /\ LatestFresh'
  BY <1>2, PartsTyped DEF ReadsBehind, OneLatest, LatestFresh
<1> QED BY <1>1, <1>3 DEF RequestsInv, Counts

LEMMA CloseKept ==
    ASSUME PagesInv, product' = product, NEW r \in Readers, Close(r), UNCHANGED changes,
           shown' \in 0..changes,
           \/ shown' = shown
           \/ product = "solo" => sent[r].latest
    PROVE  RequestsInv'
<1> USE DEF PagesInv, TypeOK
<1>1. RequestsTyped'
  BY PartsTyped DEF Close, RequestsTyped
<1>2. \A q \in Readers : /\ read'[q] = IF q = r THEN Closed ELSE read[q]
                         /\ sent'[q] = IF q = r THEN Nothing ELSE sent[q]
  BY DEF Close
<1>3. ReadsBehind' /\ OneLatest'
  BY <1>2, PartsTyped DEF ReadsBehind, OneLatest
<1>4. LatestFresh'
  BY <1>2, PartsTyped DEF LatestFresh, OneLatest
<1> QED BY <1>1, <1>3, <1>4 DEF RequestsInv, Counts

LEMMA DeliverKept == ASSUME PagesInv, NEW r \in Readers, Deliver(r) PROVE RequestsInv'
<1>1. Close(r) /\ product' = product /\ UNCHANGED changes /\ read[r].pc = "ready"
  BY DEF Deliver
<1>2. read[r].at \in Nat /\ read[r].at <= changes /\ shown \in 0..changes /\ changes \in Nat
  BY <1>1, AnswerTyped, DashboardAssumption DEF PagesInv, TypeOK, ReadsBehind
<1>3. shown' \in 0..changes
  BY <1>2 DEF Deliver
<1>4. shown' = shown \/ (product = "solo" => sent[r].latest)
  BY DEF Deliver, Heeded
<1> QED BY <1>1, <1>3, <1>4, CloseKept

LEMMA LeftKept ==
    ASSUME PagesInv, product' = product, Left, UNCHANGED <<changes, shown>> PROVE RequestsInv'
BY PartsTyped DEF Left, PagesInv, TypeOK, RequestsInv, RequestsTyped, Counts, ReadsBehind, OneLatest, LatestFresh

LEMMA SignOutKept == ASSUME PagesInv, SignOut PROVE RequestsInv'
<1> USE DEF PagesInv, TypeOK
<1>1. UNCHANGED <<product, read, changes, shown>>
  BY DEF SignOut, serverVars
<1>2. \A r \in Readers : ~sent'[r].latest
  BY DEF SignOut
<1>3. sent' \in [Readers -> Sent]
  <2> SUFFICES ASSUME NEW r \in Readers PROVE [latest |-> FALSE, before |-> read[r] # Closed] \in Sent
    BY DEF SignOut
  <2>1. (read[r] # Closed) \in BOOLEAN
    OBVIOUS
  <2> QED BY <2>1 DEF Sent
<1>4. OneLatest' /\ LatestFresh'
  BY <1>2 DEF OneLatest, LatestFresh
<1> QED BY <1>1, <1>3, <1>4 DEF RequestsInv, RequestsTyped, Counts, ReadsBehind

LEMMA ChangeKept ==
    ASSUME PagesInv, product' = product, Change \/ UNCHANGED changes, UNCHANGED <<read, sent, shown>>
    PROVE  RequestsInv'
<1> USE DEF PagesInv, TypeOK
<1>1. changes' \in 0..MaxChanges /\ changes <= changes' /\ shown \in 0..changes'
  BY DashboardAssumption DEF Change
<1>2. ReadsBehind'
  <2> SUFFICES ASSUME NEW r \in Readers
               PROVE  /\ read[r].pc = "half" => read[r].synced <= changes'
                      /\ read[r].pc = "ready" => read[r].synced <= read[r].at /\ read[r].at <= changes'
    BY DEF ReadsBehind
  <2>1. read[r].pc = "half" => read[r].synced \in Nat
    BY DashboardAssumption DEF Read, Closed, Reading
  <2>2. read[r].pc = "ready" => read[r].at \in Nat
    BY AnswerTyped, DashboardAssumption
  <2> QED BY <1>1, <2>1, <2>2, DashboardAssumption DEF ReadsBehind
<1> QED BY <1>1, <1>2 DEF RequestsInv, RequestsTyped, Counts, OneLatest, LatestFresh

LEMMA RequestsKept == ASSUME PagesInv, [Next]_vars PROVE RequestsInv'
BY StepKinds, ReadStepKept, AskKept, DeliverKept, CloseKept, LeftKept, SignOutKept, ChangeKept
   DEF PagesInv, TypeOK

-----------------------------------------------------------------------------
(* The rest of the types.                                                  *)

LEMMA RowsTyped ==
    ASSUME PagesInv, [Next]_vars
    PROVE  /\ product' \in {"solo", "aco"} /\ fees' \in [Orders -> Fees] /\ status' \in Statuses
           /\ synced' \in 0..changes'
<1> USE DashboardAssumption DEF PagesInv, TypeOK
<1>1. CASE ServerStep /\ UNCHANGED pageVars
  BY <1>1 DEF ServerStep, BeginSync, RecordMail, FinishSync, SetFee, ReadStep, Change, Statuses, pageVars
<1>2. ASSUME NEW r \in Readers,
             Refresh(r) \/ Deliver(r) \/ Denied(r) \/ Lost(r) \/ ActShown(r)
               \/ SignOutFails(r) \/ SignIn(r) \/ \E s \in Savers : FeeShown(s, r)
      PROVE  UNCHANGED <<product, fees, status, changes, synced>>
  BY <1>2 DEF Refresh, Deliver, Denied, Lost, ActShown, FeeShown, SignOutFails, SignIn
<1>3. ASSUME NEW s \in Savers, FeeSaved(s)
      PROVE  /\ UNCHANGED <<product, status, synced>> /\ fees' \in [Orders -> Fees]
             /\ Change
  <2>1. page.saves[s] \in Save /\ page.saves[s] # None /\ page.saves[s].pc = "sent"
    BY <1>3 DEF FeeSaved, Saved, PageSound, Page
  <2>2. page.saves[s].order \in Orders /\ page.saves[s].fee \in Fees
    BY <2>1 DEF Save
  <2> QED BY <1>3, <2>2 DEF FeeSaved, SetFee
<1>4. CASE Acted
  BY <1>4 DEF Acted, Change
<1>5. CASE (\E o \in Orders : Select(o)) \/ (\E fee \in Fees : Type(fee)) \/ Act \/ ActFails
             \/ SyncInbox \/ SyncRefused \/ (\E s \in Savers : SaveFee(s) \/ FeeRefused(s))
             \/ SignOut \/ SignedOut
  BY <1>5 DEF Select, Type, Act, ActFails, SyncInbox, SyncRefused, SaveFee, FeeRefused,
              SignOut, SignedOut, serverVars
<1>6. CASE UNCHANGED vars
  BY <1>6 DEF vars, serverVars, pageVars
<1> QED BY <1>1, <1>2, <1>3, <1>4, <1>5, <1>6 DEF Next, PageStep, Change

LEMMA StartSound == Init => PagesInv
<1> SUFFICES ASSUME Init PROVE PagesInv
  OBVIOUS
<1>1. page = Opened /\ PageSound(page)
  BY OpenedSound DEF Init
<1>2. TypeOK
  BY <1>1, PartsTyped, DashboardAssumption
     DEF Init, DashboardInit, TypeOK, Statuses, PageSound, Opened
<1>3. ReadsBehind /\ OneLatest /\ LatestFresh
  BY PartsTyped DEF Init, DashboardInit, ReadsBehind, OneLatest, LatestFresh
<1> QED BY <1>1, <1>2, <1>3 DEF PagesInv

(* The invariant holds in every behaviour.                                 *)
THEOREM PagesInvariant == Spec => []PagesInv
<1>1. PagesInv /\ [Next]_vars => PagesInv'
  <2> SUFFICES ASSUME PagesInv, [Next]_vars PROVE PagesInv'
    OBVIOUS
  <2>1. PageSound(page)' /\ RequestsInv'
    BY PageKept, RequestsKept
  <2>2. TypeOK'
    BY <2>1, RowsTyped DEF TypeOK, PageSound, Shows, RequestsInv, RequestsTyped, Counts
  <2> QED BY <2>1, <2>2 DEF PagesInv, RequestsInv
<1> QED BY <1>1, StartSound, PTL DEF Spec

(* Variables hold values of their types, the inspector that of its order.  *)
THEOREM PagesTypeCorrect == Spec => []TypeOK
<1>1. PagesInv => TypeOK
  BY DEF PagesInv
<1> QED BY <1>1, PagesInvariant, PTL

(* A fee is saved for the order it was typed for.                          *)
THEOREM FeesForTheirOrder == Spec => []SavedForItsOrder
<1>1. PagesInv => SavedForItsOrder
  BY DEF PagesInv, PageSound, SavedForItsOrder, Saved
<1> QED BY <1>1, PagesInvariant, PTL

(* A page shows all that had been recorded when the last sync it tells of  *)
(* had ended.                                                              *)
THEOREM SyncedIsWhole == Spec => []SyncedShowsAll
<1>1. PagesInv => SyncedShowsAll
  <2> SUFFICES ASSUME PagesInv, page.data # None PROVE page.data.at >= page.data.synced
    BY DEF SyncedShowsAll
  <2>1. page.data \in Answers /\ page.data.synced <= page.data.at
    BY DEF PagesInv, PageSound, Page, Data
  <2>2. page.data.synced \in Nat /\ page.data.at \in Nat
    BY <2>1, DashboardAssumption DEF Answers
  <2> QED BY <2>1, <2>2
<1> QED BY <1>1, PagesInvariant, PTL

(* The Solo page never goes back in time, nor past its sign-out.           *)
THEOREM OnlyForward == Spec => NeverBackInTime
<1> DEFINE Forward ==
      product = "solo" /\ page'.data # page.data /\ page'.data # None =>
         /\ page'.data.at >= shown
         /\ \E r \in Readers : read[r].pc = "ready" /\ Answer(r) = page'.data /\ ~sent[r].before
<1>1. PagesInv /\ [Next]_vars => [Forward]_vars
  <2> SUFFICES ASSUME PagesInv, [Next]_vars, product = "solo",
                      page'.data # page.data, page'.data # None
               PROVE  /\ page'.data.at >= shown
                      /\ \E r \in Readers :
                           read[r].pc = "ready" /\ Answer(r) = page'.data /\ ~sent[r].before
    OBVIOUS
  <2>1. /\ page \in Page /\ PageSound(page) /\ page.form = None
        /\ \A s \in Savers : page.saves[s] = None
    BY DEF PagesInv, PageSound
  <2>2. PICK r \in Readers : Deliver(r)
    <3>1. ASSUME ServerStep /\ UNCHANGED pageVars PROVE FALSE
      BY <3>1 DEF pageVars
    <3>2. ASSUME NEW r \in Readers, Refresh(r) \/ Denied(r) \/ Lost(r) \/ ActShown(r)
                                      \/ SignOutFails(r) \/ SignIn(r)
          PROVE  FALSE
      BY <2>1, <3>2, ErrorSound DEF Refresh, ActShown, SignOutFails, SignIn, Page
    <3>3. ASSUME (\E o \in Orders : Select(o)) \/ (\E fee \in Fees : Type(fee)) \/ SyncInbox
                   \/ SyncRefused
                   \/ \E s \in Savers : \/ SaveFee(s) \/ FeeSaved(s) \/ FeeRefused(s)
                                       \/ \E r \in Readers : FeeShown(s, r)
          PROVE  FALSE
      BY <2>1, <3>3 DEF Select, Type, SyncInbox, SyncRefused, SaveFee, FeeSaved, FeeRefused,
                        FeeShown, Saved
    <3>4. ASSUME Act \/ Acted \/ ActFails \/ SignOut \/ SignedOut PROVE FALSE
      BY <2>1, <3>4 DEF Act, Acted, ActFails, SignOut, SignedOut, Opened, Page
    <3> QED BY <3>1, <3>2, <3>3, <3>4 DEF Next, PageStep, vars, pageVars
  <2>3. page'.data = Answer(r)
    BY <2>2, DeliverSound
  <2>4. read[r].pc = "ready" /\ sent[r].latest
    BY <2>2 DEF Deliver, Heeded
  <2>5. read[r].at >= shown /\ ~sent[r].before
    BY <2>4 DEF PagesInv, LatestFresh
  <2> QED BY <2>3, <2>4, <2>5 DEF Answer
<1> QED BY <1>1, PagesInvariant, PTL DEF Spec, NeverBackInTime
=============================================================================
