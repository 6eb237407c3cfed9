------------------------------ MODULE SiteSave ------------------------------
(***************************************************************************)
(* Saving one site from the editor.  A tab holds a copy of the site's      *)
(* pages, and writes it back whole; the row's lastEditedAt is the version  *)
(* token of a compare-and-swap (saveProjectData).                          *)
(*                                                                         *)
(*   load       loadProject: two queries, the site's row and its pages     *)
(*   save       a chain per tab (saveProject), fed by the autosave timer   *)
(*              (useComposerInit) and by Save / Cmd+S (useSaveCallback)    *)
(*   conflict   the server refused a behind copy: the tab holds its saves  *)
(*              until the dialog's choice (ConflictModal)                  *)
(*   kept copy  one localStorage record per site and browser               *)
(*              (unsavedRecovery), offered back by the next load           *)
(*   publish    carries the same token (publishSite, startPublish)         *)
(*                                                                         *)
(* A page tree is abstracted to the set of edits it contains: saving a     *)
(* copy that lacks a stored edit undoes that edit.  Every write of         *)
(* lastEditedAt stamps a version no earlier write had.                     *)
(***************************************************************************)
EXTENDS Naturals, Sequences, FiniteSets

CONSTANTS
  Tabs,      \* editor tabs with the site open
  Browsers,  \* the browsers they run in: each has one localStorage
  BrowserOf, \* BrowserOf[t]: the browser of tab t
  Edits,     \* the edits that users make: at most one of each
  Limit,     \* bound: Limit[r] is how often the rare event r happens
  MaxKinds   \* bound: how many different rare events happen in one behaviour

Rare == {"manual", "publish", "outside", "reload", "fault", "refusal"}

ASSUME BrowserAssumption == BrowserOf \in [Tabs -> Browsers]
ASSUME LimitAssumption == Limit \in [Rare -> Nat]
ASSUME KindsAssumption == MaxKinds \in Nat
ASSUME TabsAssumption == Tabs \intersect {"creation", "outside", "gone"} = {}

VARIABLES
  site,      \* the versions of the site, oldest first: the row holds the last
  life,      \* life[t]: "loading", "open", or "failed" (the load failed)
  read,      \* read[t]: the versions that loadProject's two queries returned
  doc,       \* doc[t]: the copy on screen
  base,      \* base[t]: _baselineLastEditedAt
  chain,     \* chain[t]: _saveChain, the saves not yet settled
  flight,    \* flight[t]: the request of the chain's first save
  conflict,  \* conflict[t]: _conflictToken, 0 for null
  dialog,    \* dialog[t]: the shell's conflict state, token 0 for null
  dirty,     \* dirty[t]: isDirty
  status,    \* status[t]: saveState.status
  timer,     \* timer[t]: the autosave debounce is running
  retry,     \* retry[t]: the autosave backoff is running
  publish,   \* publish[t]: the token a publish in flight carries, or 0
  kept,      \* kept[b]: {} or the kept copy alone
  offScreen, \* offScreen[t]: the kept copy waits to be restored
  orphans,   \* requests the server still runs and no tab waits for
  made,      \* the edits made so far
  forsaken,  \* (history) edits left out of a tab's copy, by what left them out
  spent      \* spent[r]: how often the rare event r has happened

serverVars == <<site, orphans>>
loadVars == <<life, read>>
saveVars == <<chain, flight, base>>
dialogVars == <<conflict, dialog>>
uiVars == <<dirty, status, timer, retry>>
keptVars == <<kept, offScreen>>
ghostVars == <<made, forsaken>>

vars == <<site, life, read, doc, base, chain, flight, conflict, dialog, dirty,
          status, timer, retry, publish, kept, offScreen, orphans, made,
          forsaken, spent>>

-----------------------------------------------------------------------------
(* The data.  A token is the place of its version in site.                 *)

Token == Len(site)
Content == site[Len(site)].doc

Writers == Tabs \union {"creation", "outside", "gone"}
Version == [doc: SUBSET Edits, by: Writers]

\* newest: no change reached the autosave handler since the snapshot, what
\* it asks with changeSeq = seqAtSend.
Save == [doc: SUBSET Edits, kind: {"auto", "manual"}, newest: BOOLEAN]

\* "unsure": the transaction outran its budget (P2028), and its stamp is
\* token if it landed.  The last five phases are answers on their way.
\* "held": not a request, but a save that finds a conflict held.
Phases == {"idle", "sent", "unsure", "ok", "conflict", "timeout", "refused",
           "unauthorized", "held"}
Request == [phase: Phases, expected: Nat, token: Nat]
Idle == [phase |-> "idle", expected |-> 0, token |-> 0]
Sent(b) == [phase |-> "sent", expected |-> b, token |-> 0]

Orphan == [doc: SUBSET Edits, expected: Nat, by: Writers]
Ways == {"overwrite", "torn", "restored"}
Statuses == {"idle", "saving", "error", "signin", "conflict"}
NoDialog == [token |-> 0, open |-> FALSE]

Init ==
  /\ site = <<[doc |-> {}, by |-> "creation"]>>
  /\ life = [t \in Tabs |-> "loading"]
  /\ read = [t \in Tabs |-> [row |-> 0, pages |-> 0]]
  /\ doc = [t \in Tabs |-> {}]
  /\ base = [t \in Tabs |-> 0]
  /\ chain = [t \in Tabs |-> <<>>]
  /\ flight = [t \in Tabs |-> Idle]
  /\ conflict = [t \in Tabs |-> 0]
  /\ dialog = [t \in Tabs |-> NoDialog]
  /\ dirty = [t \in Tabs |-> FALSE]
  /\ status = [t \in Tabs |-> "idle"]
  /\ timer = [t \in Tabs |-> FALSE]
  /\ retry = [t \in Tabs |-> FALSE]
  /\ publish = [t \in Tabs |-> 0]
  /\ kept = [b \in Browsers |-> {}]
  /\ offScreen = [t \in Tabs |-> FALSE]
  /\ orphans = {}
  /\ made = {}
  /\ forsaken = [w \in Ways |-> {}]
  /\ spent = [r \in Rare |-> 0]

\* A rare event happens once more.
Spend(r) ==
  /\ spent[r] < Limit[r]
  /\ Cardinality({s \in Rare : s = r \/ spent[s] > 0}) <= MaxKinds
  /\ spent' = [spent EXCEPT ![r] = @ + 1]

Forsake(way, edits) ==
  forsaken' = [forsaken EXCEPT ![way] = @ \union edits]

-----------------------------------------------------------------------------
(* What the tab's code does in several places.                             *)

Editing(t) == life[t] \in {"open", "failed"} /\ ~dialog[t].open

\* changeSeq moved on: no save of the chain is the newest any more.
Outdated(saves) == [i \in DOMAIN saves |-> [saves[i] EXCEPT !.newest = FALSE]]

\* (mutant) A change while the tab is dirty is taken to be scheduled already.
ChangedOnce(t) ==
  /\ dirty' = [dirty EXCEPT ![t] = TRUE]
  /\ timer' = [timer EXCEPT ![t] = @ \/ ~dirty[t]]
  /\ chain' = [chain EXCEPT ![t] = Outdated(@)]

\* The autosave handler: a change arrived (it also runs for a retry).
Changed(t) ==
  /\ dirty' = [dirty EXCEPT ![t] = TRUE]
  /\ timer' = [timer EXCEPT ![t] = TRUE]
  /\ chain' = [chain EXCEPT ![t] = Outdated(@)]

\* saveProject: the save joins the chain, and leaves at once if it is first,
\* with the baseline b.
Enqueue(t, kind, d, b) ==
  /\ chain' = [chain EXCEPT ![t] =
                 Append(@, [doc |-> d, kind |-> kind, newest |-> TRUE])]
  /\ flight' = [flight EXCEPT ![t] = IF chain[t] = <<>> THEN Sent(b) ELSE @]

\* (mutant) The next save leaves with the baseline of when it was queued.
SettleStale(t, b) ==
  /\ chain' = [chain EXCEPT ![t] = Tail(@)]
  /\ flight' = [flight EXCEPT ![t] =
                  IF Len(chain[t]) = 1 THEN Idle
                  ELSE IF conflict[t] = 0 THEN Sent(base[t])
                  ELSE [phase |-> "held", expected |-> 0,
                        token |-> conflict[t]]]

\* The chain's first save is settled: the next one leaves with baseline b,
\* unless a conflict is held (saveProjectNow).
Settle(t, b) ==
  /\ chain' = [chain EXCEPT ![t] = Tail(@)]
  /\ flight' = [flight EXCEPT ![t] =
                  IF Len(chain[t]) = 1 THEN Idle
                  ELSE IF conflict[t] = 0 THEN Sent(b)
                  ELSE [phase |-> "held", expected |-> 0,
                        token |-> conflict[t]]]

\* raiseSaveConflict, and the shell's listeners: a dialog that is open keeps
\* the token it was opened with.
Raise(t, token) ==
  /\ conflict' = [conflict EXCEPT ![t] = token]
  /\ dialog' = [dialog EXCEPT ![t] =
                  IF @.open THEN @ ELSE [token |-> token, open |-> TRUE]]
  /\ status' = [status EXCEPT ![t] = "conflict"]

KeepUnsaved(t, d) ==
  kept' = IF offScreen[t] THEN kept ELSE [kept EXCEPT ![BrowserOf[t]] = {d}]

ClearUnsaved(t) ==
  kept' = IF offScreen[t] THEN kept ELSE [kept EXCEPT ![BrowserOf[t]] = {}]

\* takeOffScreenUnsaved: what a manual save puts on screen before it saves.
ShownBySave(t) ==
  IF offScreen[t] /\ kept[BrowserOf[t]] # {} THEN kept[BrowserOf[t]]
  ELSE {doc[t]}

-----------------------------------------------------------------------------
(* Loading a page.                                                         *)

ReadRow(t) ==
  /\ life[t] = "loading" /\ read[t].row = 0
  /\ read' = [read EXCEPT ![t].row = Token]
  /\ UNCHANGED <<site, life, doc, saveVars, dialogVars, uiVars, publish,
                 keptVars, orphans, ghostVars, spent>>

ReadPages(t) ==
  /\ life[t] = "loading" /\ read[t].pages = 0
  /\ read' = [read EXCEPT ![t].pages = Token]
  /\ UNCHANGED <<site, life, doc, saveVars, dialogVars, uiVars, publish,
                 keptVars, orphans, ghostVars, spent>>

\* A copy kept by an earlier page is offered, not applied.
Loaded(t) ==
  LET rows == site[read[t].row].doc
      pages == site[read[t].pages].doc
      offered == kept[BrowserOf[t]] # {}
  IN
  /\ life[t] = "loading" /\ read[t].row # 0 /\ read[t].pages # 0
  /\ life' = [life EXCEPT ![t] = "open"]
  /\ doc' = [doc EXCEPT ![t] = pages]
  /\ base' = [base EXCEPT ![t] = read[t].row]
  /\ offScreen' = [offScreen EXCEPT ![t] = offered]
  /\ status' = [status EXCEPT ![t] = IF offered THEN "error" ELSE "idle"]
  /\ Forsake("torn", rows \ pages)
  /\ UNCHANGED <<site, read, chain, flight, dialogVars, dirty, timer, retry,
                 publish, kept, orphans, made, spent>>

\* The load failed: the editor opens over a fallback.
LoadFails(t) ==
  /\ life[t] = "loading" /\ Spend("fault")
  /\ life' = [life EXCEPT ![t] = "failed"]
  /\ UNCHANGED <<site, read, doc, saveVars, dialogVars, uiVars, publish,
                 keptVars, orphans, ghostVars>>

\* The page goes away.  A request the server has not answered runs on.
Unload(t) ==
  /\ life' = [life EXCEPT ![t] = "loading"]
  /\ read' = [read EXCEPT ![t] = [row |-> 0, pages |-> 0]]
  /\ doc' = [doc EXCEPT ![t] = {}]
  /\ base' = [base EXCEPT ![t] = 0]
  /\ chain' = [chain EXCEPT ![t] = <<>>]
  /\ flight' = [flight EXCEPT ![t] = Idle]
  /\ conflict' = [conflict EXCEPT ![t] = 0]
  /\ dialog' = [dialog EXCEPT ![t] = NoDialog]
  /\ dirty' = [dirty EXCEPT ![t] = FALSE]
  /\ status' = [status EXCEPT ![t] = "idle"]
  /\ timer' = [timer EXCEPT ![t] = FALSE]
  /\ retry' = [retry EXCEPT ![t] = FALSE]
  /\ publish' = [publish EXCEPT ![t] = 0]
  /\ offScreen' = [offScreen EXCEPT ![t] = FALSE]
  /\ orphans' =
       {[o EXCEPT !.by = IF @ = t THEN "gone" ELSE @] : o \in orphans}
       \union (IF flight[t].phase = "sent"
               THEN {[doc |-> Head(chain[t]).doc,
                      expected |-> flight[t].expected, by |-> "gone"]}
               ELSE {})
  /\ UNCHANGED <<site, ghostVars>>

Reload(t) ==
  /\ life[t] # "loading" /\ Spend("reload") /\ Unload(t)
  /\ UNCHANGED kept

-----------------------------------------------------------------------------
(* Editing and saving.                                                     *)

Edit(t) ==
  /\ Editing(t)
  /\ \E e \in Edits \ made :
       /\ made' = made \union {e}
       /\ doc' = [doc EXCEPT ![t] = @ \union {e}]
  /\ Changed(t)
  /\ UNCHANGED <<site, loadVars, flight, base, dialogVars, status, retry,
                 publish, keptVars, orphans, forsaken, spent>>

\* The debounce ran out while a refused save waits on the user's choice.
AutosaveHeld(t) ==
  /\ timer[t] /\ conflict[t] # 0
  /\ timer' = [timer EXCEPT ![t] = FALSE]
  /\ KeepUnsaved(t, doc[t])
  /\ status' = [status EXCEPT ![t] = "conflict"]
  /\ dirty' = [dirty EXCEPT ![t] = TRUE]
  /\ UNCHANGED <<site, loadVars, doc, saveVars, dialogVars, retry, publish,
                 offScreen, orphans, ghostVars, spent>>

\* ProjectNotLoadedError: the site never loaded, so nothing is sent.
AutosaveNotLoaded(t) ==
  /\ timer[t] /\ conflict[t] = 0 /\ life[t] = "failed"
  /\ timer' = [timer EXCEPT ![t] = FALSE]
  /\ status' = [status EXCEPT ![t] = "error"]
  /\ UNCHANGED <<site, loadVars, doc, saveVars, dialogVars, dirty, retry,
                 publish, keptVars, orphans, ghostVars, spent>>

Autosave(t) ==
  /\ timer[t] /\ conflict[t] = 0 /\ life[t] = "open"
  /\ timer' = [timer EXCEPT ![t] = FALSE]
  /\ status' = [status EXCEPT ![t] = "saving"]
  /\ Enqueue(t, "auto", doc[t], base[t])
  /\ UNCHANGED <<site, loadVars, doc, base, dialogVars, dirty, retry, publish,
                 keptVars, orphans, ghostVars, spent>>

RetryFires(t) ==
  /\ retry[t]
  /\ retry' = [retry EXCEPT ![t] = FALSE]
  /\ Changed(t)
  /\ UNCHANGED <<site, loadVars, doc, flight, base, dialogVars, status,
                 publish, keptVars, orphans, ghostVars, spent>>

\* The copy that a manual save sends: d is on screen now.
Show(t, d) ==
  /\ doc' = [doc EXCEPT ![t] = d]
  /\ offScreen' = [offScreen EXCEPT ![t] = FALSE]

ManualSave(t) ==
  /\ Editing(t) /\ life[t] = "open" /\ conflict[t] = 0 /\ Spend("manual")
  /\ \E d \in ShownBySave(t) :
       /\ Show(t, d)
       /\ Forsake("restored", doc[t] \ d)
       /\ Enqueue(t, "manual", d, base[t])
  /\ status' = [status EXCEPT ![t] = "saving"]
  /\ UNCHANGED <<site, loadVars, base, dialogVars, dirty, timer, retry,
                 publish, kept, orphans, made>>

\* The held conflict refuses the save and opens the dialog again.
ManualSaveHeld(t) ==
  /\ Editing(t) /\ life[t] = "open" /\ conflict[t] # 0 /\ Spend("manual")
  /\ \E d \in ShownBySave(t) :
       /\ Show(t, d)
       /\ Forsake("restored", doc[t] \ d)
  /\ Raise(t, conflict[t])
  /\ UNCHANGED <<site, loadVars, saveVars, dirty, timer, retry, publish, kept,
                 orphans, made>>

ManualSaveNotLoaded(t) ==
  /\ Editing(t) /\ life[t] = "failed" /\ Spend("manual")
  /\ status' = [status EXCEPT ![t] = "error"]
  /\ UNCHANGED <<site, loadVars, doc, saveVars, dialogVars, dirty, timer,
                 retry, publish, keptVars, orphans, ghostVars>>

\* "Restore my edits": the kept copy replaces the one on screen.
Restore(t) ==
  /\ Editing(t) /\ offScreen[t]
  /\ \E d \in kept[BrowserOf[t]] :
       /\ Show(t, d)
       /\ Forsake("restored", doc[t] \ d)
  /\ status' = [status EXCEPT ![t] = "idle"]
  /\ Changed(t)
  /\ UNCHANGED <<site, loadVars, flight, base, dialogVars, retry, publish,
                 kept, orphans, made, spent>>

-----------------------------------------------------------------------------
(* The server.  One save is one request; its transaction is one step.      *)

Write(d, who) == site' = Append(site, [doc |-> d, by |-> who])

Answer(t, phase, token) ==
  flight' = [flight EXCEPT ![t].phase = phase, ![t].token = token]

tabVars == <<loadVars, doc, base, chain, dialogVars, uiVars, publish,
             keptVars, ghostVars>>

\* (mutant) The token is not part of the UPDATE's WHERE.
SaveLandsBlind(t) ==
  /\ flight[t].phase = "sent"
  /\ Write(Head(chain[t]).doc, t)
  /\ Answer(t, "ok", Token + 1)
  /\ UNCHANGED <<tabVars, orphans, spent>>

\* The compare-and-swap matched, and the pages are written with it.
SaveLands(t) ==
  /\ flight[t].phase = "sent" /\ flight[t].expected = Token
  /\ Write(Head(chain[t]).doc, t)
  /\ Answer(t, "ok", Token + 1)
  /\ UNCHANGED <<tabVars, orphans, spent>>

SaveConflicts(t) ==
  /\ flight[t].phase = "sent" /\ flight[t].expected # Token
  /\ Answer(t, "conflict", Token)
  /\ UNCHANGED <<tabVars, serverVars, spent>>

\* Refused on its merits, or for a session that ended: nothing is written.
SaveRefused(t) ==
  /\ flight[t].phase = "sent" /\ Spend("refusal")
  /\ \E answer \in {"refused", "unauthorized"} : Answer(t, answer, 0)
  /\ UNCHANGED <<tabVars, serverVars>>

\* P2028: the transaction outran its budget.  It has landed, or not.
SaveOutran(t) ==
  /\ flight[t].phase = "sent" /\ Spend("fault")
  /\ \/ /\ flight[t].expected = Token
        /\ Write(Head(chain[t]).doc, t)
        /\ Answer(t, "unsure", Token + 1)
     \/ Answer(t, "unsure", 0) /\ UNCHANGED site
  /\ UNCHANGED <<tabVars, orphans>>

\* Is this save's own stamp on the row?
SaveRechecked(t) ==
  /\ flight[t].phase = "unsure"
  /\ IF flight[t].token = Token THEN Answer(t, "ok", Token)
     ELSE Answer(t, "timeout", flight[t].token)
  /\ UNCHANGED <<tabVars, serverVars, spent>>

\* A request whose tab has gone, or has given it up, lands all the same, ...
OrphanLands(o) ==
  /\ o.expected = Token
  /\ Write(o.doc, o.by)
  /\ orphans' = orphans \ {o}
  /\ UNCHANGED <<tabVars, flight, spent>>

\* ... or is refused, or never arrived.
OrphanFails(o) ==
  /\ orphans' = orphans \ {o}
  /\ UNCHANGED <<tabVars, site, flight, spent>>

\* A dashboard write that stamps lastEditedAt without touching the pages.
OutsideWrite ==
  /\ Spend("outside")
  /\ Write(Content, "outside")
  /\ UNCHANGED <<tabVars, orphans, flight>>

-----------------------------------------------------------------------------
(* The answers.  s is the save that the answer is for.                     *)

\* (mutant) Every success is announced, whatever was edited since.
AnnouncesAll(s) == TRUE

\* An autosave that is not the newest says nothing: a later one will.
Announces(s) == s.kind = "manual" \/ s.newest

OnSaved(t) ==
  LET s == Head(chain[t]) IN
  /\ flight[t].phase = "ok"
  /\ base' = [base EXCEPT ![t] = flight[t].token]
  /\ Settle(t, flight[t].token)
  /\ IF Announces(s)
     THEN /\ dirty' = [dirty EXCEPT ![t] = FALSE]
          /\ status' = [status EXCEPT ![t] = "idle"]
          /\ retry' = [retry EXCEPT ![t] = @ /\ s.kind = "manual"]
          /\ ClearUnsaved(t)
     ELSE UNCHANGED <<dirty, status, retry, kept>>
  /\ UNCHANGED <<serverVars, loadVars, doc, dialogVars, timer, publish,
                 offScreen, ghostVars, spent>>

\* (mutant) A refused save advances the baseline too.
OnConflictAdopts(t) ==
  /\ flight[t].phase \in {"conflict", "held"}
  /\ Raise(t, flight[t].token)
  /\ base' = [base EXCEPT ![t] = flight[t].token]
  /\ chain' = [chain EXCEPT ![t] = <<>>]
  /\ flight' = [flight EXCEPT ![t] = Idle]
  /\ dirty' = [dirty EXCEPT ![t] = TRUE]
  /\ UNCHANGED <<serverVars, loadVars, doc, timer, retry, publish, keptVars,
                 ghostVars, spent>>

\* The saves queued behind the refused one are refused with it.
OnConflict(t) ==
  /\ flight[t].phase \in {"conflict", "held"}
  /\ Raise(t, flight[t].token)
  /\ chain' = [chain EXCEPT ![t] = <<>>]
  /\ flight' = [flight EXCEPT ![t] = Idle]
  /\ dirty' = [dirty EXCEPT ![t] =
                 @ \/ \E i \in DOMAIN chain[t] : chain[t][i].kind = "auto"]
  /\ UNCHANGED <<serverVars, loadVars, doc, base, timer, retry, publish,
                 keptVars, ghostVars, spent>>

\* (mutant) A refusal on the merits clears the spinner and says nothing.
OnFailureQuiet(t) ==
  LET s == Head(chain[t]) IN
  /\ flight[t].phase \in {"timeout", "refused"}
  /\ status' = [status EXCEPT ![t] = "idle"]
  /\ retry' = [retry EXCEPT ![t] =
                 @ \/ (s.kind = "auto" /\ flight[t].phase = "timeout")]
  /\ Settle(t, base[t])
  /\ UNCHANGED <<serverVars, loadVars, doc, base, dialogVars, dirty, timer,
                 publish, keptVars, ghostVars, spent>>

\* The server faulted, or refused: only a fault is sent again by itself.
OnFailure(t) ==
  LET s == Head(chain[t]) IN
  /\ flight[t].phase \in {"timeout", "refused"}
  /\ status' = [status EXCEPT ![t] = "error"]
  /\ retry' = [retry EXCEPT ![t] =
                 @ \/ (s.kind = "auto" /\ flight[t].phase = "timeout")]
  /\ Settle(t, base[t])
  /\ UNCHANGED <<serverVars, loadVars, doc, base, dialogVars, dirty, timer,
                 publish, keptVars, ghostVars, spent>>

\* The session ended.  The manual path keeps the copy; autosave does not.
OnUnauthorized(t) ==
  LET s == Head(chain[t]) IN
  /\ flight[t].phase = "unauthorized"
  /\ status' = [status EXCEPT ![t] = "signin"]
  /\ IF s.kind = "manual" THEN KeepUnsaved(t, doc[t]) ELSE UNCHANGED kept
  /\ Settle(t, base[t])
  /\ UNCHANGED <<serverVars, loadVars, doc, base, dialogVars, dirty, timer,
                 retry, publish, offScreen, ghostVars, spent>>

\* The connection died.  A request not yet run may still reach the server.
OnNetworkError(t) ==
  LET s == Head(chain[t]) IN
  /\ flight[t].phase \notin {"idle", "held"} /\ Spend("fault")
  /\ orphans' = orphans \union
       (IF flight[t].phase = "sent"
        THEN {[doc |-> s.doc, expected |-> flight[t].expected, by |-> t]}
        ELSE {})
  /\ KeepUnsaved(t, doc[t])
  /\ status' = [status EXCEPT ![t] = "error"]
  /\ dirty' = [dirty EXCEPT ![t] = @ \/ s.kind = "auto"]
  /\ retry' = [retry EXCEPT ![t] = @ \/ s.kind = "auto"]
  /\ Settle(t, base[t])
  /\ UNCHANGED <<site, loadVars, doc, base, dialogVars, timer, publish,
                 offScreen, ghostVars>>

-----------------------------------------------------------------------------
(* The conflict dialog, and publish.                                       *)

Dismiss(t) ==
  /\ dialog[t].open
  /\ dialog' = [dialog EXCEPT ![t].open = FALSE]
  /\ UNCHANGED <<site, loadVars, doc, saveVars, conflict, uiVars, publish,
                 keptVars, orphans, ghostVars, spent>>

\* The save pill opens the dialog again, with the dialog's own token; the
\* inspector's "Resolve" sends the event with the pending one.
Reopen(t) ==
  /\ conflict[t] # 0 /\ ~dialog[t].open
  /\ \/ status[t] = "conflict" /\ dialog' = [dialog EXCEPT ![t].open = TRUE]
        /\ UNCHANGED <<conflict, status>>
     \/ Raise(t, conflict[t])
  /\ UNCHANGED <<site, loadVars, doc, saveVars, dirty, timer, retry, publish,
                 keptVars, orphans, ghostVars, spent>>

\* What the adopted version had and the copy d, or a save still queued before
\* it, lacks: this is what an Overwrite gives up.
LeftOut(t, token, d) ==
  {e \in site[token].doc :
     e \notin d \/ \E i \in DOMAIN chain[t] : e \notin chain[t][i].doc}

\* The dialog's token becomes the baseline, and a manual save follows.
Overwrite(t) ==
  LET token == dialog[t].token IN
  /\ dialog[t].open
  /\ base' = [base EXCEPT ![t] = token]
  /\ conflict' = [conflict EXCEPT ![t] = 0]
  /\ dialog' = [dialog EXCEPT ![t] = NoDialog]
  /\ \E d \in ShownBySave(t) :
       /\ Show(t, d)
       /\ forsaken' = [forsaken EXCEPT
                         !["overwrite"] = @ \union LeftOut(t, token, d),
                         !["restored"] = @ \union (doc[t] \ d)]
       /\ Enqueue(t, "manual", d, token)
  /\ status' = [status EXCEPT ![t] = "saving"]
  /\ UNCHANGED <<site, loadVars, dirty, timer, retry, publish, kept, orphans,
                 made, spent>>

\* "Reload latest" (or after "Save a backup"): the kept copy is dropped too.
ReloadLatest(t) ==
  /\ dialog[t].open /\ Spend("reload") /\ Unload(t)
  /\ kept' = [kept EXCEPT ![BrowserOf[t]] = {}]

\* publishSite reads the baseline once the saves in flight have settled (no
\* save joins the chain while it waits).
PublishSends(t) ==
  /\ Editing(t) /\ life[t] = "open" /\ conflict[t] = 0 /\ publish[t] = 0
  /\ chain[t] = <<>> /\ Spend("publish")
  /\ publish' = [publish EXCEPT ![t] = base[t]]
  /\ UNCHANGED <<site, loadVars, doc, saveVars, dialogVars, uiVars, keptVars,
                 orphans, ghostVars>>

\* startPublish's freshness check, and the tab that hears of it.
PublishRefused(t) ==
  /\ publish[t] # 0 /\ Token > publish[t]
  /\ publish' = [publish EXCEPT ![t] = 0]
  /\ Raise(t, Token)
  /\ UNCHANGED <<site, loadVars, doc, saveVars, dirty, timer, retry, keptVars,
                 orphans, ghostVars, spent>>

PublishAccepted(t) ==
  /\ publish[t] # 0 /\ Token <= publish[t]
  /\ publish' = [publish EXCEPT ![t] = 0]
  /\ UNCHANGED <<site, loadVars, doc, saveVars, dialogVars, uiVars, keptVars,
                 orphans, ghostVars, spent>>

-----------------------------------------------------------------------------
(* What the user does, what the tab does by itself, and what the server    *)
(* does.                                                                   *)

\* A held save is refused before the browser handles the user's next event.
User(t) ==
  /\ flight[t].phase # "held"
  /\ \/ Reload(t) \/ Edit(t) \/ ManualSave(t) \/ ManualSaveHeld(t)
     \/ ManualSaveNotLoaded(t) \/ Restore(t) \/ Dismiss(t) \/ Reopen(t)
     \/ Overwrite(t) \/ ReloadLatest(t) \/ PublishSends(t)

Answered(t) ==
  \/ OnSaved(t) \/ OnConflict(t) \/ OnFailure(t) \/ OnUnauthorized(t)

Fires(t) ==
  \/ AutosaveHeld(t) \/ AutosaveNotLoaded(t) \/ Autosave(t)

Tab(t) ==
  \/ ReadRow(t) \/ ReadPages(t) \/ Loaded(t) \/ LoadFails(t)
  \/ Fires(t) \/ RetryFires(t) \/ Answered(t) \/ OnNetworkError(t)
  \/ PublishRefused(t) \/ PublishAccepted(t)

Runs(t) ==
  \/ SaveLands(t) \/ SaveConflicts(t) \/ SaveRefused(t) \/ SaveOutran(t)
  \/ SaveRechecked(t)

Next ==
  \/ \E t \in Tabs : User(t) \/ Tab(t) \/ Runs(t)
  \/ \E o \in orphans : OrphanLands(o) \/ OrphanFails(o)
  \/ OutsideWrite

Spec == Init /\ [][Next]_vars

\* Timers fire, and a request that was sent is run and answered.  Nothing
\* is assumed of the user, of the network's faults, or of refusals.
Fairness ==
  \A t \in Tabs :
    /\ WF_vars(Fires(t)) /\ WF_vars(RetryFires(t)) /\ WF_vars(Answered(t))
    /\ WF_vars(SaveLands(t) \/ SaveConflicts(t) \/ SaveRechecked(t))

FairSpec == Spec /\ Fairness

=============================================================================
