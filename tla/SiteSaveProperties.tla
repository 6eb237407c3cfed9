-------------------------- MODULE SiteSaveProperties --------------------------
(* What saving promises: the properties of SiteSave.                       *)
EXTENDS SiteSave

TypeOK ==
  /\ site \in Seq(Version) /\ Len(site) > 0
  /\ life \in [Tabs -> {"loading", "open", "failed"}]
  /\ read \in [Tabs -> [row: Nat, pages: Nat]]
  /\ doc \in [Tabs -> SUBSET Edits]
  /\ base \in [Tabs -> Nat]
  /\ chain \in [Tabs -> Seq(Save)]
  /\ flight \in [Tabs -> Request]
  /\ conflict \in [Tabs -> Nat]
  /\ dialog \in [Tabs -> [token: Nat, open: BOOLEAN]]
  /\ dirty \in [Tabs -> BOOLEAN]
  /\ status \in [Tabs -> Statuses]
  /\ timer \in [Tabs -> BOOLEAN]
  /\ retry \in [Tabs -> BOOLEAN]
  /\ publish \in [Tabs -> Nat]
  /\ kept \in [Browsers -> SUBSET SUBSET Edits]
  /\ offScreen \in [Tabs -> BOOLEAN]
  /\ orphans \subseteq Orphan
  /\ made \subseteq Edits
  /\ forsaken \in [Ways -> SUBSET Edits]
  /\ spent \in [Rare -> Nat]

Saved == UNION {site[v].doc : v \in DOMAIN site}
Unsaved(t) == doc[t] \ Saved
Forsaken == UNION {forsaken[w] : w \in Ways}

-----------------------------------------------------------------------------
(* Safety.                                                                 *)

\* No write takes a stored edit off the site, but for edits that a copy is
\* known to have left out: the user overwrote them, the load was torn, or a
\* kept copy was restored over them.  Two tabs, late requests, timeouts and
\* retries add no other way (saveProjectData, saveProject, the dialog).
NoUnaccountedLoss ==
  [][Content \ Content' \subseteq Forsaken']_vars

\* The copy d has all that version v had, but for what is accounted for.
Covers(d, v) == v \in DOMAIN site /\ site[v].doc \subseteq d \union Forsaken

\* A copy on screen covers the version its token names; so does the request
\* sent; and so does every queued save, which the later ones and the screen
\* cover in turn.
CopiesCover(t) ==
  /\ life[t] = "open" => Covers(doc[t], base[t])
  /\ flight[t].phase = "sent" => Covers(Head(chain[t]).doc, flight[t].expected)
  /\ \A i \in DOMAIN chain[t] :
       /\ Covers(chain[t][i].doc, base[t])
       /\ chain[t][i].doc \subseteq doc[t] \union Forsaken
       /\ \A j \in DOMAIN chain[t] :
            i < j => chain[t][i].doc \subseteq chain[t][j].doc \union Forsaken

OrphansCover == \A o \in orphans : Covers(o.doc, o.expected)

\* Every token names a version; a landed save's token names its own.
TokensName(t) ==
  /\ read[t].row \in 0..Len(site) /\ read[t].pages \in 0..Len(site)
  /\ conflict[t] # 0 =>
       conflict[t] \in DOMAIN site /\ dialog[t].token \in DOMAIN site
  /\ flight[t].phase \in {"conflict", "held"} => flight[t].token \in DOMAIN site
  /\ flight[t].phase = "ok" => flight[t].token # 0
  /\ flight[t].phase \in {"ok", "unsure"} /\ flight[t].token # 0 =>
       /\ flight[t].token \in DOMAIN site
       /\ site[flight[t].token].doc = Head(chain[t]).doc

\* Saves, conflicts and publishes belong to a page whose project loaded.
OnlyWhenOpen(t) ==
  /\ chain[t] = <<>> <=> flight[t].phase = "idle"
  /\ dialog[t].open => conflict[t] # 0
  /\ chain[t] # <<>> \/ conflict[t] # 0 \/ publish[t] # 0 => life[t] = "open"

\* Why nothing else is lost: every copy that could be written over the site
\* has what it replaces (the inductive invariant).
SavesCover ==
  /\ OrphansCover
  /\ \A t \in Tabs : CopiesCover(t) /\ TokensName(t) /\ OnlyWhenOpen(t)

\* A tab that shows no trouble has no unsaved work, or its save is scheduled or
\* on its way (useComposerInit, useSaveCallback).
NothingForgotten ==
  \A t \in Tabs :
    Unsaved(t) # {} /\ conflict[t] = 0 /\ status[t] \in {"idle", "saving"}
    => \/ timer[t] \/ retry[t]
       \/ Unsaved(t) \subseteq UNION {chain[t][i].doc : i \in DOMAIN chain[t]}

\* "Each save leaves with the baseline the previous one returned": while no
\* answer is lost, the version that refuses a tab's save is not one that the
\* same page wrote (_saveChain).  A publish breaks it: it is refused over the
\* page's own newer save, and its conflict brings back the token it names.
SavesDoNotRace ==
  spent["fault"] = 0 /\ spent["publish"] = 0 =>
    \A t \in Tabs :
      flight[t].phase = "conflict" => site[flight[t].token].by # t

\* The kept copy that an autosave's success drops is one that the server has
\* or a queued save carries.
AutosaveKeepsWork(t) ==
  /\ flight[t].phase = "ok" /\ Head(chain[t]).kind = "auto"
  /\ flight'[t] # flight[t] /\ life'[t] = "open"
  => \A d \in kept[BrowserOf[t]] :
       \/ \E k \in kept'[BrowserOf[t]] : d \subseteq k
       \/ d \subseteq Saved'
       \/ \E i \in DOMAIN chain'[t] : chain'[t][i].doc = d

\* An autosave's success drops no work that is kept, unless a conflict is held
\* or another tab of the browser shares the record (clearUnsaved).
KeptUntilSaved ==
  [][\A t \in Tabs : conflict[t] = 0 => AutosaveKeepsWork(t)]_vars

-----------------------------------------------------------------------------
(* Why these hold: what each step of a tab keeps true (inductive).         *)

\* The last save of the chain carries what is on screen, unless a change has
\* set the timer since; without a chain, unsaved work is scheduled or told of.
WorkScheduled(t) ==
  LET last == chain[t][Len(chain[t])] IN
  /\ chain[t] # <<>> /\ conflict[t] = 0 =>
       /\ last.newest \/ timer[t]
       /\ last.newest => last.doc = doc[t]
  /\ chain[t] = <<>> /\ conflict[t] = 0 /\ Unsaved(t) # {} =>
       timer[t] \/ retry[t] \/ status[t] \notin {"idle", "saving"}
  /\ life[t] = "loading" => doc[t] = {}

\* The page knows of version v: its token is no older.
Knows(t, v) ==
  /\ life[t] = "loading" /\ read[t].row # 0 => v <= read[t].row
  /\ life[t] = "open" =>
       v <= IF flight[t].phase = "ok" THEN flight[t].token ELSE base[t]
  /\ flight[t].phase = "sent" => v <= flight[t].expected
  /\ conflict[t] # 0 => v <= conflict[t] /\ v <= dialog[t].token

\* Without faults and publishes a page knows of all that it wrote, and a held
\* conflict stops its saves.
OwnWritesKnown(t) ==
  /\ life[t] # "failed" /\ publish[t] = 0
  /\ flight[t].phase \notin {"unsure", "timeout"}
  /\ conflict[t] # 0 => flight[t].phase = "idle"
  /\ \A v \in DOMAIN site : site[v].by = t => Knows(t, v)
  /\ flight[t].phase \in {"conflict", "held"} =>
       \A v \in DOMAIN site : site[v].by = t => v < flight[t].token
  /\ \A o \in orphans : o.by # t

OwnWrites ==
  spent["fault"] = 0 /\ spent["publish"] = 0 => \A t \in Tabs : OwnWritesKnown(t)

\* One copy is kept at most.  It is on screen, unless it waits to be restored;
\* and so is what the newest saves carry, unless a restored copy is.
KeptShown(t) ==
  LET copies == kept[BrowserOf[t]] IN
  /\ \A c, d \in copies : c = d
  /\ life[t] = "open" =>
       /\ offScreen[t] \/ \A d \in copies : d \subseteq doc[t]
       /\ \A i \in DOMAIN chain[t] : chain[t][i].newest =>
            /\ chain[t][Len(chain[t])].newest
            /\ chain[t][i].doc = doc[t] \/ (~offScreen[t] /\ copies \subseteq {doc[t]})

-----------------------------------------------------------------------------
(* Liveness.                                                               *)

\* What tells the user that an edit will not save itself.
Told(t) ==
  \/ conflict[t] # 0
  \/ status[t] = "error" /\ ~retry[t] /\ ~timer[t]
  \/ status[t] = "signin"

\* Every edit reaches the server, or the tab says why not.
SavedOrTold ==
  \A t \in Tabs :
    life[t] = "open" /\ Unsaved(t) # {}
      ~> Unsaved(t) = {} \/ Told(t) \/ life[t] # "open"

-----------------------------------------------------------------------------
(* What comments and copy of the repository say of the program.            *)

\* "so the server can detect a behind-copy" (_baselineLastEditedAt): a tab
\* that restored nothing and overwrote nothing saves over what it loaded.
BehindCopyIsDetected ==
  [][Content \ Content' \subseteq forsaken'["overwrite"]
                                    \union forsaken'["restored"]]_vars

\* An edit made while a save was travelling is not announced as saved
\* (useComposerInit, changeSeq).
CleanMeansSaved ==
  \A t \in Tabs :
    /\ life[t] = "open" /\ ~dirty[t] /\ status[t] = "idle"
    => Unsaved(t) = {}

\* "The server has it now" (clearUnsaved's callers): a kept copy leaves the
\* browser only by choice, or when the server has its edits.
KeptCopyIsWork ==
  [][\A b \in Browsers : \A d \in kept[b] :
       \/ kept'[b] # {}
       \/ d \subseteq Saved'
       \/ \E t \in Tabs : life[t] = "open" /\ life'[t] = "loading"]_vars

=============================================================================
