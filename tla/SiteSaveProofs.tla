---------------------------- MODULE SiteSaveProofs ----------------------------
(* What holds of saving for any number of tabs, browsers, edits and faults.  *)
EXTENDS SiteSaveProperties, SequenceTheorems, TLAPS

-----------------------------------------------------------------------------
(* The chain of saves.                                                     *)

\* What a change does to the saves of a chain: they stop being the newest,
\* and keep their copies and their order.
LEMMA OutdatedSaves ==
  ASSUME NEW c \in Seq(Save)
  PROVE  /\ Outdated(c) \in Seq(Save)
         /\ DOMAIN Outdated(c) = DOMAIN c
         /\ \A i \in DOMAIN c : Outdated(c)[i].doc = c[i].doc
         /\ c = <<>> <=> Outdated(c) = <<>>
  <1>1. /\ Len(c) \in Nat /\ DOMAIN c = 1..Len(c)
        /\ \A i \in 1..Len(c) : c[i] \in Save
    BY LenProperties, ElementOfSeq
  <1>2. Outdated(c) = [i \in 1..Len(c) |-> [c[i] EXCEPT !.newest = FALSE]]
    BY <1>1 DEF Outdated
  <1>3. \A i \in 1..Len(c) :
          /\ [c[i] EXCEPT !.newest = FALSE] \in Save
          /\ [c[i] EXCEPT !.newest = FALSE].doc = c[i].doc
    BY <1>1 DEF Save
  <1>4. Outdated(c) \in [1..Len(c) -> Save]
    BY <1>2, <1>3
  <1>5. Outdated(c) \in Seq(Save)
    BY <1>1, <1>4, SeqDef
  <1>6. \A i \in 1..Len(c) : Outdated(c)[i].doc = c[i].doc
    BY <1>2, <1>3
  <1>7. Len(Outdated(c)) = Len(c)
    BY <1>1, <1>4, <1>5, LenProperties
  <1>8. c = <<>> <=> Outdated(c) = <<>>
    BY <1>1, <1>5, <1>7, EmptySeq
  <1> QED BY <1>1, <1>4, <1>5, <1>6, <1>8

\* Adding a save to a chain.
LEMMA QueuedSave ==
  ASSUME NEW c \in Seq(Save), NEW s \in Save
  PROVE  /\ Append(c, s) \in Seq(Save) /\ Append(c, s) # <<>>
         /\ Len(c) \in Nat /\ DOMAIN c = 1..Len(c)
         /\ DOMAIN Append(c, s) = 1..Len(c) + 1
         /\ Append(c, s)[Len(c) + 1] = s
         /\ \A i \in DOMAIN c : Append(c, s)[i] = c[i]
         /\ c = <<>> => Len(c) = 0 /\ Head(Append(c, s)) = s
         /\ c # <<>> => Head(Append(c, s)) = Head(c)
  <1>1. Len(c) \in Nat /\ DOMAIN c = 1..Len(c)
    BY LenProperties
  <1>2. /\ Append(c, s) \in Seq(Save) /\ Append(c, s) # <<>>
        /\ Len(Append(c, s)) = Len(c) + 1
    BY AppendProperties
  <1>3. Append(c, s)[Len(c) + 1] = s /\ \A i \in 1..Len(c) : Append(c, s)[i] = c[i]
    BY AppendProperties
  <1>4. DOMAIN Append(c, s) = 1..Len(c) + 1
    BY <1>2, LenProperties
  <1>5. Head(Append(c, s)) = Append(c, s)[1]
    BY <1>2, HeadTailProperties
  <1>6. c = <<>> => Len(c) = 0 /\ Head(Append(c, s)) = s
    BY <1>3, <1>5
  <1>7. c # <<>> => Head(c) = c[1] /\ 1 \in 1..Len(c)
    BY EmptySeq, LenProperties, HeadTailProperties
  <1> QED BY <1>1, <1>2, <1>3, <1>4, <1>5, <1>6, <1>7

\* Taking the settled save off a chain.
LEMMA SettledSave ==
  ASSUME NEW c \in Seq(Save), c # <<>>
  PROVE  /\ Tail(c) \in Seq(Save)
         /\ Len(c) \in Nat \ {0} /\ DOMAIN c = 1..Len(c)
         /\ Head(c) = c[1] /\ Head(c) \in Save
         /\ DOMAIN Tail(c) = 1..Len(c) - 1
         /\ \A i \in 1..Len(c) - 1 : Tail(c)[i] = c[i + 1]
         /\ Len(c) = 1 <=> Tail(c) = <<>>
         /\ Len(c) # 1 => Tail(c) # <<>> /\ Head(Tail(c)) = c[2]
  <1>1. /\ Len(c) \in Nat \ {0} /\ DOMAIN c = 1..Len(c)
        /\ Head(c) = c[1] /\ Head(c) \in Save
    BY EmptySeq, LenProperties, HeadTailProperties
  <1>2. /\ Tail(c) \in Seq(Save) /\ Len(Tail(c)) = Len(c) - 1
        /\ \A i \in 1..Len(Tail(c)) : Tail(c)[i] = c[i + 1]
    BY HeadTailProperties
  <1>3. DOMAIN Tail(c) = 1..Len(Tail(c))
    BY <1>2, LenProperties
  <1>4. Len(Tail(c)) = 0 <=> Tail(c) = <<>>
    BY <1>1, <1>2, EmptySeq
  <1>5. Len(c) # 1 => Tail(c) # <<>> /\ Head(Tail(c)) = Tail(c)[1]
    BY <1>1, <1>2, <1>4
  <1> QED BY <1>1, <1>2, <1>3, <1>4, <1>5

-----------------------------------------------------------------------------
(* Types.                                                                  *)

\* What the steps of a tab write keeps the tab's state typed: a save joins the
\* chain, the first one is settled, a conflict is raised.
LEMMA EnqueueTyped ==
  ASSUME TypeOK, NEW t \in Tabs, NEW kind \in {"auto", "manual"},
         NEW d \in SUBSET Edits, NEW b \in Nat, Enqueue(t, kind, d, b)
  PROVE  chain' \in [Tabs -> Seq(Save)] /\ flight' \in [Tabs -> Request]
  <1>1. [doc |-> d, kind |-> kind, newest |-> TRUE] \in Save
    BY DEF Save
  <1>2. Sent(b) \in Request
    BY DEF Sent, Request, Phases
  <1>3. chain[t] \in Seq(Save) /\ flight[t] \in Request
    BY DEF TypeOK
  <1>4. Append(chain[t], [doc |-> d, kind |-> kind, newest |-> TRUE]) \in Seq(Save)
    BY <1>1, <1>3, QueuedSave
  <1> QED BY <1>2, <1>3, <1>4 DEF TypeOK, Enqueue

\* The first save is settled: the chain and the request keep their types.
LEMMA SettleTyped ==
  ASSUME TypeOK, NEW t \in Tabs, chain[t] # <<>>, NEW b \in Nat, Settle(t, b)
  PROVE  chain' \in [Tabs -> Seq(Save)] /\ flight' \in [Tabs -> Request]
  <1>1. Tail(chain[t]) \in Seq(Save)
    BY SettledSave DEF TypeOK
  <1>2. /\ Idle \in Request /\ Sent(b) \in Request
        /\ [phase |-> "held", expected |-> 0, token |-> conflict[t]] \in Request
    BY DEF TypeOK, Idle, Sent, Request, Phases
  <1> QED BY <1>1, <1>2 DEF TypeOK, Settle

\* A raised conflict keeps the conflict, the dialog and the status typed.
LEMMA RaiseTyped ==
  ASSUME TypeOK, NEW t \in Tabs, NEW token \in Nat, Raise(t, token)
  PROVE  /\ conflict' \in [Tabs -> Nat]
         /\ dialog' \in [Tabs -> [token: Nat, open: BOOLEAN]]
         /\ status' \in [Tabs -> Statuses]
  <1>1. [token |-> token, open |-> TRUE] \in [token: Nat, open: BOOLEAN]
    OBVIOUS
  <1>2. "conflict" \in Statuses
    BY DEF Statuses
  <1> QED BY <1>1, <1>2 DEF TypeOK, Raise

\* The autosave handler keeps what it writes typed.
LEMMA ChangedTyped ==
  ASSUME TypeOK, NEW t \in Tabs, Changed(t)
  PROVE  /\ dirty' \in [Tabs -> BOOLEAN] /\ timer' \in [Tabs -> BOOLEAN]
         /\ chain' \in [Tabs -> Seq(Save)]
  <1>1. Outdated(chain[t]) \in Seq(Save)
    BY OutdatedSaves DEF TypeOK
  <1> QED BY <1>1 DEF TypeOK, Changed

\* Keeping and dropping the kept copy, and showing it.
LEMMA KeptTyped ==
  ASSUME TypeOK, NEW t \in Tabs
  PROVE  /\ \A d \in SUBSET Edits :
              KeepUnsaved(t, d) => kept' \in [Browsers -> SUBSET SUBSET Edits]
         /\ ClearUnsaved(t) => kept' \in [Browsers -> SUBSET SUBSET Edits]
         /\ ShownBySave(t) \subseteq SUBSET Edits
         /\ kept[BrowserOf[t]] \subseteq SUBSET Edits
  <1>1. BrowserOf[t] \in Browsers
    BY BrowserAssumption
  <1>2. /\ kept \in [Browsers -> SUBSET SUBSET Edits]
        /\ doc[t] \in SUBSET Edits
    BY DEF TypeOK
  <1>3. \A k \in SUBSET SUBSET Edits :
          [kept EXCEPT ![BrowserOf[t]] = k] \in [Browsers -> SUBSET SUBSET Edits]
    BY <1>1, <1>2
  <1>5. ASSUME NEW d \in SUBSET Edits, KeepUnsaved(t, d)
        PROVE  kept' \in [Browsers -> SUBSET SUBSET Edits]
    <2>1. {d} \in SUBSET SUBSET Edits
      OBVIOUS
    <2>2. [kept EXCEPT ![BrowserOf[t]] = {d}] \in [Browsers -> SUBSET SUBSET Edits]
      BY <1>3, <2>1
    <2> QED BY <1>2, <1>5, <2>2, Zenon DEF KeepUnsaved
  <1>6. ClearUnsaved(t) => kept' \in [Browsers -> SUBSET SUBSET Edits]
    <2>1. {} \in SUBSET SUBSET Edits
      OBVIOUS
    <2> QED BY <1>2, <1>3, <2>1, Zenon DEF ClearUnsaved
  <1>7. kept[BrowserOf[t]] \subseteq SUBSET Edits
    BY <1>1, <1>2
  <1>8. ShownBySave(t) \subseteq SUBSET Edits
    <2>1. {doc[t]} \subseteq SUBSET Edits
      BY <1>2
    <2> QED BY <1>7, <2>1, Zenon DEF ShownBySave
  <1> QED BY <1>5, <1>6, <1>7, <1>8

\* A write appends a version.
LEMMA WriteTyped ==
  ASSUME TypeOK, NEW d \in SUBSET Edits, NEW w \in Writers, Write(d, w)
  PROVE  /\ site' \in Seq(Version) /\ Len(site') = Len(site) + 1
         /\ \A v \in DOMAIN site : site'[v] = site[v]
         /\ site'[Len(site)+1].doc = d
         /\ DOMAIN site = 1..Len(site) /\ DOMAIN site' = 1..Len(site)+1
         /\ Len(site) \in Nat \ {0}
  <1>1. [doc |-> d, by |-> w] \in Version
    BY DEF Version
  <1> QED BY <1>1 DEF TypeOK, Write

\* A write keeps the versions typed, whatever is written and by whom.
LEMMA Written ==
  ASSUME TypeOK
  PROVE  \A d \in SUBSET Edits : \A w \in Writers :
           Write(d, w) => site' \in Seq(Version) /\ Len(site') > 0
  <1> SUFFICES ASSUME NEW d \in SUBSET Edits, NEW w \in Writers, Write(d, w)
               PROVE  site' \in Seq(Version) /\ Len(site') > 0
    OBVIOUS
  <1>1. /\ site' \in Seq(Version) /\ Len(site') = Len(site) + 1
        /\ Len(site) \in Nat \ {0}
    BY WriteTyped
  <1> QED BY <1>1

\* The history of what was left out keeps its type.
LEMMA ForsakeTyped ==
  ASSUME TypeOK, NEW w \in Ways, NEW edits \in SUBSET Edits, Forsake(w, edits)
  PROVE  forsaken' \in [Ways -> SUBSET Edits] /\ Forsaken \union edits \subseteq Forsaken'
  BY DEF TypeOK, Forsake, Forsaken

\* The counts of the rare events stay natural numbers.
LEMMA SpendTyped ==
  ASSUME TypeOK, NEW r \in Rare, Spend(r)
  PROVE  spent' \in [Rare -> Nat]
  BY DEF TypeOK, Spend

-----------------------------------------------------------------------------
(* A tab that a step leaves alone.                                         *)

\* The site keeps its versions, and what is accounted for stays so.
Grown ==
  /\ DOMAIN site \subseteq DOMAIN site' /\ Len(site) <= Len(site')
  /\ Len(site) \in Nat /\ Len(site') \in Nat
  /\ \A v \in DOMAIN site : site'[v] = site[v]
  /\ Forsaken \subseteq Forsaken'

\* The copy d, as it is, covers version v after the step.
CoversNext(d, v) == v \in DOMAIN site' /\ site'[v].doc \subseteq d \union Forsaken'

\* A copy goes on covering what it covers.
LEMMA CoversStays ==
  ASSUME Grown
  PROVE  \A d, v : Covers(d, v) => CoversNext(d, v)
  BY DEF Grown, Covers, CoversNext

Untouched(t) ==
  /\ life'[t] = life[t] /\ read'[t] = read[t] /\ doc'[t] = doc[t]
  /\ base'[t] = base[t] /\ chain'[t] = chain[t] /\ flight'[t] = flight[t]
  /\ conflict'[t] = conflict[t] /\ dialog'[t] = dialog[t]
  /\ publish'[t] = publish[t]

TabInv(t) == CopiesCover(t) /\ TokensName(t) /\ OnlyWhenOpen(t)

\* Whatever another tab or the server does, an untouched tab's saves still
\* cover what they would replace.
LEMMA UntouchedTab ==
  ASSUME Grown, NEW t \in Tabs, Untouched(t), TabInv(t)
  PROVE  TabInv(t)'
  <1>1. CopiesCover(t)'
    <2>1. life[t] = "open" => Covers(doc[t], base[t])'
      BY DEF TabInv, CopiesCover, Covers, Grown, Untouched
    <2>2. flight'[t].phase = "sent" => Covers(Head(chain[t]).doc, flight[t].expected)'
      BY DEF TabInv, CopiesCover, Covers, Grown, Untouched
    <2>3. \A i \in DOMAIN chain[t] : Covers(chain[t][i].doc, base[t])'
      BY DEF TabInv, CopiesCover, Covers, Grown, Untouched
    <2>4. \A i \in DOMAIN chain[t] :
            /\ chain[t][i].doc \subseteq doc[t] \union Forsaken'
            /\ \A j \in DOMAIN chain[t] : i < j =>
                 chain[t][i].doc \subseteq chain[t][j].doc \union Forsaken'
      BY DEF TabInv, CopiesCover, Grown
    <2> QED BY <2>1, <2>2, <2>3, <2>4 DEF CopiesCover, Covers, Untouched
  <1>2. TokensName(t)'
    BY DEF TabInv, TokensName, Grown, Untouched
  <1>3. OnlyWhenOpen(t)'
    BY DEF TabInv, OnlyWhenOpen, Untouched
  <1> QED BY <1>1, <1>2, <1>3 DEF TabInv

-----------------------------------------------------------------------------
(* The tab that a step is about.                                           *)

\* A save joins the chain with a copy that covers the baseline: it covers
\* whatever it may be sent against.
LEMMA EnqueueCovers ==
  ASSUME TypeOK, Grown, NEW t \in Tabs, NEW kind \in {"auto", "manual"},
         NEW d \in SUBSET Edits, NEW b \in Nat,
         Enqueue(t, kind, d, b), CopiesCover(t), OnlyWhenOpen(t),
         doc'[t] = d, base'[t] = b, CoversNext(d, b),
         \A i \in DOMAIN chain[t] :
           /\ CoversNext(chain[t][i].doc, b)
           /\ chain[t][i].doc \subseteq d \union Forsaken'
  PROVE  CopiesCover(t)'
  <1> DEFINE c == chain[t]
             s == [doc |-> d, kind |-> kind, newest |-> TRUE]
  <1>1. c \in Seq(Save) /\ s \in Save
    BY DEF TypeOK, Save
  <1>2. chain'[t] = Append(c, s)
    BY DEF TypeOK, Enqueue
  <1>3. flight'[t] = IF c = <<>> THEN Sent(b) ELSE flight[t]
    BY DEF TypeOK, Enqueue
  <1> HIDE DEF c
  <1>4. /\ Len(c) \in Nat /\ DOMAIN c = 1..Len(c)
        /\ DOMAIN Append(c, s) = 1..Len(c) + 1
        /\ Append(c, s)[Len(c) + 1] = s
        /\ \A i \in DOMAIN c : Append(c, s)[i] = c[i]
        /\ c = <<>> => Head(Append(c, s)) = s
        /\ c # <<>> => Head(Append(c, s)) = Head(c)
    BY <1>1, QueuedSave
  <1>5. flight'[t].phase = "sent" =>
          CoversNext(Head(chain'[t]).doc, flight'[t].expected)
    <2>1. CASE c = <<>>
      BY <1>2, <1>3, <1>4, <2>1 DEF Sent, CoversNext
    <2>2. CASE c # <<>>
      <3>1. flight[t].phase = "sent" => Covers(Head(c).doc, flight[t].expected)
        BY DEF CopiesCover, c
      <3> QED BY <1>2, <1>3, <1>4, <2>2, <3>1, CoversStays DEF CoversNext, Grown
    <2> QED BY <2>1, <2>2
  <1>6. ASSUME NEW i \in DOMAIN Append(c, s)
        PROVE  /\ CoversNext(Append(c, s)[i].doc, b)
               /\ Append(c, s)[i].doc \subseteq d \union Forsaken'
               /\ \A j \in DOMAIN Append(c, s) : i < j =>
                    Append(c, s)[i].doc \subseteq Append(c, s)[j].doc \union Forsaken'
    <2>1. CASE i \in DOMAIN c
      <3>1. \A j \in DOMAIN c : i < j => c[i].doc \subseteq c[j].doc \union Forsaken
        BY <2>1 DEF CopiesCover, c
      <3>2. CoversNext(c[i].doc, b) /\ c[i].doc \subseteq d \union Forsaken'
        BY <2>1 DEF c
      <3> QED BY <1>4, <2>1, <3>1, <3>2, CoversStays DEF CoversNext, Grown
    <2>2. CASE i = Len(c) + 1
      BY <1>4, <2>2 DEF CoversNext
    <2> QED BY <1>4, <2>1, <2>2
  <1> QED BY <1>2, <1>5, <1>6 DEF CopiesCover, Covers, CoversNext

\* The first save is settled, and the next one leaves with a baseline that
\* the rest of the chain and the screen cover.
LEMMA SettleCovers ==
  ASSUME TypeOK, Grown, NEW t \in Tabs, chain[t] # <<>>, NEW b \in Nat,
         Settle(t, b), CopiesCover(t), doc'[t] = doc[t], base'[t] = b,
         CoversNext(doc[t], b),
         \A i \in 2..Len(chain[t]) : CoversNext(chain[t][i].doc, b)
  PROVE  CopiesCover(t)'
  <1> DEFINE c == chain[t]
  <1>1. c \in Seq(Save)
    BY DEF TypeOK
  <1>2. /\ chain'[t] = Tail(c)
        /\ flight'[t].phase = "sent" => flight'[t].expected = b /\ Len(c) # 1
    BY DEF TypeOK, Settle, Idle, Sent
  <1>3. \A i \in DOMAIN c :
          /\ c[i].doc \subseteq doc[t] \union Forsaken
          /\ \A j \in DOMAIN c : i < j => c[i].doc \subseteq c[j].doc \union Forsaken
    BY DEF CopiesCover
  <1> HIDE DEF c
  <1>4. /\ Len(c) \in Nat \ {0} /\ DOMAIN c = 1..Len(c)
        /\ DOMAIN Tail(c) = 1..Len(c) - 1
        /\ \A i \in 1..Len(c) - 1 : Tail(c)[i] = c[i + 1]
        /\ Len(c) # 1 => Head(Tail(c)) = c[2]
    BY <1>1, SettledSave DEF c
  <1>5. \A i \in 2..Len(c) : CoversNext(c[i].doc, b)
    BY DEF c
  <1>6. flight'[t].phase = "sent" =>
          CoversNext(Head(chain'[t]).doc, flight'[t].expected)
    BY <1>2, <1>4, <1>5 DEF CoversNext
  <1>7. ASSUME NEW i \in DOMAIN Tail(c)
        PROVE  /\ CoversNext(Tail(c)[i].doc, b)
               /\ Tail(c)[i].doc \subseteq doc[t] \union Forsaken'
               /\ \A j \in DOMAIN Tail(c) : i < j =>
                    Tail(c)[i].doc \subseteq Tail(c)[j].doc \union Forsaken'
    <2>1. CoversNext(Tail(c)[i].doc, b)
      BY <1>4, <1>5, <1>7 DEF CoversNext
    <2>2. Tail(c)[i].doc \subseteq doc[t] \union Forsaken'
      BY <1>3, <1>4, <1>7 DEF Grown
    <2>3. \A j \in DOMAIN Tail(c) : i < j =>
            Tail(c)[i].doc \subseteq Tail(c)[j].doc \union Forsaken'
      BY <1>3, <1>4, <1>7 DEF Grown
    <2> QED BY <2>1, <2>2, <2>3
  <1> QED BY <1>2, <1>6, <1>7 DEF CopiesCover, Covers, CoversNext

\* A change of the screen that leaves nothing unaccounted for.
LEMMA ChangedCovers ==
  ASSUME TypeOK, Grown, NEW t \in Tabs, Changed(t), CopiesCover(t),
         OnlyWhenOpen(t), doc[t] \subseteq doc'[t] \union Forsaken',
         base'[t] = base[t], flight'[t] = flight[t], life'[t] = life[t]
  PROVE  CopiesCover(t)'
  <1> DEFINE c == chain[t]
             o == Outdated(c)
  <1>1. c \in Seq(Save) /\ chain'[t] = o
    BY DEF TypeOK, Changed
  <1>2. /\ o \in Seq(Save) /\ DOMAIN o = DOMAIN c
        /\ \A i \in DOMAIN c : o[i].doc = c[i].doc
        /\ c = <<>> <=> o = <<>>
    BY <1>1, OutdatedSaves
  <1>3. c # <<>> => Head(o).doc = Head(c).doc
    BY <1>1, <1>2, SettledSave
  <1>4. /\ life[t] = "open" => Covers(doc[t], base[t])
        /\ flight[t].phase = "sent" => c # <<>> /\ Covers(Head(c).doc, flight[t].expected)
        /\ \A i \in DOMAIN c :
             /\ Covers(c[i].doc, base[t])
             /\ c[i].doc \subseteq doc[t] \union Forsaken
             /\ \A j \in DOMAIN c :
                  i < j => c[i].doc \subseteq c[j].doc \union Forsaken
    BY DEF CopiesCover, OnlyWhenOpen
  <1> HIDE DEF c, o
  <1>5. life'[t] = "open" => CoversNext(doc'[t], base'[t])
    BY <1>4, CoversStays DEF CoversNext, Grown
  <1>6. flight'[t].phase = "sent" => CoversNext(Head(chain'[t]).doc, flight'[t].expected)
    BY <1>1, <1>3, <1>4, CoversStays DEF CoversNext, Grown
  <1>7. \A i \in DOMAIN o :
          /\ CoversNext(o[i].doc, base[t])
          /\ o[i].doc \subseteq doc'[t] \union Forsaken'
          /\ \A j \in DOMAIN o : i < j => o[i].doc \subseteq o[j].doc \union Forsaken'
    BY <1>2, <1>4, CoversStays DEF CoversNext, Grown
  <1> QED BY <1>1, <1>5, <1>6, <1>7 DEF CopiesCover, Covers, CoversNext

-----------------------------------------------------------------------------
(* Every step keeps the types.                                             *)

\* A site has a newest version, and every version is a set of edits.
LEMMA VersionsTyped ==
  ASSUME TypeOK
  PROVE  /\ Len(site) \in Nat \ {0} /\ DOMAIN site = 1..Len(site)
         /\ \A v \in DOMAIN site : site[v].doc \subseteq Edits
         /\ Token \in Nat \ {0} /\ Token \in DOMAIN site /\ Content \subseteq Edits
  <1>1. \A v \in 1..Len(site) : site[v] \in Version
    BY ElementOfSeq DEF TypeOK
  <1>2. /\ Len(site) \in Nat \ {0} /\ DOMAIN site = 1..Len(site)
        /\ Len(site) \in DOMAIN site
    BY LenProperties DEF TypeOK
  <1> QED BY <1>1, <1>2 DEF Version, Token, Content

\* The save at the head of a chain carries a set of edits.
LEMMA HeadTyped ==
  ASSUME TypeOK, NEW t \in Tabs, chain[t] # <<>>
  PROVE  Head(chain[t]) \in Save /\ Head(chain[t]).doc \in SUBSET Edits
  BY SettledSave DEF TypeOK, Save

\* Every step keeps the types.
LEMMA TypeStep ==
  ASSUME TypeOK, SavesCover, [Next]_vars
  PROVE  TypeOK'
  <1> USE DEF serverVars, loadVars, saveVars, dialogVars, uiVars, keptVars,
              ghostVars, tabVars
  <1>0. /\ Len(site) \in Nat \ {0} /\ Token \in Nat \ {0}
        /\ \A t \in Tabs : TokensName(t) /\ OnlyWhenOpen(t)
        /\ \A t \in Tabs : t \in Writers
        /\ {"gone", "outside"} \subseteq Writers
    BY VersionsTyped DEF SavesCover, Writers
  <1>1. ASSUME NEW t \in Tabs, ReadRow(t) \/ ReadPages(t)
        PROVE  TypeOK'
    <2>1. /\ [read EXCEPT ![t].row = Token] \in [Tabs -> [row: Nat, pages: Nat]]
          /\ [read EXCEPT ![t].pages = Token] \in [Tabs -> [row: Nat, pages: Nat]]
      BY <1>0 DEF TypeOK
    <2> QED BY <1>1, <2>1 DEF TypeOK, ReadRow, ReadPages
  <1>2. ASSUME NEW t \in Tabs, Loaded(t)
        PROVE  TypeOK'
    <2>1. site[read[t].row].doc \subseteq Edits /\ site[read[t].pages].doc \subseteq Edits
      <3>1. read[t].row \in 1..Len(site) /\ read[t].pages \in 1..Len(site)
        BY <1>0, <1>2 DEF TypeOK, TokensName, Loaded
      <3> QED BY <3>1, VersionsTyped
    <2>2. forsaken' \in [Ways -> SUBSET Edits]
      <3>1. Forsake("torn", site[read[t].row].doc \ site[read[t].pages].doc)
        BY <1>2 DEF Loaded
      <3> QED BY <2>1, <3>1, ForsakeTyped DEF Ways
    <2>3. read[t].row \in Nat /\ (kept[BrowserOf[t]] # {}) \in BOOLEAN
      BY DEF TypeOK
    <2>4. /\ offScreen' \in [Tabs -> BOOLEAN] /\ status' \in [Tabs -> Statuses]
          /\ doc' \in [Tabs -> SUBSET Edits] /\ base' \in [Tabs -> Nat]
          /\ life' \in [Tabs -> {"loading", "open", "failed"}]
      BY <1>2, <2>1, <2>3 DEF TypeOK, Loaded, Statuses
    <2> QED BY <1>2, <2>2, <2>4 DEF TypeOK, Loaded
  <1>3. ASSUME NEW t \in Tabs, LoadFails(t)
        PROVE  TypeOK'
    <2>1. spent' \in [Rare -> Nat]
      BY <1>3, SpendTyped DEF LoadFails, Rare
    <2> QED BY <1>3, <2>1 DEF TypeOK, LoadFails
  <1>4. ASSUME NEW t \in Tabs, Reload(t) \/ ReloadLatest(t)
        PROVE  TypeOK'
    <2>1. spent' \in [Rare -> Nat]
      BY <1>4, SpendTyped DEF Reload, ReloadLatest, Rare
    <2>2. kept' \in [Browsers -> SUBSET SUBSET Edits]
      BY <1>4, BrowserAssumption DEF TypeOK, Reload, ReloadLatest
    <2>3. Unload(t)
      BY <1>4 DEF Reload, ReloadLatest
    <2>4. flight[t].phase = "sent" =>
            [doc |-> Head(chain[t]).doc, expected |-> flight[t].expected,
             by |-> "gone"] \in Orphan
      BY <1>0, HeadTyped DEF TypeOK, OnlyWhenOpen, Orphan, Request
    <2>5. \A o \in orphans : [o EXCEPT !.by = IF @ = t THEN "gone" ELSE @] \in Orphan
      <3>1. \A o \in Orphan : \A w \in Writers : [o EXCEPT !.by = w] \in Orphan
        BY DEF Orphan
      <3>2. \A o \in orphans : o \in Orphan /\ o.by \in Writers
        BY DEF TypeOK, Orphan
      <3>3. \A o \in orphans : (IF o.by = t THEN "gone" ELSE o.by) \in Writers
        BY <1>0, <3>2
      <3> QED BY <3>1, <3>2, <3>3
    <2>6. orphans' \subseteq Orphan
      BY <2>3, <2>4, <2>5 DEF Unload
    <2>7. /\ Idle \in Request /\ NoDialog \in [token: Nat, open: BOOLEAN]
          /\ [row |-> 0, pages |-> 0] \in [row: Nat, pages: Nat]
          /\ <<>> \in Seq(Save) /\ "idle" \in Statuses
      BY DEF Idle, Request, Phases, NoDialog, Statuses
    <2> QED BY <2>1, <2>2, <2>3, <2>6, <2>7 DEF TypeOK, Unload
  <1>5. ASSUME NEW t \in Tabs, Edit(t)
        PROVE  TypeOK'
    <2>1. /\ dirty' \in [Tabs -> BOOLEAN] /\ timer' \in [Tabs -> BOOLEAN]
          /\ chain' \in [Tabs -> Seq(Save)]
      BY <1>5, ChangedTyped DEF Edit
    <2>2. PICK e \in Edits \ made :
            /\ made' = made \union {e}
            /\ doc' = [doc EXCEPT ![t] = @ \union {e}]
      BY <1>5 DEF Edit
    <2>3. made' \subseteq Edits /\ doc' \in [Tabs -> SUBSET Edits]
      BY <2>2 DEF TypeOK
    <2> QED BY <1>5, <2>1, <2>3 DEF TypeOK, Edit
  <1>6. ASSUME NEW t \in Tabs, AutosaveHeld(t)
        PROVE  TypeOK'
    <2>1. kept' \in [Browsers -> SUBSET SUBSET Edits]
      BY <1>6, KeptTyped DEF TypeOK, AutosaveHeld
    <2> QED BY <1>6, <2>1 DEF TypeOK, AutosaveHeld, Statuses
  <1>7. ASSUME NEW t \in Tabs, AutosaveNotLoaded(t)
        PROVE  TypeOK'
    BY <1>7 DEF TypeOK, AutosaveNotLoaded, Statuses
  <1>8. ASSUME NEW t \in Tabs, Autosave(t)
        PROVE  TypeOK'
    <2>1. chain' \in [Tabs -> Seq(Save)] /\ flight' \in [Tabs -> Request]
      BY <1>8, EnqueueTyped DEF TypeOK, Autosave
    <2> QED BY <1>8, <2>1 DEF TypeOK, Autosave, Statuses
  <1>9. ASSUME NEW t \in Tabs, RetryFires(t)
        PROVE  TypeOK'
    <2>1. /\ dirty' \in [Tabs -> BOOLEAN] /\ timer' \in [Tabs -> BOOLEAN]
          /\ chain' \in [Tabs -> Seq(Save)]
      BY <1>9, ChangedTyped DEF RetryFires
    <2> QED BY <1>9, <2>1 DEF TypeOK, RetryFires
  <1>10. ASSUME NEW t \in Tabs, ManualSave(t)
        PROVE  TypeOK'
    <2>1. PICK d \in ShownBySave(t) :
            /\ Show(t, d) /\ Forsake("restored", doc[t] \ d)
            /\ Enqueue(t, "manual", d, base[t])
      BY <1>10 DEF ManualSave
    <2>2. d \in SUBSET Edits /\ doc[t] \ d \in SUBSET Edits
      BY KeptTyped DEF TypeOK
    <2>3. chain' \in [Tabs -> Seq(Save)] /\ flight' \in [Tabs -> Request]
      BY <2>1, <2>2, EnqueueTyped DEF TypeOK
    <2>4. forsaken' \in [Ways -> SUBSET Edits]
      BY <2>1, <2>2, ForsakeTyped DEF Ways
    <2>5. spent' \in [Rare -> Nat]
      BY <1>10, SpendTyped DEF ManualSave, Rare
    <2> QED BY <1>10, <2>1, <2>2, <2>3, <2>4, <2>5
            DEF TypeOK, ManualSave, Show, Statuses
  <1>11. ASSUME NEW t \in Tabs, ManualSaveHeld(t)
        PROVE  TypeOK'
    <2>1. PICK d \in ShownBySave(t) :
            Show(t, d) /\ Forsake("restored", doc[t] \ d)
      BY <1>11 DEF ManualSaveHeld
    <2>2. d \in SUBSET Edits /\ doc[t] \ d \in SUBSET Edits
      BY KeptTyped DEF TypeOK
    <2>3. forsaken' \in [Ways -> SUBSET Edits]
      BY <2>1, <2>2, ForsakeTyped DEF Ways
    <2>4. spent' \in [Rare -> Nat]
      BY <1>11, SpendTyped DEF ManualSaveHeld, Rare
    <2>5. /\ conflict' \in [Tabs -> Nat] /\ status' \in [Tabs -> Statuses]
          /\ dialog' \in [Tabs -> [token: Nat, open: BOOLEAN]]
      BY <1>11, RaiseTyped DEF TypeOK, ManualSaveHeld
    <2> QED BY <1>11, <2>1, <2>2, <2>3, <2>4, <2>5 DEF TypeOK, ManualSaveHeld, Show
  <1>12. ASSUME NEW t \in Tabs, ManualSaveNotLoaded(t)
        PROVE  TypeOK'
    <2>1. spent' \in [Rare -> Nat]
      BY <1>12, SpendTyped DEF ManualSaveNotLoaded, Rare
    <2> QED BY <1>12, <2>1 DEF TypeOK, ManualSaveNotLoaded, Statuses
  <1>13. ASSUME NEW t \in Tabs, Restore(t)
        PROVE  TypeOK'
    <2>1. PICK d \in kept[BrowserOf[t]] :
            Show(t, d) /\ Forsake("restored", doc[t] \ d)
      BY <1>13 DEF Restore
    <2>2. d \in SUBSET Edits /\ doc[t] \ d \in SUBSET Edits
      BY KeptTyped DEF TypeOK
    <2>3. forsaken' \in [Ways -> SUBSET Edits]
      BY <2>1, <2>2, ForsakeTyped DEF Ways
    <2>4. /\ dirty' \in [Tabs -> BOOLEAN] /\ timer' \in [Tabs -> BOOLEAN]
          /\ chain' \in [Tabs -> Seq(Save)]
      BY <1>13, ChangedTyped DEF Restore
    <2> QED BY <1>13, <2>1, <2>2, <2>3, <2>4 DEF TypeOK, Restore, Show, Statuses
  <1>14. ASSUME NEW t \in Tabs, NEW p \in Phases, NEW n \in Nat, Answer(t, p, n)
        PROVE  flight' \in [Tabs -> Request]
    <2>1. flight[t] \in Request
      BY DEF TypeOK
    <2>2. [flight[t] EXCEPT !.phase = p, !.token = n] \in Request
      BY <2>1 DEF Request
    <2>3. flight' = [flight EXCEPT ![t] = [flight[t] EXCEPT !.phase = p, !.token = n]]
      BY <1>14 DEF TypeOK, Answer
    <2> QED BY <2>2, <2>3 DEF TypeOK
  <1>15. ASSUME NEW t \in Tabs, SaveLands(t)
        PROVE  TypeOK'
    <2>1. Head(chain[t]).doc \in SUBSET Edits
      BY <1>0, <1>15, HeadTyped DEF OnlyWhenOpen, SaveLands
    <2>2. site' \in Seq(Version) /\ Len(site') > 0
      BY <1>0, <1>15, <2>1, Written DEF SaveLands
    <2>3. flight' \in [Tabs -> Request]
      BY <1>0, <1>14, <1>15 DEF SaveLands, Phases
    <2> QED BY <1>15, <2>2, <2>3 DEF TypeOK, SaveLands
  <1>16. ASSUME NEW t \in Tabs, SaveConflicts(t) \/ SaveRechecked(t)
        PROVE  TypeOK'
    <2>1. flight' \in [Tabs -> Request]
      BY <1>0, <1>14, <1>16 DEF TypeOK, SaveConflicts, SaveRechecked, Phases, Request
    <2> QED BY <1>16, <2>1 DEF TypeOK, SaveConflicts, SaveRechecked
  <1>17. ASSUME NEW t \in Tabs, SaveRefused(t)
        PROVE  TypeOK'
    <2>1. flight' \in [Tabs -> Request]
      BY <1>14, <1>17 DEF SaveRefused, Phases
    <2>2. spent' \in [Rare -> Nat]
      BY <1>17, SpendTyped DEF SaveRefused, Rare
    <2> QED BY <1>17, <2>1, <2>2 DEF TypeOK, SaveRefused
  <1>18. ASSUME NEW t \in Tabs, SaveOutran(t)
        PROVE  TypeOK'
    <2>1. Head(chain[t]).doc \in SUBSET Edits
      BY <1>0, <1>18, HeadTyped DEF OnlyWhenOpen, SaveOutran
    <2>2. site' \in Seq(Version) /\ Len(site') > 0
      <3>1. CASE Write(Head(chain[t]).doc, t)
        BY <1>0, <2>1, <3>1, Written
      <3>2. CASE UNCHANGED site
        BY <3>2 DEF TypeOK
      <3> QED BY <1>18, <3>1, <3>2 DEF SaveOutran
    <2>3. flight' \in [Tabs -> Request]
      BY <1>0, <1>14, <1>18 DEF SaveOutran, Phases
    <2>4. spent' \in [Rare -> Nat]
      BY <1>18, SpendTyped DEF SaveOutran, Rare
    <2> QED BY <1>18, <2>2, <2>3, <2>4 DEF TypeOK, SaveOutran
  <1>19. ASSUME NEW o \in orphans, OrphanLands(o)
        PROVE  TypeOK'
    <2>1. o.doc \in SUBSET Edits /\ o.by \in Writers
      BY DEF TypeOK, Orphan
    <2>2. site' \in Seq(Version) /\ Len(site') > 0
      BY <1>19, <2>1, Written DEF OrphanLands
    <2> QED BY <1>19, <2>2 DEF TypeOK, OrphanLands
  <1>20. ASSUME NEW o \in orphans, OrphanFails(o)
        PROVE  TypeOK'
    BY <1>20 DEF TypeOK, OrphanFails
  <1>21. ASSUME OutsideWrite
        PROVE  TypeOK'
    <2>1. site' \in Seq(Version) /\ Len(site') > 0
      BY <1>0, <1>21, VersionsTyped, Written DEF OutsideWrite
    <2>2. spent' \in [Rare -> Nat]
      BY <1>21, SpendTyped DEF OutsideWrite, Rare
    <2> QED BY <1>21, <2>1, <2>2 DEF TypeOK, OutsideWrite
  <1>22. ASSUME NEW t \in Tabs, OnSaved(t)
        PROVE  TypeOK'
    <2>1. chain[t] # <<>> /\ flight[t].token \in Nat
      BY <1>0, <1>22 DEF TypeOK, Request, OnlyWhenOpen, OnSaved
    <2>2. chain' \in [Tabs -> Seq(Save)] /\ flight' \in [Tabs -> Request]
      BY <1>22, <2>1, SettleTyped DEF OnSaved
    <2>3. base' \in [Tabs -> Nat]
      BY <1>22, <2>1 DEF TypeOK, OnSaved
    <2>4. CASE Announces(Head(chain[t]))
      <3>1. kept' \in [Browsers -> SUBSET SUBSET Edits]
        BY <1>22, <2>4, KeptTyped DEF OnSaved
      <3>2. /\ dirty' \in [Tabs -> BOOLEAN] /\ status' \in [Tabs -> Statuses]
            /\ retry' \in [Tabs -> BOOLEAN]
        <4>1. \A b \in BOOLEAN : [retry EXCEPT ![t] = b] \in [Tabs -> BOOLEAN]
          BY DEF TypeOK
        <4>2. (retry[t] /\ Head(chain[t]).kind = "manual") \in BOOLEAN
          OBVIOUS
        <4>3. retry' = [retry EXCEPT ![t] = retry[t] /\ Head(chain[t]).kind = "manual"]
          BY <1>22, <2>4 DEF OnSaved
        <4> QED BY <1>22, <2>4, <4>1, <4>2, <4>3 DEF TypeOK, OnSaved, Statuses
      <3> QED BY <1>22, <2>2, <2>3, <3>1, <3>2 DEF TypeOK, OnSaved
    <2>5. CASE ~Announces(Head(chain[t]))
      BY <1>22, <2>2, <2>3, <2>5 DEF TypeOK, OnSaved
    <2> QED BY <2>4, <2>5
  <1>23. ASSUME NEW t \in Tabs, OnConflict(t)
        PROVE  TypeOK'
    <2>1. /\ conflict' \in [Tabs -> Nat] /\ status' \in [Tabs -> Statuses]
          /\ dialog' \in [Tabs -> [token: Nat, open: BOOLEAN]]
      BY <1>23, RaiseTyped DEF TypeOK, Request, OnConflict
    <2>2. <<>> \in Seq(Save) /\ Idle \in Request
      BY DEF Idle, Request, Phases
    <2>3. dirty' \in [Tabs -> BOOLEAN]
      <3>1. \A b \in BOOLEAN : [dirty EXCEPT ![t] = b] \in [Tabs -> BOOLEAN]
        BY DEF TypeOK
      <3> QED BY <1>23, <3>1 DEF OnConflict
    <2> QED BY <1>23, <2>1, <2>2, <2>3 DEF TypeOK, OnConflict
  <1>24. ASSUME NEW t \in Tabs, OnFailure(t)
        PROVE  TypeOK'
    <2>1. chain[t] # <<>>
      BY <1>0, <1>24 DEF OnlyWhenOpen, OnFailure
    <2>2. chain' \in [Tabs -> Seq(Save)] /\ flight' \in [Tabs -> Request]
      BY <1>24, <2>1, SettleTyped DEF TypeOK, OnFailure
    <2>3. retry' \in [Tabs -> BOOLEAN]
      <3>1. \A b \in BOOLEAN : [retry EXCEPT ![t] = b] \in [Tabs -> BOOLEAN]
        BY DEF TypeOK
      <3> QED BY <1>24, <3>1 DEF OnFailure
    <2> QED BY <1>24, <2>2, <2>3 DEF TypeOK, OnFailure, Statuses
  <1>25. ASSUME NEW t \in Tabs, OnUnauthorized(t)
        PROVE  TypeOK'
    <2>1. chain[t] # <<>>
      BY <1>0, <1>25 DEF OnlyWhenOpen, OnUnauthorized
    <2>2. chain' \in [Tabs -> Seq(Save)] /\ flight' \in [Tabs -> Request]
      BY <1>25, <2>1, SettleTyped DEF TypeOK, OnUnauthorized
    <2>3. kept' \in [Browsers -> SUBSET SUBSET Edits]
      BY <1>25, KeptTyped DEF TypeOK, OnUnauthorized
    <2> QED BY <1>25, <2>2, <2>3 DEF TypeOK, OnUnauthorized, Statuses
  <1>26. ASSUME NEW t \in Tabs, OnNetworkError(t)
        PROVE  TypeOK'
    <2>1. chain[t] # <<>>
      BY <1>0, <1>26 DEF OnlyWhenOpen, OnNetworkError
    <2>2. chain' \in [Tabs -> Seq(Save)] /\ flight' \in [Tabs -> Request]
      BY <1>26, <2>1, SettleTyped DEF TypeOK, OnNetworkError
    <2>3. kept' \in [Browsers -> SUBSET SUBSET Edits]
      BY <1>26, KeptTyped DEF TypeOK, OnNetworkError
    <2>4. spent' \in [Rare -> Nat]
      BY <1>26, SpendTyped DEF OnNetworkError, Rare
    <2>5. orphans' \subseteq Orphan
      <3>1. [doc |-> Head(chain[t]).doc, expected |-> flight[t].expected,
             by |-> t] \in Orphan
        BY <1>0, <2>1, HeadTyped DEF TypeOK, Orphan, Request
      <3> QED BY <1>26, <3>1 DEF TypeOK, OnNetworkError
    <2>6. dirty' \in [Tabs -> BOOLEAN] /\ retry' \in [Tabs -> BOOLEAN]
      <3>1. \A b \in BOOLEAN : /\ [retry EXCEPT ![t] = b] \in [Tabs -> BOOLEAN]
                              /\ [dirty EXCEPT ![t] = b] \in [Tabs -> BOOLEAN]
        BY DEF TypeOK
      <3> QED BY <1>26, <3>1 DEF OnNetworkError
    <2> QED BY <1>26, <2>2, <2>3, <2>4, <2>5, <2>6 DEF TypeOK, OnNetworkError, Statuses
  <1>27. ASSUME NEW t \in Tabs, Dismiss(t)
        PROVE  TypeOK'
    BY <1>27 DEF TypeOK, Dismiss
  <1>28. ASSUME NEW t \in Tabs, Reopen(t)
        PROVE  TypeOK'
    <2>1. CASE Raise(t, conflict[t])
      <3>1. /\ conflict' \in [Tabs -> Nat] /\ status' \in [Tabs -> Statuses]
            /\ dialog' \in [Tabs -> [token: Nat, open: BOOLEAN]]
        BY <2>1, RaiseTyped DEF TypeOK
      <3> QED BY <1>28, <3>1 DEF TypeOK, Reopen
    <2>2. CASE /\ dialog' = [dialog EXCEPT ![t].open = TRUE]
               /\ UNCHANGED <<conflict, status>>
      BY <1>28, <2>2 DEF TypeOK, Reopen
    <2> QED BY <1>28, <2>1, <2>2 DEF Reopen
  <1>29. ASSUME NEW t \in Tabs, Overwrite(t)
        PROVE  TypeOK'
    <2> DEFINE token == dialog[t].token
    <2>1. PICK d \in ShownBySave(t) :
            /\ Show(t, d) /\ Enqueue(t, "manual", d, token)
            /\ forsaken' = [forsaken EXCEPT
                  !["overwrite"] = @ \union LeftOut(t, token, d),
                  !["restored"] = @ \union (doc[t] \ d)]
      BY <1>29 DEF Overwrite
    <2>2. d \in SUBSET Edits /\ doc[t] \ d \in SUBSET Edits /\ token \in Nat
      BY KeptTyped DEF TypeOK
    <2>3. LeftOut(t, token, d) \in SUBSET Edits
      <3>1. token \in DOMAIN site
        BY <1>0, <1>29 DEF OnlyWhenOpen, TokensName, Overwrite
      <3> QED BY <3>1, VersionsTyped DEF LeftOut
    <2>4. chain' \in [Tabs -> Seq(Save)] /\ flight' \in [Tabs -> Request]
      BY <2>1, <2>2, EnqueueTyped
    <2>5. forsaken' \in [Ways -> SUBSET Edits]
      BY <2>1, <2>2, <2>3 DEF TypeOK, Ways
    <2>6. NoDialog \in [token: Nat, open: BOOLEAN]
      BY DEF NoDialog
    <2> QED BY <1>29, <2>1, <2>2, <2>4, <2>5, <2>6 DEF TypeOK, Overwrite, Show, Statuses
  <1>30. ASSUME NEW t \in Tabs, PublishSends(t)
        PROVE  TypeOK'
    <2>1. spent' \in [Rare -> Nat]
      BY <1>30, SpendTyped DEF PublishSends, Rare
    <2> QED BY <1>30, <2>1 DEF TypeOK, PublishSends
  <1>31. ASSUME NEW t \in Tabs, PublishRefused(t)
        PROVE  TypeOK'
    <2>1. /\ conflict' \in [Tabs -> Nat] /\ status' \in [Tabs -> Statuses]
          /\ dialog' \in [Tabs -> [token: Nat, open: BOOLEAN]]
      BY <1>0, <1>31, RaiseTyped DEF PublishRefused
    <2> QED BY <1>31, <2>1 DEF TypeOK, PublishRefused
  <1>32. ASSUME NEW t \in Tabs, PublishAccepted(t)
        PROVE  TypeOK'
    BY <1>32 DEF TypeOK, PublishAccepted
  <1>33. CASE UNCHANGED vars
    BY <1>33 DEF TypeOK, vars
  <1> QED
    BY <1>1, <1>2, <1>3, <1>4, <1>5, <1>6, <1>7, <1>8, <1>9, <1>10, <1>11,
       <1>12, <1>13, <1>15, <1>16, <1>17, <1>18, <1>19, <1>20, <1>21, <1>22,
       <1>23, <1>24, <1>25, <1>26, <1>27, <1>28, <1>29, <1>30, <1>31, <1>32,
       <1>33 DEF Next, User, Tab, Fires, Answered, Runs

-----------------------------------------------------------------------------
(* Every step keeps the saves covering what they replace.                  *)

\* How the request in flight and the chain's first save go together, after a
\* save joined the chain, after the first one was settled, after a change.
LEMMA EnqueueLinks ==
  ASSUME TypeOK, NEW t \in Tabs, NEW kind \in {"auto", "manual"},
         NEW d \in SUBSET Edits, NEW b \in Nat, Enqueue(t, kind, d, b),
         OnlyWhenOpen(t)
  PROVE  /\ chain'[t] # <<>> /\ flight'[t].phase # "idle"
         /\ flight'[t].phase # "sent" =>
              flight'[t] = flight[t] /\ Head(chain'[t]) = Head(chain[t])
  <1> DEFINE c == chain[t]
             s == [doc |-> d, kind |-> kind, newest |-> TRUE]
  <1>1. c \in Seq(Save) /\ s \in Save
    BY DEF TypeOK, Save
  <1>2. chain'[t] = Append(c, s) /\ flight'[t] = IF c = <<>> THEN Sent(b) ELSE flight[t]
    BY DEF TypeOK, Enqueue
  <1>3. c # <<>> => flight[t].phase # "idle"
    BY DEF OnlyWhenOpen
  <1> HIDE DEF c, s
  <1>4. Append(c, s) # <<>> /\ (c # <<>> => Head(Append(c, s)) = Head(c))
    BY <1>1, QueuedSave
  <1>5. CASE c = <<>>
    BY <1>2, <1>4, <1>5 DEF Sent
  <1>6. CASE c # <<>>
    BY <1>2, <1>3, <1>4, <1>6 DEF c
  <1> QED BY <1>5, <1>6

\* After the first save is settled the chain is empty exactly when no request
\* is out, and no request of the next one has been answered.
LEMMA SettleLinks ==
  ASSUME TypeOK, NEW t \in Tabs, chain[t] # <<>>, NEW b \in Nat, Settle(t, b)
  PROVE  /\ chain'[t] = <<>> <=> flight'[t].phase = "idle"
         /\ flight'[t].phase \in {"idle", "sent", "held"}
         /\ flight'[t].phase = "held" =>
              conflict[t] # 0 /\ flight'[t].token = conflict[t]
  <1>1. Len(chain[t]) = 1 <=> Tail(chain[t]) = <<>>
    BY SettledSave DEF TypeOK
  <1>2. /\ chain'[t] = Tail(chain[t])
        /\ flight'[t] = IF Len(chain[t]) = 1 THEN Idle
                        ELSE IF conflict[t] = 0 THEN Sent(b)
                        ELSE [phase |-> "held", expected |-> 0, token |-> conflict[t]]
    BY DEF TypeOK, Settle
  <1> QED BY <1>1, <1>2 DEF Idle, Sent

\* A change leaves the copies in the chain as they are.
LEMMA ChangedLinks ==
  ASSUME TypeOK, NEW t \in Tabs, Changed(t)
  PROVE  /\ chain'[t] = <<>> <=> chain[t] = <<>>
         /\ chain[t] # <<>> => Head(chain'[t]).doc = Head(chain[t]).doc
  <1>1. chain'[t] = Outdated(chain[t]) /\ chain[t] \in Seq(Save)
    BY DEF TypeOK, Changed
  <1>2. /\ Outdated(chain[t]) \in Seq(Save) /\ DOMAIN Outdated(chain[t]) = DOMAIN chain[t]
        /\ \A i \in DOMAIN chain[t] : Outdated(chain[t])[i].doc = chain[t][i].doc
        /\ chain[t] = <<>> <=> Outdated(chain[t]) = <<>>
    BY <1>1, OutdatedSaves
  <1>3. chain[t] # <<>> =>
          /\ Head(Outdated(chain[t])) = Outdated(chain[t])[1]
          /\ Head(chain[t]) = chain[t][1] /\ 1 \in DOMAIN chain[t]
    BY <1>1, <1>2, SettledSave
  <1> QED BY <1>1, <1>2, <1>3

\* The three ways in which a step lets the history grow, or not.
LEMMA GrownUnchanged ==
  ASSUME TypeOK, UNCHANGED <<site, forsaken>>
  PROVE  Grown
  BY VersionsTyped DEF Grown, Forsaken

\* A write adds a version and leaves the history alone.
LEMMA GrownByWrite ==
  ASSUME TypeOK, NEW d \in SUBSET Edits, NEW w \in Writers, Write(d, w),
         UNCHANGED forsaken
  PROVE  Grown
  <1>1. Forsaken' = Forsaken
    BY DEF Forsaken
  <1>2. /\ Len(site') = Len(site) + 1 /\ Len(site) \in Nat
        /\ \A v \in DOMAIN site : site'[v] = site[v]
        /\ DOMAIN site = 1..Len(site) /\ DOMAIN site' = 1..Len(site) + 1
    BY WriteTyped
  <1> QED BY <1>1, <1>2 DEF Grown

\* The history grows by the edits left out, and the versions stay.
LEMMA GrownByForsake ==
  ASSUME TypeOK, NEW w \in Ways, NEW edits \in SUBSET Edits, Forsake(w, edits),
         UNCHANGED site
  PROVE  Grown /\ edits \subseteq Forsaken'
  <1>1. Forsaken \union edits \subseteq Forsaken'
    BY ForsakeTyped
  <1> QED BY <1>1, VersionsTyped DEF Grown

\* A step about one tab.
LEMMA StepOfTab ==
  ASSUME SavesCover, Grown, OrphansCover', NEW t \in Tabs, TabInv(t)',
         \A u \in Tabs \ {t} : Untouched(u)
  PROVE  SavesCover'
  <1>1. \A u \in Tabs \ {t} : TabInv(u)'
    BY UntouchedTab DEF SavesCover, TabInv
  <1> QED BY <1>1 DEF SavesCover, TabInv

\* A step about no tab's saves.
LEMMA StepOfNoTab ==
  ASSUME SavesCover, Grown, OrphansCover', \A u \in Tabs : Untouched(u)
  PROVE  SavesCover'
  <1>1. \A u \in Tabs : TabInv(u)'
    BY UntouchedTab DEF SavesCover, TabInv
  <1> QED BY <1>1 DEF SavesCover, TabInv

\* The requests nobody waits for go on covering what they would replace.
LEMMA OrphansStay ==
  ASSUME SavesCover, Grown, orphans' \subseteq orphans
  PROVE  OrphansCover'
  <1>1. \A o \in orphans' : CoversNext(o.doc, o.expected)
    BY CoversStays DEF SavesCover, OrphansCover
  <1> QED BY <1>1 DEF OrphansCover, Covers, CoversNext

\* A step that leaves the tab's copies alone, whatever it does to its tokens.
LEMMA CopiesStay ==
  ASSUME Grown, NEW t \in Tabs, CopiesCover(t), life'[t] = life[t],
         doc'[t] = doc[t], base'[t] = base[t], chain'[t] = chain[t],
         flight'[t].phase = "sent" => flight'[t] = flight[t]
  PROVE  CopiesCover(t)'
  <1>1. /\ life'[t] = "open" => CoversNext(doc[t], base[t])
        /\ flight'[t].phase = "sent" => CoversNext(Head(chain[t]).doc, flight[t].expected)
        /\ \A i \in DOMAIN chain[t] : CoversNext(chain[t][i].doc, base[t])
    BY CoversStays DEF CopiesCover
  <1>2. \A i \in DOMAIN chain[t] :
          /\ chain[t][i].doc \subseteq doc[t] \union Forsaken'
          /\ \A j \in DOMAIN chain[t] : i < j =>
               chain[t][i].doc \subseteq chain[t][j].doc \union Forsaken'
    BY DEF CopiesCover, Grown
  <1> QED BY <1>1, <1>2 DEF CopiesCover, Covers, CoversNext

\* The screen is replaced by a copy that accounts for what it leaves out.
LEMMA DocReplaced ==
  ASSUME Grown, NEW t \in Tabs, CopiesCover(t), NEW d, doc'[t] = d,
         doc[t] \ d \subseteq Forsaken', life'[t] = life[t], base'[t] = base[t],
         chain'[t] = chain[t], flight'[t] = flight[t]
  PROVE  CopiesCover(t)'
  <1>1. life[t] = "open" => CoversNext(d, base[t])
    BY DEF CopiesCover, Covers, CoversNext, Grown
  <1>2. /\ flight[t].phase = "sent" => CoversNext(Head(chain[t]).doc, flight[t].expected)
        /\ \A i \in DOMAIN chain[t] : CoversNext(chain[t][i].doc, base[t])
    BY CoversStays DEF CopiesCover
  <1>3. \A i \in DOMAIN chain[t] :
          /\ chain[t][i].doc \subseteq d \union Forsaken'
          /\ \A j \in DOMAIN chain[t] : i < j =>
               chain[t][i].doc \subseteq chain[t][j].doc \union Forsaken'
    BY DEF CopiesCover, Grown
  <1> QED BY <1>1, <1>2, <1>3 DEF CopiesCover, Covers, CoversNext

\* What an answer changes: the request's phase and token.
LEMMA AnswerIs ==
  ASSUME TypeOK, NEW t \in Tabs, NEW phase, NEW token, Answer(t, phase, token)
  PROVE  /\ flight'[t].phase = phase /\ flight'[t].token = token
         /\ flight'[t].expected = flight[t].expected
         /\ \A u \in Tabs \ {t} : flight'[u] = flight[u]
  <1>1. flight[t] \in Request
    BY DEF TypeOK
  <1>2. flight'[t] = [[flight[t] EXCEPT !.phase = phase] EXCEPT !.token = token]
    BY DEF TypeOK, Answer
  <1>3. flight'[t].phase = phase /\ flight'[t].token = token
        /\ flight'[t].expected = flight[t].expected
    BY <1>1, <1>2 DEF Request
  <1>4. \A u \in Tabs \ {t} : flight'[u] = flight[u]
    BY DEF TypeOK, Answer
  <1> QED BY <1>3, <1>4

\* Every step keeps the copies covered.
LEMMA CoverStep ==
  ASSUME TypeOK, SavesCover, [Next]_vars
  PROVE  SavesCover'
  <1> USE DEF serverVars, loadVars, saveVars, dialogVars, uiVars, keptVars,
              ghostVars, tabVars
  <1>0. \A t \in Tabs : CopiesCover(t) /\ TokensName(t) /\ OnlyWhenOpen(t)
    BY DEF SavesCover
  <1>a. Len(site) \in Nat \ {0} /\ DOMAIN site = 1..Len(site) /\ Token = Len(site)
    BY VersionsTyped DEF Token
  <1>b. \A t \in Tabs : life[t] # "open" =>
          /\ chain[t] = <<>> /\ flight[t].phase = "idle" /\ publish[t] = 0
          /\ conflict[t] = 0 /\ ~dialog[t].open
    BY <1>0 DEF OnlyWhenOpen
  <1>1. ASSUME NEW t \in Tabs, ReadRow(t) \/ ReadPages(t)
        PROVE  SavesCover'
    <2>g. Grown /\ OrphansCover'
      BY <1>1, GrownUnchanged, OrphansStay DEF ReadRow, ReadPages
    <2>o. \A u \in Tabs \ {t} : Untouched(u)
      BY <1>1 DEF TypeOK, Untouched, ReadRow, ReadPages
    <2>c. CopiesCover(t)'
      BY <1>0, <1>1, <2>g, CopiesStay DEF ReadRow, ReadPages
    <2>1. UNCHANGED <<site, chain, flight, conflict, dialog>>
      BY <1>1 DEF ReadRow, ReadPages
    <2>2. read'[t].row \in 0..Len(site) /\ read'[t].pages \in 0..Len(site)
      <3>1. read[t].row \in 0..Len(site) /\ read[t].pages \in 0..Len(site)
        BY <1>0 DEF TokensName
      <3>2. CASE ReadRow(t)
        BY <1>a, <3>1, <3>2 DEF TypeOK, ReadRow
      <3>3. CASE ReadPages(t)
        BY <1>a, <3>1, <3>3 DEF TypeOK, ReadPages
      <3> QED BY <1>1, <3>2, <3>3
    <2>t. TokensName(t)'
      BY <1>0, <2>1, <2>2 DEF TokensName
    <2>w. OnlyWhenOpen(t)'
      BY <1>0, <1>1 DEF OnlyWhenOpen, ReadRow, ReadPages
    <2> QED BY <2>g, <2>o, <2>c, <2>t, <2>w, StepOfTab DEF TabInv
  <1>2. ASSUME NEW t \in Tabs, Loaded(t)
        PROVE  SavesCover'
    <2>1. read[t].row \in DOMAIN site /\ read[t].pages \in DOMAIN site
      BY <1>0, <1>2, <1>a DEF TypeOK, TokensName, Loaded
    <2>2. Grown /\ site[read[t].row].doc \ site[read[t].pages].doc \subseteq Forsaken'
      <3>1. /\ Forsake("torn", site[read[t].row].doc \ site[read[t].pages].doc)
            /\ UNCHANGED site
        BY <1>2 DEF Loaded
      <3>2. site[read[t].row].doc \ site[read[t].pages].doc \in SUBSET Edits
        BY <2>1, VersionsTyped
      <3> QED BY <3>1, <3>2, GrownByForsake DEF Ways
    <2>g. Grown /\ OrphansCover'
      BY <1>2, <2>2, OrphansStay DEF Loaded
    <2>o. \A u \in Tabs \ {t} : Untouched(u)
      BY <1>2 DEF TypeOK, Untouched, Loaded
    <2>3. /\ life[t] = "loading" /\ chain'[t] = <<>> /\ flight'[t].phase = "idle"
          /\ publish'[t] = 0 /\ conflict'[t] = 0 /\ ~dialog'[t].open
          /\ doc'[t] = site[read[t].pages].doc /\ base'[t] = read[t].row
          /\ site' = site /\ life'[t] = "open" /\ read' = read
      BY <1>2, <1>b DEF TypeOK, Loaded
    <2>c. CopiesCover(t)'
      <3>1. Covers(doc[t], base[t])'
        BY <2>1, <2>2, <2>3 DEF Covers
      <3> QED BY <2>3, <3>1 DEF CopiesCover
    <2>t. TokensName(t)'
      BY <1>0, <2>3 DEF TokensName
    <2>w. OnlyWhenOpen(t)'
      BY <2>3 DEF OnlyWhenOpen
    <2> QED BY <2>g, <2>o, <2>c, <2>t, <2>w, StepOfTab DEF TabInv
  <1>3. ASSUME NEW t \in Tabs, LoadFails(t)
        PROVE  SavesCover'
    <2>g. Grown /\ OrphansCover'
      BY <1>3, GrownUnchanged, OrphansStay DEF LoadFails
    <2>o. \A u \in Tabs \ {t} : Untouched(u)
      BY <1>3 DEF TypeOK, Untouched, LoadFails
    <2>1. /\ life[t] = "loading" /\ chain'[t] = <<>> /\ flight'[t].phase = "idle"
          /\ publish'[t] = 0 /\ conflict'[t] = 0 /\ ~dialog'[t].open
          /\ life'[t] = "failed" /\ site' = site /\ read' = read
      BY <1>3, <1>b DEF TypeOK, LoadFails
    <2>c. CopiesCover(t)'
      BY <2>1 DEF CopiesCover
    <2>t. TokensName(t)'
      BY <1>0, <2>1 DEF TokensName
    <2>w. OnlyWhenOpen(t)'
      BY <2>1 DEF OnlyWhenOpen
    <2> QED BY <2>g, <2>o, <2>c, <2>t, <2>w, StepOfTab DEF TabInv
  <1>4. ASSUME NEW t \in Tabs, Reload(t) \/ ReloadLatest(t)
        PROVE  SavesCover'
    <2>1. Unload(t)
      BY <1>4 DEF Reload, ReloadLatest
    <2>2. Grown
      BY <2>1, GrownUnchanged DEF Unload
    <2>3. OrphansCover'
      <3>1. \A o \in orphans : Covers(o.doc, o.expected)
        BY DEF SavesCover, OrphansCover
      <3>2. \A o \in orphans : LET n == [o EXCEPT !.by = IF @ = t THEN "gone" ELSE @]
                             IN  CoversNext(n.doc, n.expected)
        <4>1. \A o \in orphans : LET n == [o EXCEPT !.by = IF @ = t THEN "gone" ELSE @]
                               IN  n.doc = o.doc /\ n.expected = o.expected
          BY DEF TypeOK, Orphan
        <4> QED BY <2>2, <3>1, <4>1, CoversStays
      <3>3. flight[t].phase = "sent" =>
              CoversNext(Head(chain[t]).doc, flight[t].expected)
        BY <1>0, <2>2, CoversStays DEF CopiesCover
      <3>4. ASSUME NEW n \in orphans'
            PROVE  CoversNext(n.doc, n.expected)
        <4>1. CASE n \in {[o EXCEPT !.by = IF @ = t THEN "gone" ELSE @] : o \in orphans}
          BY <3>2, <4>1
        <4>2. CASE /\ flight[t].phase = "sent"
                   /\ n = [doc |-> Head(chain[t]).doc,
                           expected |-> flight[t].expected, by |-> "gone"]
          BY <3>3, <4>2
        <4> QED BY <2>1, <4>1, <4>2 DEF Unload
      <3> QED BY <3>4 DEF OrphansCover, Covers, CoversNext
    <2>g. Grown /\ OrphansCover'
      BY <2>2, <2>3
    <2>o. \A u \in Tabs \ {t} : Untouched(u)
      BY <2>1 DEF TypeOK, Untouched, Unload
    <2>4. /\ life'[t] = "loading" /\ chain'[t] = <<>> /\ flight'[t] = Idle
          /\ publish'[t] = 0 /\ conflict'[t] = 0 /\ dialog'[t] = NoDialog
          /\ read'[t] = [row |-> 0, pages |-> 0] /\ site' = site
      BY <2>1 DEF TypeOK, Unload
    <2>c. CopiesCover(t)'
      BY <2>4 DEF CopiesCover, Idle
    <2>t. TokensName(t)'
      BY <1>a, <2>4 DEF TokensName, Idle
    <2>w. OnlyWhenOpen(t)'
      BY <2>4 DEF OnlyWhenOpen, Idle, NoDialog
    <2> QED BY <2>g, <2>o, <2>c, <2>t, <2>w, StepOfTab DEF TabInv
  <1>5. ASSUME NEW t \in Tabs, Edit(t) \/ RetryFires(t)
        PROVE  SavesCover'
    <2>g. Grown /\ OrphansCover'
      BY <1>5, GrownUnchanged, OrphansStay DEF Edit, RetryFires, ghostVars
    <2>o. \A u \in Tabs \ {t} : Untouched(u)
      BY <1>5 DEF TypeOK, Untouched, Edit, RetryFires, Changed
    <2>1. Changed(t) /\ doc[t] \subseteq doc'[t]
      BY <1>5 DEF TypeOK, Edit, RetryFires
    <2>c. CopiesCover(t)'
      BY <1>0, <1>5, <2>1, <2>g, ChangedCovers DEF Edit, RetryFires
    <2>2. UNCHANGED <<site, life, read, flight, conflict, dialog, publish>>
      BY <1>5 DEF Edit, RetryFires
    <2>t. TokensName(t)'
      BY <1>0, <2>1, <2>2, ChangedLinks DEF TokensName, OnlyWhenOpen
    <2>w. OnlyWhenOpen(t)'
      BY <1>0, <2>1, <2>2, ChangedLinks DEF OnlyWhenOpen
    <2> QED BY <2>g, <2>o, <2>c, <2>t, <2>w, StepOfTab DEF TabInv
  <1>6. ASSUME NEW t \in Tabs, AutosaveHeld(t) \/ AutosaveNotLoaded(t) \/ ManualSaveNotLoaded(t)
        PROVE  SavesCover'
    <2>1. UNCHANGED <<site, forsaken, orphans, life, read, doc, base, chain, flight,
                      conflict, dialog, publish>>
      BY <1>6 DEF AutosaveHeld, AutosaveNotLoaded, ManualSaveNotLoaded
    <2>2. Grown /\ OrphansCover' /\ \A u \in Tabs : Untouched(u)
      BY <2>1, GrownUnchanged, OrphansStay DEF Untouched
    <2> QED BY <2>2, StepOfNoTab
  <1>7. ASSUME NEW t \in Tabs, Autosave(t)
        PROVE  SavesCover'
    <2>g. Grown /\ OrphansCover'
      BY <1>7, GrownUnchanged, OrphansStay DEF Autosave
    <2>o. \A u \in Tabs \ {t} : Untouched(u)
      BY <1>7 DEF TypeOK, Untouched, Autosave, Enqueue
    <2>1. /\ Enqueue(t, "auto", doc[t], base[t])
          /\ doc[t] \in SUBSET Edits /\ base[t] \in Nat /\ life[t] = "open"
          /\ UNCHANGED <<site, life, read, doc, base, conflict, dialog, publish>>
      BY <1>7 DEF TypeOK, Autosave
    <2>c. CopiesCover(t)'
      <3>1. CoversNext(doc[t], base[t])
        BY <1>0, <2>1, <2>g, CoversStays DEF CopiesCover
      <3>2. \A i \in DOMAIN chain[t] :
              /\ CoversNext(chain[t][i].doc, base[t])
              /\ chain[t][i].doc \subseteq doc[t] \union Forsaken'
        BY <1>0, <2>g, CoversStays DEF CopiesCover, Grown
      <3> QED BY <1>0, <2>1, <2>g, <3>1, <3>2, EnqueueCovers
    <2>2. /\ chain'[t] # <<>> /\ flight'[t].phase # "idle"
          /\ flight'[t].phase # "sent" =>
               flight'[t] = flight[t] /\ Head(chain'[t]) = Head(chain[t])
      BY <1>0, <2>1, EnqueueLinks
    <2>t. TokensName(t)'
      BY <1>0, <2>1, <2>2 DEF TokensName
    <2>w. OnlyWhenOpen(t)'
      BY <1>0, <2>1, <2>2 DEF OnlyWhenOpen
    <2> QED BY <2>g, <2>o, <2>c, <2>t, <2>w, StepOfTab DEF TabInv
  <1>8. ASSUME NEW t \in Tabs, ManualSave(t)
        PROVE  SavesCover'
    <2>1. PICK d \in ShownBySave(t) :
            /\ Show(t, d) /\ Forsake("restored", doc[t] \ d)
            /\ Enqueue(t, "manual", d, base[t])
      BY <1>8 DEF ManualSave
    <2>2. d \in SUBSET Edits /\ doc[t] \ d \in SUBSET Edits /\ base[t] \in Nat
      BY KeptTyped DEF TypeOK
    <2>3. Grown /\ doc[t] \ d \subseteq Forsaken'
      BY <1>8, <2>1, <2>2, GrownByForsake DEF ManualSave, Ways
    <2>g. Grown /\ OrphansCover'
      BY <1>8, <2>3, OrphansStay DEF ManualSave
    <2>o. \A u \in Tabs \ {t} : Untouched(u)
      BY <1>8, <2>1 DEF TypeOK, Untouched, ManualSave, Enqueue, Show
    <2>4. /\ doc'[t] = d /\ life[t] = "open"
          /\ UNCHANGED <<site, life, read, base, conflict, dialog, publish>>
      BY <1>8, <2>1 DEF TypeOK, ManualSave, Show
    <2>c. CopiesCover(t)'
      <3>1. CoversNext(d, base[t])
        BY <1>0, <2>3, <2>4 DEF CopiesCover, Covers, CoversNext, Grown
      <3>2. \A i \in DOMAIN chain[t] :
              /\ CoversNext(chain[t][i].doc, base[t])
              /\ chain[t][i].doc \subseteq d \union Forsaken'
        BY <1>0, <2>3, CoversStays DEF CopiesCover, Grown
      <3> QED BY <1>0, <2>1, <2>2, <2>3, <2>4, <3>1, <3>2, EnqueueCovers
    <2>5. /\ chain'[t] # <<>> /\ flight'[t].phase # "idle"
          /\ flight'[t].phase # "sent" =>
               flight'[t] = flight[t] /\ Head(chain'[t]) = Head(chain[t])
      BY <1>0, <2>1, <2>2, EnqueueLinks
    <2>t. TokensName(t)'
      BY <1>0, <2>4, <2>5 DEF TokensName
    <2>w. OnlyWhenOpen(t)'
      BY <1>0, <2>4, <2>5 DEF OnlyWhenOpen
    <2> QED BY <2>g, <2>o, <2>c, <2>t, <2>w, StepOfTab DEF TabInv
  <1>9. ASSUME NEW t \in Tabs, ManualSaveHeld(t)
        PROVE  SavesCover'
    <2>1. PICK d \in ShownBySave(t) :
            Show(t, d) /\ Forsake("restored", doc[t] \ d)
      BY <1>9 DEF ManualSaveHeld
    <2>2. doc[t] \ d \in SUBSET Edits
      BY DEF TypeOK
    <2>3. Grown /\ doc[t] \ d \subseteq Forsaken'
      BY <1>9, <2>1, <2>2, GrownByForsake DEF ManualSaveHeld, Ways
    <2>g. Grown /\ OrphansCover'
      BY <1>9, <2>3, OrphansStay DEF ManualSaveHeld
    <2>o. \A u \in Tabs \ {t} : Untouched(u)
      BY <1>9, <2>1 DEF TypeOK, Untouched, ManualSaveHeld, Raise, Show
    <2>4. /\ doc'[t] = d /\ life[t] = "open" /\ conflict[t] # 0
          /\ UNCHANGED <<site, life, read, base, chain, flight, publish>>
          /\ conflict'[t] = conflict[t] /\ dialog'[t].token = conflict[t]
      BY <1>9, <2>1 DEF TypeOK, ManualSaveHeld, Editing, Show, Raise
    <2>c. CopiesCover(t)'
      BY <1>0, <2>3, <2>4, DocReplaced
    <2>t. TokensName(t)'
      BY <1>0, <2>4 DEF TokensName
    <2>w. OnlyWhenOpen(t)'
      BY <1>0, <2>4 DEF OnlyWhenOpen
    <2> QED BY <2>g, <2>o, <2>c, <2>t, <2>w, StepOfTab DEF TabInv
  <1>10. ASSUME NEW t \in Tabs, Restore(t)
        PROVE  SavesCover'
    <2>1. PICK d \in kept[BrowserOf[t]] :
            Show(t, d) /\ Forsake("restored", doc[t] \ d)
      BY <1>10 DEF Restore
    <2>2. doc[t] \ d \in SUBSET Edits
      BY DEF TypeOK
    <2>3. Grown /\ doc[t] \ d \subseteq Forsaken'
      BY <1>10, <2>1, <2>2, GrownByForsake DEF Restore, Ways
    <2>g. Grown /\ OrphansCover'
      BY <1>10, <2>3, OrphansStay DEF Restore
    <2>o. \A u \in Tabs \ {t} : Untouched(u)
      BY <1>10, <2>1 DEF TypeOK, Untouched, Restore, Changed, Show
    <2>4. /\ Changed(t) /\ doc'[t] = d
          /\ UNCHANGED <<site, life, read, base, flight, conflict, dialog, publish>>
      BY <1>10, <2>1 DEF TypeOK, Restore, Show
    <2>5. doc[t] \subseteq doc'[t] \union Forsaken'
      BY <2>3, <2>4
    <2>c. CopiesCover(t)'
      BY <1>0, <2>3, <2>4, <2>5, ChangedCovers
    <2>t. TokensName(t)'
      BY <1>0, <2>4, ChangedLinks DEF TokensName, OnlyWhenOpen
    <2>w. OnlyWhenOpen(t)'
      BY <1>0, <2>4, ChangedLinks DEF OnlyWhenOpen
    <2> QED BY <2>g, <2>o, <2>c, <2>t, <2>w, StepOfTab DEF TabInv
  <1>11. ASSUME NEW t \in Tabs, SaveLands(t)
        PROVE  SavesCover'
    <2>1. /\ chain[t] # <<>> /\ Head(chain[t]).doc \in SUBSET Edits /\ t \in Writers
      BY <1>0, <1>11, HeadTyped DEF OnlyWhenOpen, SaveLands, Writers
    <2>g. Grown /\ OrphansCover'
      BY <1>11, <2>1, GrownByWrite, OrphansStay DEF SaveLands
    <2>o. \A u \in Tabs \ {t} : Untouched(u)
      BY <1>11 DEF TypeOK, Untouched, SaveLands, Answer
    <2>2. /\ flight'[t].phase = "ok" /\ flight'[t].token = Token + 1
          /\ UNCHANGED <<life, read, doc, base, chain, conflict, dialog, publish>>
      BY <1>11 DEF TypeOK, SaveLands, Answer
    <2>3. /\ site'[Token + 1].doc = Head(chain[t]).doc
          /\ Token + 1 \in DOMAIN site' /\ Len(site') = Len(site) + 1
      <3>1. Write(Head(chain[t]).doc, t)
        BY <1>11 DEF SaveLands
      <3>2. /\ site'[Len(site) + 1].doc = Head(chain[t]).doc
            /\ DOMAIN site' = 1..Len(site) + 1 /\ Len(site') = Len(site) + 1
        BY <2>1, <3>1, WriteTyped
      <3>3. Len(site) + 1 \in 1..Len(site) + 1
        BY <1>a
      <3> QED BY <3>2, <3>3 DEF Token
    <2>c. CopiesCover(t)'
      BY <1>0, <2>2, <2>g, CopiesStay
    <2>t. TokensName(t)'
      BY <1>0, <1>a, <2>2, <2>3, <2>g DEF TokensName, Grown
    <2>w. OnlyWhenOpen(t)'
      BY <1>0, <2>1, <2>2 DEF OnlyWhenOpen
    <2> QED BY <2>g, <2>o, <2>c, <2>t, <2>w, StepOfTab DEF TabInv
  <1>12. ASSUME NEW t \in Tabs, SaveConflicts(t) \/ SaveRefused(t) \/ SaveRechecked(t)
        PROVE  SavesCover'
    <2>g. Grown /\ OrphansCover'
      BY <1>12, GrownUnchanged, OrphansStay DEF SaveConflicts, SaveRefused, SaveRechecked
    <2>o. \A u \in Tabs \ {t} : Untouched(u)
      BY <1>12 DEF TypeOK, Untouched, SaveConflicts, SaveRefused, SaveRechecked, Answer
    <2>1. UNCHANGED <<site, life, read, doc, base, chain, conflict, dialog, publish>>
      BY <1>12 DEF SaveConflicts, SaveRefused, SaveRechecked
    <2>2. /\ flight'[t].phase \in {"conflict", "refused", "unauthorized", "ok", "timeout"}
          /\ flight'[t].phase = "conflict" => flight'[t].token = Token
          /\ flight'[t].phase = "ok" =>
               flight[t].phase = "unsure" /\ flight'[t].token = flight[t].token
               /\ flight[t].token = Token
          /\ flight[t].phase # "idle"
      <3>1. CASE SaveConflicts(t)
        BY <3>1, AnswerIs DEF SaveConflicts
      <3>2. CASE SaveRefused(t)
        <4>1. PICK answer \in {"refused", "unauthorized"} : Answer(t, answer, 0)
          BY <3>2 DEF SaveRefused
        <4>2. flight'[t].phase = answer
          BY <4>1, AnswerIs
        <4> QED BY <3>2, <4>2 DEF SaveRefused
      <3>3. CASE SaveRechecked(t)
        <4>1. CASE flight[t].token = Token
          <5>1. Answer(t, "ok", Token)
            BY <3>3, <4>1 DEF SaveRechecked
          <5> QED BY <3>3, <4>1, <5>1, AnswerIs DEF SaveRechecked
        <4>2. CASE flight[t].token # Token
          <5>1. Answer(t, "timeout", flight[t].token)
            BY <3>3, <4>2 DEF SaveRechecked
          <5> QED BY <3>3, <5>1, AnswerIs DEF SaveRechecked
        <4> QED BY <4>1, <4>2
      <3> QED BY <1>12, <3>1, <3>2, <3>3
    <2>c. CopiesCover(t)'
      BY <1>0, <2>1, <2>2, <2>g, CopiesStay
    <2>t. TokensName(t)'
      BY <1>0, <1>a, <2>1, <2>2 DEF TokensName
    <2>w. OnlyWhenOpen(t)'
      BY <1>0, <2>1, <2>2 DEF OnlyWhenOpen
    <2> QED BY <2>g, <2>o, <2>c, <2>t, <2>w, StepOfTab DEF TabInv
  <1>13. ASSUME NEW t \in Tabs, SaveOutran(t)
        PROVE  SavesCover'
    <2>1. /\ chain[t] # <<>> /\ Head(chain[t]).doc \in SUBSET Edits /\ t \in Writers
      BY <1>0, <1>13, HeadTyped DEF OnlyWhenOpen, SaveOutran, Writers
    <2>2. /\ flight'[t].phase = "unsure"
          /\ UNCHANGED <<life, read, doc, base, chain, conflict, dialog, publish,
                         forsaken, orphans>>
      <3>1. UNCHANGED <<life, read, doc, base, chain, conflict, dialog, publish,
                        forsaken, orphans>>
        BY <1>13 DEF SaveOutran
      <3>2. Answer(t, "unsure", Token + 1) \/ Answer(t, "unsure", 0)
        BY <1>13 DEF SaveOutran
      <3>3. flight'[t].phase = "unsure"
        BY <3>2, AnswerIs
      <3> QED BY <3>1, <3>3
    <2>3. /\ Grown
          /\ \/ flight'[t].token = 0
             \/ /\ flight'[t].token \in DOMAIN site'
                /\ site'[flight'[t].token].doc = Head(chain[t]).doc
      <3>1. CASE Write(Head(chain[t]).doc, t) /\ Answer(t, "unsure", Token + 1)
        <4>1. Grown
          BY <2>1, <2>2, <3>1, GrownByWrite
        <4>2. /\ site'[Token + 1].doc = Head(chain[t]).doc /\ Token + 1 \in DOMAIN site'
          <5>1. /\ site'[Len(site) + 1].doc = Head(chain[t]).doc
                /\ DOMAIN site' = 1..Len(site) + 1
            BY <2>1, <3>1, WriteTyped
          <5>2. Len(site) + 1 \in 1..Len(site) + 1
            BY <1>a
          <5> QED BY <5>1, <5>2 DEF Token
        <4>3. flight'[t].token = Token + 1
          BY <3>1, AnswerIs
        <4> QED BY <4>1, <4>2, <4>3
      <3>2. CASE Answer(t, "unsure", 0) /\ UNCHANGED site
        BY <2>2, <3>2, GrownUnchanged, AnswerIs
      <3> QED BY <1>13, <3>1, <3>2 DEF SaveOutran
    <2>g. Grown /\ OrphansCover'
      BY <2>2, <2>3, OrphansStay
    <2>o. \A u \in Tabs \ {t} : Untouched(u)
      BY <1>13 DEF TypeOK, Untouched, SaveOutran, Answer
    <2>c. CopiesCover(t)'
      BY <1>0, <2>2, <2>g, CopiesStay
    <2>t. TokensName(t)'
      BY <1>0, <1>a, <2>2, <2>3 DEF TokensName, Grown
    <2>w. OnlyWhenOpen(t)'
      BY <1>0, <2>1, <2>2 DEF OnlyWhenOpen
    <2> QED BY <2>g, <2>o, <2>c, <2>t, <2>w, StepOfTab DEF TabInv
  <1>14. ASSUME NEW o \in orphans, OrphanLands(o) \/ OrphanFails(o)
        PROVE  SavesCover'
    <2>1. Grown
      <3>1. o.doc \in SUBSET Edits /\ o.by \in Writers
        BY DEF TypeOK, Orphan
      <3> QED BY <1>14, <3>1, GrownByWrite, GrownUnchanged DEF OrphanLands, OrphanFails
    <2>2. orphans' \subseteq orphans /\ \A u \in Tabs : Untouched(u)
      BY <1>14 DEF OrphanLands, OrphanFails, Untouched
    <2> QED BY <2>1, <2>2, OrphansStay, StepOfNoTab
  <1>15. ASSUME OutsideWrite
        PROVE  SavesCover'
    <2>1. Grown
      BY <1>15, VersionsTyped, GrownByWrite DEF OutsideWrite, Writers
    <2>2. orphans' \subseteq orphans /\ \A u \in Tabs : Untouched(u)
      BY <1>15 DEF OutsideWrite, Untouched
    <2> QED BY <2>1, <2>2, OrphansStay, StepOfNoTab
  <1>16. ASSUME NEW t \in Tabs, OnSaved(t)
        PROVE  SavesCover'
    <2>g. Grown /\ OrphansCover'
      BY <1>16, GrownUnchanged, OrphansStay DEF OnSaved
    <2>o. \A u \in Tabs \ {t} : Untouched(u)
      BY <1>16 DEF TypeOK, Untouched, OnSaved, Settle
    <2>1. /\ chain[t] # <<>> /\ flight[t].token \in Nat /\ life[t] = "open"
          /\ Settle(t, flight[t].token) /\ base'[t] = flight[t].token
          /\ UNCHANGED <<site, life, read, doc, conflict, dialog, publish, forsaken>>
      BY <1>0, <1>16 DEF TypeOK, Request, OnlyWhenOpen, OnSaved
    <2>2. /\ flight[t].token \in DOMAIN site
          /\ site[flight[t].token].doc = Head(chain[t]).doc
      BY <1>0, <1>16 DEF TokensName, OnSaved
    <2>c. CopiesCover(t)'
      <3>1. chain[t] \in Seq(Save)
        BY DEF TypeOK
      <3>2. /\ Head(chain[t]) = chain[t][1] /\ DOMAIN chain[t] = 1..Len(chain[t])
            /\ Len(chain[t]) \in Nat \ {0}
        BY <2>1, <3>1, SettledSave
      <3>3. CoversNext(doc[t], flight[t].token)
        BY <1>0, <2>g, <2>2, <3>2 DEF CopiesCover, CoversNext, Grown
      <3>4. \A i \in 2..Len(chain[t]) : CoversNext(chain[t][i].doc, flight[t].token)
        BY <1>0, <2>g, <2>2, <3>2 DEF CopiesCover, CoversNext, Grown
      <3> QED BY <1>0, <2>1, <2>g, <3>3, <3>4, SettleCovers
    <2>t. TokensName(t)'
      BY <1>0, <2>1, SettleLinks DEF TokensName
    <2>w. OnlyWhenOpen(t)'
      BY <1>0, <2>1, SettleLinks DEF OnlyWhenOpen
    <2> QED BY <2>g, <2>o, <2>c, <2>t, <2>w, StepOfTab DEF TabInv
  <1>17. ASSUME NEW t \in Tabs, OnConflict(t)
        PROVE  SavesCover'
    <2>g. Grown /\ OrphansCover'
      BY <1>17, GrownUnchanged, OrphansStay DEF OnConflict
    <2>o. \A u \in Tabs \ {t} : Untouched(u)
      BY <1>17 DEF TypeOK, Untouched, OnConflict, Raise
    <2>1. /\ flight'[t] = Idle /\ chain'[t] = <<>> /\ life[t] = "open"
          /\ conflict'[t] = flight[t].token
          /\ dialog'[t] = IF dialog[t].open THEN dialog[t]
                          ELSE [token |-> flight[t].token, open |-> TRUE]
          /\ UNCHANGED <<site, life, read, doc, base, publish, forsaken>>
      BY <1>0, <1>17 DEF TypeOK, OnConflict, Raise, OnlyWhenOpen
    <2>2. flight[t].token \in DOMAIN site /\ flight[t].token # 0
      BY <1>0, <1>17, <1>a DEF TokensName, OnConflict
    <2>c. CopiesCover(t)'
      BY <1>0, <2>1, <2>g DEF CopiesCover, Covers, Grown, Idle
    <2>t. TokensName(t)'
      BY <1>0, <2>1, <2>2 DEF TokensName, OnlyWhenOpen, Idle
    <2>w. OnlyWhenOpen(t)'
      BY <1>0, <2>1, <2>2 DEF OnlyWhenOpen, Idle
    <2> QED BY <2>g, <2>o, <2>c, <2>t, <2>w, StepOfTab DEF TabInv
  <1>18. ASSUME NEW t \in Tabs, OnFailure(t) \/ OnUnauthorized(t) \/ OnNetworkError(t)
        PROVE  SavesCover'
    <2>1. /\ chain[t] # <<>> /\ life[t] = "open" /\ base[t] \in Nat
          /\ Settle(t, base[t])
          /\ UNCHANGED <<site, life, read, doc, base, conflict, dialog, publish, forsaken>>
      BY <1>0, <1>18
         DEF TypeOK, OnlyWhenOpen, OnFailure, OnUnauthorized, OnNetworkError
    <2>2. Grown
      BY <2>1, GrownUnchanged
    <2>3. OrphansCover'
      <3>1. \A o \in orphans : CoversNext(o.doc, o.expected)
        BY <2>2, CoversStays DEF SavesCover, OrphansCover
      <3>2. flight[t].phase = "sent" =>
              CoversNext(Head(chain[t]).doc, flight[t].expected)
        BY <1>0, <2>2, CoversStays DEF CopiesCover
      <3>3. \A n \in orphans' : CoversNext(n.doc, n.expected)
        BY <1>18, <3>1, <3>2 DEF OnFailure, OnUnauthorized, OnNetworkError
      <3> QED BY <3>3 DEF OrphansCover, Covers, CoversNext
    <2>g. Grown /\ OrphansCover'
      BY <2>2, <2>3
    <2>o. \A u \in Tabs \ {t} : Untouched(u)
      BY <2>1 DEF TypeOK, Untouched, Settle
    <2>c. CopiesCover(t)'
      <3>1. chain[t] \in Seq(Save)
        BY DEF TypeOK
      <3>2. 2..Len(chain[t]) \subseteq DOMAIN chain[t]
        BY <2>1, <3>1, SettledSave
      <3>3. /\ CoversNext(doc[t], base[t])
            /\ \A i \in 2..Len(chain[t]) : CoversNext(chain[t][i].doc, base[t])
        BY <1>0, <2>1, <2>2, <3>2, CoversStays DEF CopiesCover
      <3> QED BY <1>0, <2>1, <2>2, <3>3, SettleCovers
    <2>t. TokensName(t)'
      BY <1>0, <2>1, SettleLinks DEF TokensName
    <2>w. OnlyWhenOpen(t)'
      BY <1>0, <2>1, SettleLinks DEF OnlyWhenOpen
    <2> QED BY <2>g, <2>o, <2>c, <2>t, <2>w, StepOfTab DEF TabInv
  <1>19. ASSUME NEW t \in Tabs, Dismiss(t) \/ Reopen(t) \/ PublishSends(t) \/ PublishAccepted(t)
        PROVE  SavesCover'
    <2>g. Grown /\ OrphansCover'
      BY <1>19, GrownUnchanged, OrphansStay DEF Dismiss, Reopen, PublishSends, PublishAccepted
    <2>o. \A u \in Tabs \ {t} : Untouched(u)
      BY <1>19 DEF TypeOK, Untouched, Dismiss, Reopen, Raise, PublishSends, PublishAccepted
    <2>1. /\ UNCHANGED <<site, life, read, doc, base, chain, flight>>
          /\ conflict'[t] = conflict[t]
          /\ dialog'[t].token \in {dialog[t].token, conflict[t]}
          /\ dialog'[t].open => dialog[t].open \/ conflict[t] # 0
          /\ publish'[t] # 0 => publish[t] # 0 \/ life[t] = "open"
      BY <1>19 DEF TypeOK, Dismiss, Reopen, Raise, PublishSends, PublishAccepted
    <2>c. CopiesCover(t)'
      BY <1>0, <2>1, <2>g, CopiesStay
    <2>t. TokensName(t)'
      BY <1>0, <2>1 DEF TokensName
    <2>w. OnlyWhenOpen(t)'
      BY <1>0, <2>1 DEF OnlyWhenOpen
    <2> QED BY <2>g, <2>o, <2>c, <2>t, <2>w, StepOfTab DEF TabInv
  <1>20. ASSUME NEW t \in Tabs, Overwrite(t)
        PROVE  SavesCover'
    <2> DEFINE token == dialog[t].token
    <2>1. PICK d \in ShownBySave(t) :
            /\ Show(t, d) /\ Enqueue(t, "manual", d, token)
            /\ forsaken' = [forsaken EXCEPT
                  !["overwrite"] = @ \union LeftOut(t, token, d),
                  !["restored"] = @ \union (doc[t] \ d)]
      BY <1>20 DEF Overwrite
    <2>2. d \in SUBSET Edits /\ token \in Nat /\ token \in DOMAIN site /\ life[t] = "open"
      BY <1>0, <1>20, KeptTyped DEF TypeOK, OnlyWhenOpen, TokensName, Overwrite
    <2>3. /\ UNCHANGED <<site, life, read, publish, orphans>>
          /\ doc'[t] = d /\ base'[t] = token /\ conflict'[t] = 0 /\ dialog'[t] = NoDialog
      BY <1>20, <2>1 DEF TypeOK, Overwrite, Show
    <2>4. /\ Forsaken \subseteq Forsaken' /\ LeftOut(t, token, d) \subseteq Forsaken'
          /\ doc[t] \ d \subseteq Forsaken'
      <3>1. /\ \A w \in Ways : forsaken[w] \subseteq forsaken'[w]
            /\ LeftOut(t, token, d) \subseteq forsaken'["overwrite"]
            /\ doc[t] \ d \subseteq forsaken'["restored"]
        BY <2>1 DEF TypeOK, Ways
      <3> QED BY <3>1 DEF Forsaken, Ways
    <2>5. Grown
      BY <1>a, <2>3, <2>4 DEF Grown
    <2>g. Grown /\ OrphansCover'
      BY <2>3, <2>5, OrphansStay
    <2>o. \A u \in Tabs \ {t} : Untouched(u)
      BY <1>20, <2>1 DEF TypeOK, Untouched, Overwrite, Enqueue, Show
    <2>c. CopiesCover(t)'
      <3>1. CoversNext(d, token)
        BY <2>2, <2>3, <2>4 DEF CoversNext, LeftOut
      <3>2. \A i \in DOMAIN chain[t] : CoversNext(chain[t][i].doc, token)
        BY <2>2, <2>3, <2>4 DEF CoversNext, LeftOut
      <3>3. \A i \in DOMAIN chain[t] : chain[t][i].doc \subseteq d \union Forsaken'
        BY <1>0, <2>4 DEF CopiesCover
      <3> QED BY <1>0, <2>1, <2>2, <2>3, <2>5, <3>1, <3>2, <3>3, EnqueueCovers
    <2>6. /\ chain'[t] # <<>> /\ flight'[t].phase # "idle"
          /\ flight'[t].phase # "sent" =>
               flight'[t] = flight[t] /\ Head(chain'[t]) = Head(chain[t])
      BY <1>0, <2>1, <2>2, EnqueueLinks
    <2>t. TokensName(t)'
      BY <1>0, <2>3, <2>6 DEF TokensName
    <2>w. OnlyWhenOpen(t)'
      BY <2>2, <2>3, <2>6 DEF OnlyWhenOpen, NoDialog
    <2> QED BY <2>g, <2>o, <2>c, <2>t, <2>w, StepOfTab DEF TabInv
  <1>21. ASSUME NEW t \in Tabs, PublishRefused(t)
        PROVE  SavesCover'
    <2>g. Grown /\ OrphansCover'
      BY <1>21, GrownUnchanged, OrphansStay DEF PublishRefused
    <2>o. \A u \in Tabs \ {t} : Untouched(u)
      BY <1>21 DEF TypeOK, Untouched, PublishRefused, Raise
    <2>1. /\ UNCHANGED <<site, life, read, doc, base, chain, flight>>
          /\ conflict'[t] = Token /\ publish'[t] = 0 /\ publish[t] # 0
          /\ dialog'[t] = IF dialog[t].open THEN dialog[t]
                          ELSE [token |-> Token, open |-> TRUE]
      BY <1>21 DEF TypeOK, PublishRefused, Raise
    <2>c. CopiesCover(t)'
      BY <1>0, <2>1, <2>g, CopiesStay
    <2>t. TokensName(t)'
      BY <1>0, <1>a, <2>1 DEF TokensName, OnlyWhenOpen
    <2>w. OnlyWhenOpen(t)'
      BY <1>0, <1>a, <2>1 DEF OnlyWhenOpen
    <2> QED BY <2>g, <2>o, <2>c, <2>t, <2>w, StepOfTab DEF TabInv
  <1>22. CASE UNCHANGED vars
    <2>1. UNCHANGED <<site, forsaken, orphans, life, read, doc, base, chain, flight,
                      conflict, dialog, publish>>
      BY <1>22 DEF vars
    <2>2. Grown /\ OrphansCover' /\ \A u \in Tabs : Untouched(u)
      BY <2>1, GrownUnchanged, OrphansStay DEF Untouched
    <2> QED BY <2>2, StepOfNoTab
  <1> QED
    BY <1>1, <1>2, <1>3, <1>4, <1>5, <1>6, <1>7, <1>8, <1>9, <1>10, <1>11,
       <1>12, <1>13, <1>14, <1>15, <1>16, <1>17, <1>18, <1>19, <1>20, <1>21,
       <1>22 DEF Next, User, Tab, Fires, Answered, Runs

-----------------------------------------------------------------------------
(* The theorems.                                                           *)

\* The initial states have the types and keep the copies covered.
LEMMA Initially ==
  Init => TypeOK /\ SavesCover
  <1> SUFFICES ASSUME Init PROVE TypeOK /\ SavesCover
    OBVIOUS
  <1>1. TypeOK
    <2>1. [doc |-> {}, by |-> "creation"] \in Version
      BY DEF Version, Writers
    <2>2. site \in Seq(Version) /\ Len(site) > 0
      BY <2>1 DEF Init
    <2>3. Idle \in Request /\ NoDialog \in [token: Nat, open: BOOLEAN]
      BY DEF Idle, Request, Phases, NoDialog
    <2>4. <<>> \in Seq(Save)
      OBVIOUS
    <2> QED BY <2>2, <2>3, <2>4 DEF Init, TypeOK, Statuses
  <1>2. OrphansCover
    BY DEF Init, OrphansCover
  <1>a. \A t \in Tabs :
          /\ life[t] = "loading" /\ chain[t] = <<>> /\ flight[t] = Idle
          /\ conflict[t] = 0 /\ publish[t] = 0 /\ ~dialog[t].open
          /\ read[t] = [row |-> 0, pages |-> 0]
    BY DEF Init, NoDialog
  <1>b. Idle.phase = "idle"
    BY DEF Idle
  <1>c. Len(site) \in Nat
    BY <1>1, VersionsTyped
  <1>3. \A t \in Tabs : CopiesCover(t) /\ OnlyWhenOpen(t)
    <2> SUFFICES ASSUME NEW t \in Tabs
                 PROVE  CopiesCover(t) /\ OnlyWhenOpen(t)
      OBVIOUS
    <2>1. DOMAIN chain[t] = {}
      BY <1>a
    <2>2. CopiesCover(t)
      BY <1>a, <1>b, <2>1 DEF CopiesCover
    <2>3. OnlyWhenOpen(t)
      BY <1>a, <1>b DEF OnlyWhenOpen
    <2> QED BY <2>2, <2>3
  <1>4. \A t \in Tabs : TokensName(t)
    <2> SUFFICES ASSUME NEW t \in Tabs PROVE TokensName(t)
      OBVIOUS
    <2>1. read[t].row \in 0..Len(site) /\ read[t].pages \in 0..Len(site)
      BY <1>a, <1>c
    <2>2. conflict[t] = 0 /\ flight[t].phase = "idle"
      BY <1>a, <1>b
    <2> QED BY <2>1, <2>2 DEF TokensName
  <1> QED BY <1>1, <1>2, <1>3, <1>4 DEF SavesCover

\* Types, and every copy that could still be written over the site has what it
\* replaces, but for what is accounted for.
THEOREM SavesAlwaysCover == Spec => [](TypeOK /\ SavesCover)
  <1>1. Init => TypeOK /\ SavesCover
    BY Initially
  <1>2. TypeOK /\ SavesCover /\ [Next]_vars => (TypeOK /\ SavesCover)'
    BY TypeStep, CoverStep
  <1> QED BY <1>1, <1>2, PTL DEF Spec

\* The types hold in every reachable state of saving.
THEOREM SiteSaveTyped == Spec => []TypeOK
  BY SavesAlwaysCover, PTL

\* A write takes off the site only what the Overwrite, the torn load or the
\* restored copy that led to it left out.
LEMMA LossIsAccounted ==
  ASSUME TypeOK, SavesCover, [Next]_vars
  PROVE  Content \ Content' \subseteq Forsaken'
  <1> USE DEF serverVars, loadVars, saveVars, dialogVars, uiVars, keptVars,
              ghostVars, tabVars
  <1>0. /\ Len(site) \in Nat \ {0} /\ DOMAIN site = 1..Len(site) /\ Token = Len(site)
        /\ Content = site[Token].doc /\ Content \in SUBSET Edits
    BY VersionsTyped DEF Token, Content
  <1>1. CASE UNCHANGED site
    BY <1>1 DEF Content
  <1>2. ASSUME NEW d \in SUBSET Edits, NEW w \in Writers, Write(d, w),
               UNCHANGED forsaken, Content \subseteq d \union Forsaken
        PROVE  Content \ Content' \subseteq Forsaken'
    <2>1. Content' = d
      <3>1. Len(site') = Len(site) + 1 /\ site'[Len(site) + 1].doc = d
        BY <1>2, WriteTyped
      <3> QED BY <3>1 DEF Content
    <2>2. Forsaken' = Forsaken
      BY <1>2 DEF Forsaken
    <2> QED BY <1>2, <2>1, <2>2
  <1>3. ASSUME NEW t \in Tabs, SaveLands(t) \/ SaveOutran(t)
        PROVE  Content \ Content' \subseteq Forsaken'
    <2>1. CASE UNCHANGED site
      BY <1>1, <2>1
    <2>2. CASE ~UNCHANGED site
      <3>1. /\ flight[t].phase = "sent" /\ flight[t].expected = Token
            /\ Write(Head(chain[t]).doc, t) /\ UNCHANGED forsaken
        BY <1>3, <2>2 DEF SaveLands, SaveOutran
      <3>2. chain[t] # <<>> /\ Covers(Head(chain[t]).doc, flight[t].expected)
        BY <3>1 DEF SavesCover, CopiesCover, OnlyWhenOpen
      <3>3. Head(chain[t]).doc \in SUBSET Edits /\ t \in Writers
        BY <3>2, HeadTyped DEF Writers
      <3> QED BY <1>0, <1>2, <3>1, <3>2, <3>3 DEF Covers
    <2> QED BY <2>1, <2>2
  <1>4. ASSUME NEW o \in orphans, OrphanLands(o)
        PROVE  Content \ Content' \subseteq Forsaken'
    <2>1. o.doc \in SUBSET Edits /\ o.by \in Writers /\ Covers(o.doc, o.expected)
      BY DEF TypeOK, Orphan, SavesCover, OrphansCover
    <2> QED BY <1>0, <1>2, <1>4, <2>1 DEF OrphanLands, Covers
  <1>5. CASE OutsideWrite
    BY <1>0, <1>2, <1>5 DEF OutsideWrite, Writers
  <1>6. ASSUME NEW t \in Tabs, User(t) \/ Tab(t) \/ SaveConflicts(t)
                 \/ SaveRefused(t) \/ SaveRechecked(t)
        PROVE  UNCHANGED site
    <2>1. User(t) => UNCHANGED site
      BY DEF User, Reload, Unload, Edit, ManualSave, ManualSaveHeld,
             ManualSaveNotLoaded, Restore, Dismiss, Reopen, Overwrite,
             ReloadLatest, PublishSends
    <2>2. Tab(t) => UNCHANGED site
      BY DEF Tab, ReadRow, ReadPages, Loaded, LoadFails, Fires, AutosaveHeld,
             AutosaveNotLoaded, Autosave, RetryFires, Answered, OnSaved,
             OnConflict, OnFailure, OnUnauthorized, OnNetworkError,
             PublishRefused, PublishAccepted
    <2> QED BY <1>6, <2>1, <2>2 DEF SaveConflicts, SaveRefused, SaveRechecked
  <1>7. ASSUME NEW o \in orphans, OrphanFails(o)
        PROVE  UNCHANGED site
    BY <1>7 DEF OrphanFails
  <1>8. CASE UNCHANGED vars
    BY <1>1, <1>8 DEF vars
  <1> QED BY <1>1, <1>3, <1>4, <1>5, <1>6, <1>7, <1>8 DEF Next, Runs

\* Nothing is lost from a site but what is accounted for, whatever tabs,
\* late requests, timeouts and retries do.
THEOREM NothingElseIsLost == Spec => NoUnaccountedLoss
  <1>1. TypeOK /\ SavesCover /\ [Next]_vars => [Content \ Content' \subseteq Forsaken']_vars
    BY LossIsAccounted
  <1> QED BY <1>1, SavesAlwaysCover, PTL DEF Spec, NoUnaccountedLoss

-----------------------------------------------------------------------------
(* No work is forgotten.                                                   *)

\* The last save of a chain, after a save joined it, after the first one was
\* settled, after a change.
LEMMA LastSave ==
  ASSUME NEW c \in Seq(Save)
  PROVE  /\ \A s \in Save : Append(c, s)[Len(Append(c, s))] = s
         /\ c # <<>> =>
              /\ Len(c) \in Nat \ {0} /\ Len(c) \in DOMAIN c /\ c[Len(c)] \in Save
              /\ Tail(c) # <<>> => Tail(c)[Len(Tail(c))] = c[Len(c)]
              /\ Tail(c) = <<>> => Head(c) = c[Len(c)]
         /\ \A i \in DOMAIN Outdated(c) : ~Outdated(c)[i].newest
  <1>1. \A s \in Save : Append(c, s)[Len(Append(c, s))] = s
    OBVIOUS
  <1>2. ASSUME c # <<>>
        PROVE  /\ Len(c) \in Nat \ {0} /\ Len(c) \in DOMAIN c /\ c[Len(c)] \in Save
               /\ Tail(c) # <<>> => Tail(c)[Len(Tail(c))] = c[Len(c)]
               /\ Tail(c) = <<>> => Head(c) = c[Len(c)]
    <2>1. /\ Len(c) \in Nat \ {0} /\ DOMAIN c = 1..Len(c) /\ Head(c) = c[1]
          /\ \A i \in 1..Len(c) - 1 : Tail(c)[i] = c[i + 1]
          /\ Len(c) = 1 <=> Tail(c) = <<>>
      BY <1>2, SettledSave
    <2>2. Len(Tail(c)) = Len(c) - 1 /\ c[Len(c)] \in Save
      BY <1>2, <2>1, HeadTailProperties, ElementOfSeq
    <2> QED BY <2>1, <2>2
  <1>3. \A i \in DOMAIN Outdated(c) : ~Outdated(c)[i].newest
    <2>1. Outdated(c) = [i \in DOMAIN c |-> [c[i] EXCEPT !.newest = FALSE]]
      BY DEF Outdated
    <2>2. \A i \in DOMAIN c : c[i] \in Save
      BY ElementOfSeq, LenProperties
    <2> QED BY <2>1, <2>2 DEF Save
  <1> QED BY <1>1, <1>2, <1>3

\* A step leaves the site alone, or it writes a version.
LEMMA SiteStep ==
  ASSUME TypeOK, SavesCover, [Next]_vars
  PROVE  \/ UNCHANGED site
         \/ \E d \in SUBSET Edits, w \in Writers : Write(d, w)
  <1> USE DEF serverVars, loadVars, saveVars, dialogVars, uiVars, keptVars,
              ghostVars, tabVars
  <1>1. ASSUME NEW t \in Tabs, SaveLands(t) \/ SaveOutran(t)
        PROVE  UNCHANGED site \/ Write(Head(chain[t]).doc, t)
    BY <1>1 DEF SaveLands, SaveOutran
  <1>2. ASSUME NEW t \in Tabs, SaveLands(t) \/ SaveOutran(t)
        PROVE  Head(chain[t]).doc \in SUBSET Edits /\ t \in Writers
    <2>1. flight[t].phase = "sent" /\ chain[t] # <<>>
      BY <1>2 DEF SaveLands, SaveOutran, SavesCover, OnlyWhenOpen
    <2> QED BY <2>1, HeadTyped DEF Writers
  <1>3. ASSUME NEW o \in orphans, OrphanLands(o) \/ OrphanFails(o)
        PROVE  /\ o.doc \in SUBSET Edits /\ o.by \in Writers
               /\ UNCHANGED site \/ Write(o.doc, o.by)
    BY <1>3 DEF TypeOK, Orphan, OrphanLands, OrphanFails
  <1>4. OutsideWrite => Write(Content, "outside") /\ Content \in SUBSET Edits
                          /\ "outside" \in Writers
    BY VersionsTyped DEF OutsideWrite, Writers
  <1>5. ASSUME NEW t \in Tabs, User(t)
        PROVE  UNCHANGED site
    BY <1>5 DEF User, Reload, Unload, Edit, ManualSave, ManualSaveHeld,
            ManualSaveNotLoaded, Restore, Dismiss, Reopen, Overwrite,
            ReloadLatest, PublishSends
  <1>6. ASSUME NEW t \in Tabs, Tab(t)
        PROVE  UNCHANGED site
    BY <1>6 DEF Tab, ReadRow, ReadPages, Loaded, LoadFails, Fires, AutosaveHeld,
            AutosaveNotLoaded, Autosave, RetryFires, Answered, OnSaved,
            OnConflict, OnFailure, OnUnauthorized, OnNetworkError,
            PublishRefused, PublishAccepted
  <1>7. ASSUME NEW t \in Tabs, SaveConflicts(t) \/ SaveRefused(t) \/ SaveRechecked(t)
        PROVE  UNCHANGED site
    BY <1>7 DEF SaveConflicts, SaveRefused, SaveRechecked
  <1>8. UNCHANGED vars => UNCHANGED site
    BY DEF vars
  <1> QED BY <1>1, <1>2, <1>3, <1>4, <1>5, <1>6, <1>7, <1>8 DEF Next, Runs

\* What the server has had it has.
LEMMA SavedGrows ==
  ASSUME TypeOK, SavesCover, [Next]_vars
  PROVE  /\ Saved \subseteq Saved' /\ DOMAIN site \subseteq DOMAIN site'
         /\ \A v \in DOMAIN site : site'[v] = site[v]
  <1>1. CASE UNCHANGED site
    BY <1>1 DEF Saved
  <1>2. ASSUME NEW d \in SUBSET Edits, NEW w \in Writers, Write(d, w)
        PROVE  /\ DOMAIN site \subseteq DOMAIN site'
               /\ \A v \in DOMAIN site : site'[v] = site[v]
    <2>1. /\ DOMAIN site = 1..Len(site) /\ DOMAIN site' = 1..Len(site) + 1
          /\ \A v \in DOMAIN site : site'[v] = site[v] /\ Len(site) \in Nat
      BY <1>2, WriteTyped
    <2> QED BY <2>1
  <1>3. CASE ~UNCHANGED site
    BY <1>2, <1>3, SiteStep DEF Saved
  <1> QED BY <1>1, <1>3

\* The part of a tab that its saves are made of.
Resting(t) ==
  /\ life'[t] = life[t] /\ doc'[t] = doc[t] /\ chain'[t] = chain[t]
  /\ conflict'[t] = conflict[t] /\ status'[t] = status[t]
  /\ timer'[t] = timer[t] /\ retry'[t] = retry[t]

\* A step about another tab.
LEMMA WorkStays ==
  ASSUME Saved \subseteq Saved', NEW t \in Tabs, Resting(t), WorkScheduled(t)
  PROVE  WorkScheduled(t)'
  <1>1. Unsaved(t)' # {} => Unsaved(t) # {}
    BY DEF Unsaved, Resting
  <1> QED BY <1>1 DEF WorkScheduled, Resting

\* While a conflict is held nothing is asked of the saves.
LEMMA WorkHeld ==
  ASSUME NEW t \in Tabs, conflict'[t] # 0, life'[t] # "loading"
  PROVE  WorkScheduled(t)'
  BY DEF WorkScheduled

\* A page that shows only what the server has, and saves nothing.
LEMMA WorkSaved ==
  ASSUME NEW t \in Tabs, chain'[t] = <<>>, Unsaved(t)' = {},
         life'[t] = "loading" => doc'[t] = {}
  PROVE  WorkScheduled(t)'
  BY DEF WorkScheduled

\* A change is scheduled.
LEMMA WorkChanged ==
  ASSUME TypeOK, NEW t \in Tabs, Changed(t), WorkScheduled(t),
         life'[t] = "loading" => doc'[t] = {}
  PROVE  WorkScheduled(t)'
  <1>1. timer'[t]
    BY DEF TypeOK, Changed
  <1>2. chain'[t] = Outdated(chain[t]) /\ chain[t] \in Seq(Save)
    BY DEF TypeOK, Changed
  <1>3. chain'[t] # <<>> => ~chain'[t][Len(chain'[t])].newest
    <2>1. chain'[t] \in Seq(Save)
      BY <1>2, OutdatedSaves
    <2> QED BY <1>2, <2>1, LastSave
  <1> QED BY <1>1, <1>3 DEF WorkScheduled

\* A save of what is on screen joins the chain.
LEMMA WorkQueued ==
  ASSUME TypeOK, NEW t \in Tabs, NEW kind \in {"auto", "manual"},
         NEW d \in SUBSET Edits, NEW b \in Nat, Enqueue(t, kind, d, b),
         doc'[t] = d, life'[t] # "loading"
  PROVE  WorkScheduled(t)'
  <1> DEFINE s == [doc |-> d, kind |-> kind, newest |-> TRUE]
  <1>1. s \in Save /\ chain[t] \in Seq(Save) /\ chain'[t] = Append(chain[t], s)
    BY DEF TypeOK, Save, Enqueue
  <1>2. chain'[t] # <<>> /\ chain'[t][Len(chain'[t])] = s
    BY <1>1, LastSave, QueuedSave
  <1> QED BY <1>2 DEF WorkScheduled

\* The first save is settled: as saved, or with a failure that the pill shows.
LEMMA WorkSettled ==
  ASSUME TypeOK, Saved \subseteq Saved', NEW t \in Tabs, chain[t] # <<>>,
         NEW b \in Nat, Settle(t, b), WorkScheduled(t), life[t] = "open",
         UNCHANGED <<life, doc, conflict, timer>>,
         \/ Head(chain[t]).doc \subseteq Saved
         \/ status'[t] \notin {"idle", "saving"}
  PROVE  WorkScheduled(t)'
  <1> DEFINE c == chain[t]
  <1>1. c \in Seq(Save) /\ chain'[t] = Tail(c)
    BY DEF TypeOK, Settle
  <1>2. /\ Tail(c) # <<>> => Tail(c)[Len(Tail(c))] = c[Len(c)]
        /\ Tail(c) = <<>> => Head(c) = c[Len(c)]
    BY <1>1, LastSave
  <1>3. conflict[t] = 0 =>
          /\ c[Len(c)].newest \/ timer[t]
          /\ c[Len(c)].newest => c[Len(c)].doc = doc[t]
    BY DEF WorkScheduled
  <1> HIDE DEF c
  <1>4. CASE Tail(c) # <<>>
    BY <1>1, <1>2, <1>3, <1>4 DEF WorkScheduled
  <1>5. CASE Tail(c) = <<>>
    <2>1. conflict[t] = 0 /\ ~timer[t] /\ Head(c).doc \subseteq Saved => Unsaved(t)' = {}
      BY <1>2, <1>3, <1>5 DEF Unsaved
    <2> QED BY <1>1, <1>5, <2>1 DEF WorkScheduled, c
  <1> QED BY <1>4, <1>5

\* A step about one tab, and a step about none.
LEMMA WorkOfTab ==
  ASSUME Saved \subseteq Saved', \A u \in Tabs : WorkScheduled(u),
         NEW t \in Tabs, WorkScheduled(t)', \A u \in Tabs \ {t} : Resting(u)
  PROVE  \A u \in Tabs : WorkScheduled(u)'
  <1>1. \A u \in Tabs \ {t} : WorkScheduled(u)'
    BY WorkStays
  <1> QED BY <1>1

\* Every step keeps unsaved work scheduled.
LEMMA WorkStep ==
  ASSUME TypeOK, SavesCover, \A u \in Tabs : WorkScheduled(u), [Next]_vars
  PROVE  \A u \in Tabs : WorkScheduled(u)'
  <1> USE DEF serverVars, loadVars, saveVars, dialogVars, uiVars, keptVars,
              ghostVars, tabVars
  <1>0. /\ Saved \subseteq Saved'
        /\ \A t \in Tabs : CopiesCover(t) /\ TokensName(t) /\ OnlyWhenOpen(t)
        /\ DOMAIN site = 1..Len(site) /\ Len(site) \in Nat \ {0}
    BY SavedGrows, VersionsTyped DEF SavesCover
  <1>a. \A t \in Tabs : life[t] # "open" => chain[t] = <<>> /\ conflict[t] = 0
    BY <1>0 DEF OnlyWhenOpen
  <1>b. \A t \in Tabs : flight[t].phase # "idle" => chain[t] # <<>> /\ life[t] = "open"
    BY <1>0 DEF OnlyWhenOpen
  <1>c. \A v \in DOMAIN site : site[v].doc \subseteq Saved
    BY DEF Saved
  <1>1. CASE \A u \in Tabs : Resting(u)
    BY <1>0, <1>1, WorkStays
  <1>2. ASSUME NEW t \in Tabs, ReadRow(t) \/ ReadPages(t)
        PROVE  \A u \in Tabs : Resting(u)
    BY <1>2 DEF Resting, ReadRow, ReadPages
  <1>3. ASSUME NEW t \in Tabs, Loaded(t)
        PROVE  \A u \in Tabs : WorkScheduled(u)'
    <2>1. \A u \in Tabs \ {t} : Resting(u)
      BY <1>3 DEF TypeOK, Resting, Loaded
    <2>2. read[t].pages \in DOMAIN site
      BY <1>0, <1>3 DEF TypeOK, TokensName, Loaded
    <2>3. /\ doc'[t] = site[read[t].pages].doc /\ life'[t] = "open"
          /\ chain'[t] = <<>>
      BY <1>3, <1>a DEF TypeOK, Loaded
    <2>4. WorkScheduled(t)'
      <3>1. Unsaved(t)' = {}
        BY <1>0, <1>c, <2>2, <2>3 DEF Unsaved
      <3> QED BY <2>3, <3>1, WorkSaved
    <2> QED BY <1>0, <2>1, <2>4, WorkOfTab
  <1>4. ASSUME NEW t \in Tabs, LoadFails(t)
        PROVE  \A u \in Tabs : WorkScheduled(u)'
    <2>1. \A u \in Tabs \ {t} : Resting(u)
      BY <1>4 DEF TypeOK, Resting, LoadFails
    <2>2. chain'[t] = <<>> /\ doc'[t] = {}
      BY <1>4, <1>a DEF LoadFails, WorkScheduled
    <2>3. WorkScheduled(t)'
      BY <2>2, WorkSaved DEF Unsaved
    <2> QED BY <1>0, <2>1, <2>3, WorkOfTab
  <1>5. ASSUME NEW t \in Tabs, Reload(t) \/ ReloadLatest(t)
        PROVE  \A u \in Tabs : WorkScheduled(u)'
    <2>1. Unload(t)
      BY <1>5 DEF Reload, ReloadLatest
    <2>2. \A u \in Tabs \ {t} : Resting(u)
      BY <2>1 DEF TypeOK, Resting, Unload
    <2>3. chain'[t] = <<>> /\ doc'[t] = {}
      BY <2>1 DEF TypeOK, Unload
    <2>4. WorkScheduled(t)'
      BY <2>3, WorkSaved DEF Unsaved
    <2> QED BY <1>0, <2>2, <2>4, WorkOfTab
  <1>6. ASSUME NEW t \in Tabs, Edit(t) \/ Restore(t) \/ RetryFires(t)
        PROVE  \A u \in Tabs : WorkScheduled(u)'
    <2>1. \A u \in Tabs \ {t} : Resting(u)
      BY <1>6 DEF TypeOK, Resting, Edit, Restore, RetryFires, Changed, Show
    <2>2. Changed(t) /\ (life'[t] = "loading" => doc'[t] = {})
      <3>1. CASE Edit(t) \/ Restore(t)
        BY <3>1 DEF Edit, Restore, Editing
      <3>2. CASE RetryFires(t)
        BY <3>2 DEF RetryFires, WorkScheduled
      <3> QED BY <1>6, <3>1, <3>2
    <2>3. WorkScheduled(t)'
      BY <2>2, WorkChanged
    <2> QED BY <1>0, <2>1, <2>3, WorkOfTab
  <1>7. ASSUME NEW t \in Tabs, AutosaveHeld(t)
        PROVE  \A u \in Tabs : WorkScheduled(u)'
    <2>1. \A u \in Tabs \ {t} : Resting(u)
      BY <1>7 DEF TypeOK, Resting, AutosaveHeld
    <2>2. conflict'[t] # 0 /\ life'[t] # "loading"
      BY <1>7, <1>a DEF AutosaveHeld
    <2> QED BY <1>0, <2>1, <2>2, WorkHeld, WorkOfTab
  <1>8. ASSUME NEW t \in Tabs, AutosaveNotLoaded(t) \/ ManualSaveNotLoaded(t)
        PROVE  \A u \in Tabs : WorkScheduled(u)'
    <2>1. \A u \in Tabs \ {t} : Resting(u)
      BY <1>8 DEF TypeOK, Resting, AutosaveNotLoaded, ManualSaveNotLoaded
    <2>2. chain'[t] = <<>> /\ status'[t] = "error" /\ life'[t] = "failed"
      BY <1>8, <1>a DEF TypeOK, AutosaveNotLoaded, ManualSaveNotLoaded
    <2>3. WorkScheduled(t)'
      BY <2>2 DEF WorkScheduled
    <2> QED BY <1>0, <2>1, <2>3, WorkOfTab
  <1>9. ASSUME NEW t \in Tabs, Autosave(t)
        PROVE  \A u \in Tabs : WorkScheduled(u)'
    <2>1. \A u \in Tabs \ {t} : Resting(u)
      BY <1>9 DEF TypeOK, Resting, Autosave, Enqueue
    <2>2. /\ Enqueue(t, "auto", doc[t], base[t]) /\ doc[t] \in SUBSET Edits
          /\ base[t] \in Nat /\ doc'[t] = doc[t] /\ life'[t] # "loading"
      BY <1>9 DEF TypeOK, Autosave
    <2>3. WorkScheduled(t)'
      BY <2>2, WorkQueued
    <2> QED BY <1>0, <2>1, <2>3, WorkOfTab
  <1>10. ASSUME NEW t \in Tabs, ManualSave(t) \/ Overwrite(t)
        PROVE  \A u \in Tabs : WorkScheduled(u)'
    <2>1. \A u \in Tabs \ {t} : Resting(u)
      BY <1>10 DEF TypeOK, Resting, ManualSave, Overwrite, Enqueue, Show
    <2>2. PICK d \in ShownBySave(t), b \in Nat : Show(t, d) /\ Enqueue(t, "manual", d, b)
      BY <1>10 DEF TypeOK, ManualSave, Overwrite
    <2>3. d \in SUBSET Edits /\ doc'[t] = d
      BY <2>2, KeptTyped DEF TypeOK, Show
    <2>4. life'[t] # "loading"
      BY <1>10, <1>0 DEF OnlyWhenOpen, ManualSave, Overwrite
    <2>5. WorkScheduled(t)'
      BY <2>2, <2>3, <2>4, WorkQueued
    <2> QED BY <1>0, <2>1, <2>5, WorkOfTab
  <1>11. ASSUME NEW t \in Tabs, NEW token \in Nat \ {0}, Raise(t, token)
        PROVE  conflict'[t] # 0 /\ \A u \in Tabs \ {t} :
                 conflict'[u] = conflict[u] /\ status'[u] = status[u]
    BY <1>11 DEF TypeOK, Raise
  <1>12. ASSUME NEW t \in Tabs, ManualSaveHeld(t)
        PROVE  \A u \in Tabs : WorkScheduled(u)'
    <2>1. Raise(t, conflict[t]) /\ conflict[t] \in Nat \ {0}
      BY <1>12 DEF TypeOK, ManualSaveHeld
    <2>2. \A u \in Tabs \ {t} : Resting(u)
      BY <1>11, <1>12, <2>1 DEF TypeOK, Resting, ManualSaveHeld, Show
    <2>3. conflict'[t] # 0 /\ life'[t] # "loading"
      BY <1>11, <1>12, <2>1 DEF ManualSaveHeld
    <2> QED BY <1>0, <2>2, <2>3, WorkHeld, WorkOfTab
  <1>13. ASSUME NEW t \in Tabs, OnSaved(t)
        PROVE  \A u \in Tabs : WorkScheduled(u)'
    <2>1. \A u \in Tabs \ {t} : Resting(u)
      <3>1. \A u \in Tabs \ {t} : dirty'[u] = dirty[u] /\ status'[u] = status[u]
                                    /\ retry'[u] = retry[u]
        BY <1>13 DEF TypeOK, OnSaved
      <3> QED BY <1>13, <3>1 DEF TypeOK, Resting, OnSaved, Settle
    <2>2. /\ chain[t] # <<>> /\ life[t] = "open" /\ flight[t].token \in Nat
          /\ Settle(t, flight[t].token) /\ UNCHANGED <<life, doc, conflict, timer>>
      BY <1>13, <1>b DEF TypeOK, Request, OnSaved
    <2>3. Head(chain[t]).doc \subseteq Saved
      <3>1. flight[t].token \in DOMAIN site /\ site[flight[t].token].doc = Head(chain[t]).doc
        BY <1>0, <1>13 DEF TokensName, OnSaved
      <3> QED BY <1>c, <3>1
    <2>4. WorkScheduled(t)'
      BY <1>0, <2>2, <2>3, WorkSettled
    <2> QED BY <1>0, <2>1, <2>4, WorkOfTab
  <1>14. ASSUME NEW t \in Tabs, OnFailure(t) \/ OnUnauthorized(t) \/ OnNetworkError(t)
        PROVE  \A u \in Tabs : WorkScheduled(u)'
    <2>1. \A u \in Tabs \ {t} : Resting(u)
      BY <1>14 DEF TypeOK, Resting, OnFailure, OnUnauthorized, OnNetworkError, Settle
    <2>2. /\ chain[t] # <<>> /\ life[t] = "open" /\ base[t] \in Nat
          /\ Settle(t, base[t]) /\ UNCHANGED <<life, doc, conflict, timer>>
      BY <1>14, <1>b DEF TypeOK, OnFailure, OnUnauthorized, OnNetworkError
    <2>3. status'[t] \notin {"idle", "saving"}
      BY <1>14 DEF TypeOK, OnFailure, OnUnauthorized, OnNetworkError
    <2>4. WorkScheduled(t)'
      BY <1>0, <2>2, <2>3, WorkSettled
    <2> QED BY <1>0, <2>1, <2>4, WorkOfTab
  <1>15. ASSUME NEW t \in Tabs, OnConflict(t)
        PROVE  \A u \in Tabs : WorkScheduled(u)'
    <2>1. Raise(t, flight[t].token) /\ flight[t].token \in Nat \ {0}
      BY <1>0, <1>15 DEF TokensName, OnConflict
    <2>2. \A u \in Tabs \ {t} : Resting(u)
      BY <1>11, <1>15, <2>1 DEF TypeOK, Resting, OnConflict
    <2>3. conflict'[t] # 0 /\ life'[t] # "loading"
      BY <1>11, <1>15, <1>b, <2>1 DEF OnConflict
    <2> QED BY <1>0, <2>2, <2>3, WorkHeld, WorkOfTab
  <1>16. ASSUME NEW t \in Tabs, Reopen(t)
        PROVE  \A u \in Tabs : WorkScheduled(u)'
    <2>1. conflict[t] \in Nat \ {0} /\ life'[t] # "loading"
      BY <1>16, <1>a DEF TypeOK, Reopen
    <2>2. /\ conflict'[t] # 0
          /\ \A u \in Tabs \ {t} : conflict'[u] = conflict[u] /\ status'[u] = status[u]
      BY <1>11, <1>16, <2>1 DEF Reopen
    <2>3. \A u \in Tabs \ {t} : Resting(u)
      BY <1>16, <2>2 DEF Resting, Reopen
    <2> QED BY <1>0, <2>1, <2>2, <2>3, WorkHeld, WorkOfTab
  <1>17. ASSUME NEW t \in Tabs, PublishRefused(t)
        PROVE  \A u \in Tabs : WorkScheduled(u)'
    <2>1. Raise(t, Token) /\ Token \in Nat \ {0}
      BY <1>17, VersionsTyped DEF PublishRefused
    <2>2. \A u \in Tabs \ {t} : Resting(u)
      BY <1>11, <1>17, <2>1 DEF TypeOK, Resting, PublishRefused
    <2>3. conflict'[t] # 0 /\ life'[t] # "loading"
      BY <1>0, <1>11, <1>17, <2>1 DEF OnlyWhenOpen, PublishRefused
    <2> QED BY <1>0, <2>2, <2>3, WorkHeld, WorkOfTab
  <1>18. ASSUME NEW t \in Tabs, Dismiss(t) \/ PublishSends(t) \/ PublishAccepted(t)
                 \/ Runs(t)
        PROVE  \A u \in Tabs : Resting(u)
    BY <1>18 DEF Resting, Dismiss, PublishSends, PublishAccepted, Runs, SaveLands,
            SaveConflicts, SaveRefused, SaveOutran, SaveRechecked
  <1>19. ASSUME \/ \E o \in orphans : OrphanLands(o) \/ OrphanFails(o)
                \/ OutsideWrite \/ UNCHANGED vars
        PROVE  \A u \in Tabs : Resting(u)
    BY <1>19 DEF Resting, OrphanLands, OrphanFails, OutsideWrite, vars
  <1> QED
    BY <1>1, <1>2, <1>3, <1>4, <1>5, <1>6, <1>7, <1>8, <1>9, <1>10, <1>12,
       <1>13, <1>14, <1>15, <1>16, <1>17, <1>18, <1>19
       DEF Next, User, Tab, Fires, Answered

\* Unsaved work is scheduled, on its way, or told of, in every tab and whatever
\* fails.
THEOREM WorkAlwaysScheduled == Spec => [](\A t \in Tabs : WorkScheduled(t))
  <1> DEFINE Inv == TypeOK /\ SavesCover /\ \A t \in Tabs : WorkScheduled(t)
  <1>1. Init => Inv
    <2>1. Init => \A t \in Tabs : WorkScheduled(t)
      BY DEF Init, WorkScheduled, Unsaved
    <2> QED BY <2>1, Initially
  <1>2. Inv /\ [Next]_vars => Inv'
    BY TypeStep, CoverStep, WorkStep
  <1>3. Inv => \A t \in Tabs : WorkScheduled(t)
    OBVIOUS
  <1> HIDE DEF Inv
  <1> QED BY <1>1, <1>2, <1>3, PTL DEF Spec

\* A tab that shows no trouble has no unsaved work that is not on its way.
THEOREM NothingIsForgotten == Spec => []NothingForgotten
  <1>1. TypeOK /\ (\A t \in Tabs : WorkScheduled(t)) => NothingForgotten
    <2> SUFFICES ASSUME TypeOK, NEW t \in Tabs, WorkScheduled(t),
                        Unsaved(t) # {}, conflict[t] = 0,
                        status[t] \in {"idle", "saving"}, ~timer[t], ~retry[t]
                 PROVE  Unsaved(t) \subseteq UNION {chain[t][i].doc : i \in DOMAIN chain[t]}
      BY DEF NothingForgotten
    <2> DEFINE last == Len(chain[t])
    <2>1. chain[t] # <<>> /\ chain[t][last].doc = doc[t]
      BY DEF WorkScheduled
    <2>2. last \in DOMAIN chain[t]
      BY <2>1, LastSave DEF TypeOK
    <2> QED BY <2>1, <2>2 DEF Unsaved
  <1> QED BY <1>1, SiteSaveTyped, WorkAlwaysScheduled, PTL

-----------------------------------------------------------------------------
(* A page's saves do not race one another.                                 *)

Calm == spent["fault"] = 0 /\ spent["publish"] = 0

\* A rare event is counted.
LEMMA CalmBefore ==
  ASSUME TypeOK
  PROVE  \A r \in Rare : Spend(r) =>
           /\ spent'[r] # 0
           /\ Calm' => Calm /\ r \notin {"fault", "publish"}
  BY DEF TypeOK, Spend, Calm, Rare

\* A step that is not about tab u, nor writes in its name.
LEMMA OwnStays ==
  ASSUME NEW u \in Tabs, Untouched(u), OwnWritesKnown(u),
         \A v \in DOMAIN site' : site'[v].by = u => v \in DOMAIN site /\ site[v].by = u,
         \A o \in orphans' : o.by # u
  PROVE  OwnWritesKnown(u)'
  <1>1. \A v \in DOMAIN site' : site'[v].by = u => Knows(u, v)'
    BY DEF OwnWritesKnown, Knows, Untouched
  <1> QED BY <1>1 DEF OwnWritesKnown, Untouched

\* A step about tab t that writes nothing.
LEMMA OwnOfTab ==
  ASSUME \A u \in Tabs : OwnWritesKnown(u), UNCHANGED site,
         \A o \in orphans', u \in Tabs : o.by # u,
         NEW t \in Tabs, OwnWritesKnown(t)', \A u \in Tabs \ {t} : Untouched(u)
  PROVE  \A u \in Tabs : OwnWritesKnown(u)'
  <1>1. \A u \in Tabs \ {t} : OwnWritesKnown(u)'
    BY OwnStays
  <1> QED BY <1>1

\* A save joins the chain of an open page: it leaves with a baseline that is no
\* older than what the page wrote.
LEMMA OwnQueued ==
  ASSUME TypeOK, NEW t \in Tabs, NEW kind \in {"auto", "manual"}, NEW d,
         NEW b \in Nat, Enqueue(t, kind, d, b), OnlyWhenOpen(t),
         OwnWritesKnown(t), life[t] = "open", conflict'[t] = 0, base'[t] = b,
         \/ conflict[t] = 0 /\ b = base[t]
         \/ conflict[t] # 0 /\ b = dialog[t].token,
         UNCHANGED <<site, life, read, publish, orphans>>
  PROVE  OwnWritesKnown(t)'
  <1>1. flight'[t] = IF chain[t] = <<>> THEN Sent(b) ELSE flight[t]
    BY DEF TypeOK, Enqueue
  <1>2. chain[t] = <<>> <=> flight[t].phase = "idle"
    BY DEF OnlyWhenOpen
  <1>3. CASE chain[t] = <<>>
    <2>1. flight'[t].phase = "sent" /\ flight'[t].expected = b
      BY <1>1, <1>3 DEF Sent
    <2>2. \A v \in DOMAIN site : site[v].by = t => v <= b
      BY <1>2, <1>3 DEF OwnWritesKnown, Knows
    <2>3. \A v \in DOMAIN site' : site'[v].by = t => Knows(t, v)'
      BY <2>1, <2>2 DEF Knows
    <2> QED BY <2>1, <2>3 DEF OwnWritesKnown
  <1>4. CASE chain[t] # <<>>
    <2>1. conflict[t] = 0 /\ flight'[t] = flight[t] /\ base'[t] = base[t]
      BY <1>1, <1>2, <1>4 DEF OwnWritesKnown
    <2>2. \A v \in DOMAIN site' : site'[v].by = t => Knows(t, v)'
      BY <2>1 DEF OwnWritesKnown, Knows
    <2> QED BY <2>1, <2>2 DEF OwnWritesKnown
  <1> QED BY <1>3, <1>4

\* The first save is settled: the next one leaves with a baseline that is no
\* older than what the page wrote.
LEMMA OwnSettled ==
  ASSUME TypeOK, NEW t \in Tabs, NEW b \in Nat, Settle(t, b), OnlyWhenOpen(t),
         OwnWritesKnown(t), life[t] = "open", flight[t].phase # "idle",
         base'[t] = b, \A v \in DOMAIN site : site[v].by = t => v <= b,
         UNCHANGED <<site, life, read, conflict, dialog, publish, orphans>>
  PROVE  OwnWritesKnown(t)'
  <1>1. conflict[t] = 0
    BY DEF OwnWritesKnown
  <1>2. flight'[t] = Idle \/ flight'[t] = Sent(b)
    BY <1>1 DEF TypeOK, Settle
  <1>3. \/ flight'[t].phase = "idle"
        \/ flight'[t].phase = "sent" /\ flight'[t].expected = b
    BY <1>2 DEF Idle, Sent
  <1>4. \A v \in DOMAIN site' : site'[v].by = t => Knows(t, v)'
    BY <1>1, <1>3 DEF Knows
  <1> QED BY <1>1, <1>3, <1>4 DEF OwnWritesKnown

\* A conflict is raised, or raised again, while no request is out.
LEMMA OwnRaised ==
  ASSUME TypeOK, NEW t \in Tabs, NEW token \in Nat, Raise(t, token),
         OwnWritesKnown(t), life[t] = "open", flight'[t].phase = "idle",
         dialog[t].open => conflict[t] # 0,
         \A v \in DOMAIN site : site[v].by = t => v <= token,
         flight[t].phase # "ok",
         UNCHANGED <<site, life, read, base, publish>>,
         \A o \in orphans' : o.by # t
  PROVE  OwnWritesKnown(t)'
  <1>1. /\ conflict'[t] = token
        /\ dialog'[t] = IF dialog[t].open THEN dialog[t]
                        ELSE [token |-> token, open |-> TRUE]
    BY DEF TypeOK, Raise
  <1>2. \A v \in DOMAIN site : site[v].by = t => v <= dialog'[t].token
    BY <1>1 DEF OwnWritesKnown, Knows
  <1>3. \A v \in DOMAIN site' : site'[v].by = t => Knows(t, v)'
    BY <1>1, <1>2 DEF OwnWritesKnown, Knows
  <1> QED BY <1>3 DEF OwnWritesKnown

\* Every step without faults and publishes keeps a page aware of its writes.
LEMMA OwnStep ==
  ASSUME TypeOK, SavesCover, OwnWrites, [Next]_vars
  PROVE  OwnWrites'
  <1> USE DEF serverVars, loadVars, saveVars, dialogVars, uiVars, keptVars,
              ghostVars, tabVars
  <1> SUFFICES ASSUME Calm' PROVE \A u \in Tabs : OwnWritesKnown(u)'
    BY DEF OwnWrites, Calm
  <1>c. Calm
    <2>1. \A r \in Rare : Spend(r) => Calm
      BY CalmBefore
    <2>2. CASE UNCHANGED spent
      BY <2>2 DEF Calm
    <2>3. ASSUME NEW t \in Tabs, User(t)
          PROVE  UNCHANGED spent \/ \E r \in Rare : Spend(r)
      BY <2>3 DEF User, Reload, Edit, ManualSave, ManualSaveHeld,
              ManualSaveNotLoaded, Restore, Dismiss, Reopen, Overwrite,
              ReloadLatest, PublishSends, Rare
    <2>4. ASSUME NEW t \in Tabs, Tab(t)
          PROVE  UNCHANGED spent \/ \E r \in Rare : Spend(r)
      BY <2>4 DEF Tab, ReadRow, ReadPages, Loaded, LoadFails, Fires, AutosaveHeld,
              AutosaveNotLoaded, Autosave, RetryFires, Answered, OnSaved,
              OnConflict, OnFailure, OnUnauthorized, OnNetworkError,
              PublishRefused, PublishAccepted, Rare
    <2>5. ASSUME NEW t \in Tabs, Runs(t)
          PROVE  UNCHANGED spent \/ \E r \in Rare : Spend(r)
      BY <2>5 DEF Runs, SaveLands, SaveConflicts, SaveRefused, SaveOutran,
              SaveRechecked, Rare
    <2>6. ASSUME \/ \E o \in orphans : OrphanLands(o) \/ OrphanFails(o)
                 \/ OutsideWrite \/ UNCHANGED vars
          PROVE  UNCHANGED spent \/ \E r \in Rare : Spend(r)
      BY <2>6 DEF OrphanLands, OrphanFails, OutsideWrite, Rare, vars
    <2> QED BY <2>1, <2>2, <2>3, <2>4, <2>5, <2>6 DEF Next
  <1>0. /\ \A t \in Tabs : OwnWritesKnown(t) /\ CopiesCover(t) /\ TokensName(t)
                            /\ OnlyWhenOpen(t)
        /\ DOMAIN site = 1..Len(site) /\ Len(site) \in Nat \ {0} /\ Token = Len(site)
        /\ \A o \in orphans, u \in Tabs : o.by # u
    BY <1>c, VersionsTyped DEF SavesCover, OwnWrites, OwnWritesKnown, Calm, Token
  <1>d. ~Spend("fault") /\ ~Spend("publish")
    BY CalmBefore DEF Rare
  <1>e. \A t \in Tabs : life[t] # "failed" /\ publish[t] = 0
    BY <1>0 DEF OwnWritesKnown
  <1>f. \A t \in Tabs : flight[t].phase # "idle" => life[t] = "open" /\ conflict[t] = 0
    BY <1>0 DEF OnlyWhenOpen, OwnWritesKnown
  <1>g. ASSUME NEW t \in Tabs, life[t] = "loading"
        PROVE  flight[t].phase = "idle" /\ conflict[t] = 0
    BY <1>0, <1>g DEF OnlyWhenOpen
  <1>1. CASE UNCHANGED <<site, orphans>> /\ \A u \in Tabs : Untouched(u)
    BY <1>0, <1>1, OwnStays
  <1>2. ASSUME NEW t \in Tabs, ReadRow(t) \/ ReadPages(t)
        PROVE  \A u \in Tabs : OwnWritesKnown(u)'
    <2>1. \A u \in Tabs \ {t} : Untouched(u)
      BY <1>2 DEF TypeOK, Untouched, ReadRow, ReadPages
    <2>2. /\ life'[t] = "loading" /\ flight'[t].phase = "idle" /\ conflict'[t] = 0
          /\ publish'[t] = 0 /\ UNCHANGED <<site, orphans>>
          /\ read'[t].row \in {read[t].row, Len(site)}
      BY <1>0, <1>2, <1>e, <1>g DEF TypeOK, ReadRow, ReadPages
    <2>3. \A v \in DOMAIN site' : site'[v].by = t => Knows(t, v)'
      BY <1>0, <1>2, <2>2 DEF OwnWritesKnown, Knows, ReadRow, ReadPages
    <2>4. OwnWritesKnown(t)'
      BY <1>0, <2>2, <2>3 DEF OwnWritesKnown
    <2> QED BY <1>0, <2>1, <2>2, <2>4, OwnOfTab
  <1>3. ASSUME NEW t \in Tabs, Loaded(t)
        PROVE  \A u \in Tabs : OwnWritesKnown(u)'
    <2>1. \A u \in Tabs \ {t} : Untouched(u)
      BY <1>3 DEF TypeOK, Untouched, Loaded
    <2>2. /\ life'[t] = "open" /\ flight'[t].phase = "idle" /\ conflict'[t] = 0
          /\ publish'[t] = 0 /\ UNCHANGED <<site, orphans>>
          /\ base'[t] = read[t].row /\ read[t].row # 0 /\ life[t] = "loading"
      BY <1>3, <1>e, <1>g DEF TypeOK, Loaded
    <2>3. \A v \in DOMAIN site' : site'[v].by = t => Knows(t, v)'
      BY <1>0, <2>2 DEF OwnWritesKnown, Knows
    <2>4. OwnWritesKnown(t)'
      BY <1>0, <2>2, <2>3 DEF OwnWritesKnown
    <2> QED BY <1>0, <2>1, <2>2, <2>4, OwnOfTab
  <1>4. ASSUME NEW t \in Tabs, Reload(t) \/ ReloadLatest(t)
        PROVE  \A u \in Tabs : OwnWritesKnown(u)'
    <2>1. Unload(t)
      BY <1>4 DEF Reload, ReloadLatest
    <2>2. \A u \in Tabs \ {t} : Untouched(u)
      BY <2>1 DEF TypeOK, Untouched, Unload
    <2>3. /\ life'[t] = "loading" /\ flight'[t].phase = "idle" /\ conflict'[t] = 0
          /\ publish'[t] = 0 /\ read'[t].row = 0 /\ UNCHANGED site
      BY <2>1 DEF TypeOK, Unload, Idle
    <2>4. \A o \in orphans', u \in Tabs : o.by # u
      <3>1. \A o \in orphans : o \in Orphan
        BY DEF TypeOK
      <3>2. \A o \in orphans : [o EXCEPT !.by = IF @ = t THEN "gone" ELSE @].by = o.by
        BY <1>0, <3>1 DEF Orphan
      <3>3. \A u \in Tabs : "gone" # u
        BY TabsAssumption
      <3>4. ASSUME NEW o \in orphans', o.by # "gone"
            PROVE  \E p \in orphans : o.by = p.by
        <4>1. PICK p \in orphans : o = [p EXCEPT !.by = IF @ = t THEN "gone" ELSE @]
          BY <2>1, <3>4 DEF Unload
        <4> QED BY <3>2, <4>1
      <3> QED BY <1>0, <3>3, <3>4
    <2>5. OwnWritesKnown(t)'
      BY <2>3, <2>4 DEF OwnWritesKnown, Knows
    <2> QED BY <1>0, <2>2, <2>3, <2>4, <2>5, OwnOfTab
  <1>5. ASSUME NEW t \in Tabs, Edit(t) \/ Restore(t) \/ RetryFires(t)
                 \/ AutosaveHeld(t) \/ ManualSaveNotLoaded(t) \/ AutosaveNotLoaded(t)
        PROVE  \A u \in Tabs : OwnWritesKnown(u)'
    <2>1. \A u \in Tabs \ {t} : Untouched(u)
      BY <1>5 DEF TypeOK, Untouched, Edit, Restore, RetryFires, AutosaveHeld,
              ManualSaveNotLoaded, AutosaveNotLoaded, Changed, Show
    <2>2. UNCHANGED <<site, orphans, life, read, base, flight, conflict, dialog, publish>>
      BY <1>5 DEF Edit, Restore, RetryFires, AutosaveHeld, ManualSaveNotLoaded,
              AutosaveNotLoaded
    <2>3. OwnWritesKnown(t)'
      BY <1>0, <2>2 DEF OwnWritesKnown, Knows
    <2> QED BY <1>0, <2>1, <2>2, <2>3, OwnOfTab
  <1>6. ASSUME NEW t \in Tabs, Autosave(t)
        PROVE  \A u \in Tabs : OwnWritesKnown(u)'
    <2>1. \A u \in Tabs \ {t} : Untouched(u)
      BY <1>6 DEF TypeOK, Untouched, Autosave, Enqueue
    <2>2. /\ Enqueue(t, "auto", doc[t], base[t]) /\ base[t] \in Nat /\ life[t] = "open"
          /\ conflict[t] = 0 /\ UNCHANGED <<site, life, read, base, conflict, publish, orphans>>
      BY <1>6 DEF TypeOK, Autosave
    <2>3. OwnWritesKnown(t)'
      BY <1>0, <2>2, OwnQueued
    <2> QED BY <1>0, <2>1, <2>2, <2>3, OwnOfTab
  <1>7. ASSUME NEW t \in Tabs, ManualSave(t)
        PROVE  \A u \in Tabs : OwnWritesKnown(u)'
    <2>1. \A u \in Tabs \ {t} : Untouched(u)
      BY <1>7 DEF TypeOK, Untouched, ManualSave, Enqueue, Show
    <2>2. PICK d \in ShownBySave(t) : Enqueue(t, "manual", d, base[t])
      BY <1>7 DEF ManualSave
    <2>3. /\ base[t] \in Nat /\ life[t] = "open" /\ conflict[t] = 0
          /\ UNCHANGED <<site, life, read, base, conflict, publish, orphans>>
      BY <1>7 DEF TypeOK, ManualSave
    <2>4. OwnWritesKnown(t)'
      BY <1>0, <2>2, <2>3, OwnQueued
    <2> QED BY <1>0, <2>1, <2>3, <2>4, OwnOfTab
  <1>8. ASSUME NEW t \in Tabs, Overwrite(t)
        PROVE  \A u \in Tabs : OwnWritesKnown(u)'
    <2>1. \A u \in Tabs \ {t} : Untouched(u)
      BY <1>8 DEF TypeOK, Untouched, Overwrite, Enqueue, Show
    <2>2. PICK d \in ShownBySave(t) : Enqueue(t, "manual", d, dialog[t].token)
      BY <1>8 DEF Overwrite
    <2>3. /\ dialog[t].token \in Nat /\ life[t] = "open" /\ conflict[t] # 0
          /\ conflict'[t] = 0 /\ base'[t] = dialog[t].token
          /\ UNCHANGED <<site, life, read, publish, orphans>>
      BY <1>0, <1>8 DEF TypeOK, OnlyWhenOpen, Overwrite
    <2>4. OwnWritesKnown(t)'
      BY <1>0, <2>2, <2>3, OwnQueued
    <2> QED BY <1>0, <2>1, <2>3, <2>4, OwnOfTab
  <1>9. ASSUME NEW t \in Tabs, ManualSaveHeld(t) \/ Reopen(t) \/ Dismiss(t)
        PROVE  \A u \in Tabs : OwnWritesKnown(u)'
    <2>1. \A u \in Tabs \ {t} : Untouched(u)
      BY <1>9 DEF TypeOK, Untouched, ManualSaveHeld, Reopen, Dismiss, Raise, Show
    <2>2. UNCHANGED <<site, orphans, life, read, base, flight, publish>>
      BY <1>9 DEF ManualSaveHeld, Reopen, Dismiss
    <2>3. /\ conflict'[t] = conflict[t]
          /\ dialog'[t].token \in {dialog[t].token, conflict[t]}
      BY <1>9 DEF TypeOK, ManualSaveHeld, Reopen, Dismiss, Raise
    <2>4. OwnWritesKnown(t)'
      <3>1. \A v \in DOMAIN site' : site'[v].by = t => Knows(t, v)'
        BY <1>0, <2>2, <2>3 DEF OwnWritesKnown, Knows
      <3> QED BY <1>0, <2>2, <2>3, <3>1 DEF OwnWritesKnown
    <2> QED BY <1>0, <2>1, <2>2, <2>4, OwnOfTab
  <1>10. ASSUME NEW t \in Tabs, OnSaved(t)
        PROVE  \A u \in Tabs : OwnWritesKnown(u)'
    <2>1. \A u \in Tabs \ {t} : Untouched(u)
      BY <1>10 DEF TypeOK, Untouched, OnSaved, Settle
    <2>2. /\ flight[t].phase = "ok" /\ flight[t].token \in Nat /\ Settle(t, flight[t].token)
          /\ base'[t] = flight[t].token
          /\ UNCHANGED <<site, orphans, life, read, conflict, dialog, publish>>
      BY <1>10 DEF TypeOK, Request, OnSaved
    <2>3. \A v \in DOMAIN site : site[v].by = t => v <= flight[t].token
      BY <1>0, <1>f, <2>2 DEF OwnWritesKnown, Knows
    <2>4. OwnWritesKnown(t)'
      BY <1>0, <1>f, <2>2, <2>3, OwnSettled
    <2> QED BY <1>0, <2>1, <2>2, <2>4, OwnOfTab
  <1>11. ASSUME NEW t \in Tabs, OnFailure(t) \/ OnUnauthorized(t)
        PROVE  \A u \in Tabs : OwnWritesKnown(u)'
    <2>1. \A u \in Tabs \ {t} : Untouched(u)
      BY <1>11 DEF TypeOK, Untouched, OnFailure, OnUnauthorized, Settle
    <2>2. /\ flight[t].phase \notin {"idle", "ok"} /\ base[t] \in Nat
          /\ Settle(t, base[t]) /\ base' = base
          /\ UNCHANGED <<site, orphans, life, read, conflict, dialog, publish>>
      BY <1>11 DEF TypeOK, OnFailure, OnUnauthorized
    <2>3. \A v \in DOMAIN site : site[v].by = t => v <= base[t]
      BY <1>0, <1>f, <2>2 DEF OwnWritesKnown, Knows
    <2>4. OwnWritesKnown(t)'
      BY <1>0, <1>f, <2>2, <2>3, OwnSettled
    <2> QED BY <1>0, <2>1, <2>2, <2>4, OwnOfTab
  <1>12. ASSUME NEW t \in Tabs, OnConflict(t)
        PROVE  \A u \in Tabs : OwnWritesKnown(u)'
    <2>1. \A u \in Tabs \ {t} : Untouched(u)
      BY <1>12 DEF TypeOK, Untouched, OnConflict, Raise
    <2>2. /\ flight[t].phase \in {"conflict", "held"} /\ flight[t].token \in Nat
          /\ Raise(t, flight[t].token) /\ flight'[t].phase = "idle"
          /\ UNCHANGED <<site, orphans, life, read, base, publish>>
      BY <1>12 DEF TypeOK, Request, OnConflict, Idle
    <2>3. \A v \in DOMAIN site : site[v].by = t => v <= flight[t].token
      BY <1>0, <2>2 DEF OwnWritesKnown
    <2>4. OwnWritesKnown(t)'
      BY <1>0, <1>f, <2>2, <2>3, OwnRaised DEF OnlyWhenOpen
    <2> QED BY <1>0, <2>1, <2>2, <2>4, OwnOfTab
  <1>13. ASSUME NEW t \in Tabs, SaveConflicts(t) \/ SaveRefused(t)
        PROVE  \A u \in Tabs : OwnWritesKnown(u)'
    <2>1. \A u \in Tabs \ {t} : Untouched(u)
      BY <1>13, AnswerIs DEF Untouched, SaveConflicts, SaveRefused
    <2>2. /\ flight[t].phase = "sent" /\ conflict[t] = 0
          /\ UNCHANGED <<site, orphans, life, read, base, conflict, dialog, publish>>
      BY <1>13, <1>f DEF SaveConflicts, SaveRefused
    <2>3. \/ flight'[t].phase \in {"refused", "unauthorized"}
          \/ /\ flight'[t].phase = "conflict" /\ flight'[t].token = Len(site)
             /\ flight[t].expected # Len(site)
      BY <1>0, <1>13, AnswerIs DEF SaveConflicts, SaveRefused
    <2>4. \A v \in DOMAIN site : site[v].by = t =>
            v <= flight[t].expected /\ v <= Len(site) /\ v <= base[t]
      BY <1>0, <1>f, <2>2 DEF OwnWritesKnown, Knows
    <2>5. flight[t].expected \in 1..Len(site)
      BY <1>0, <2>2 DEF CopiesCover, Covers
    <2>6. \A v \in DOMAIN site' : site'[v].by = t => Knows(t, v)'
      BY <1>0, <1>f, <2>2, <2>3, <2>4 DEF Knows
    <2>7. flight'[t].phase = "conflict" =>
            \A v \in DOMAIN site : site[v].by = t => v < flight'[t].token
      BY <1>0, <2>3, <2>4, <2>5
    <2>8. OwnWritesKnown(t)'
      BY <1>0, <2>2, <2>3, <2>6, <2>7 DEF OwnWritesKnown
    <2> QED BY <1>0, <2>1, <2>2, <2>8, OwnOfTab
  <1>14. ASSUME NEW d \in SUBSET Edits, NEW w \in Writers, Write(d, w)
        PROVE  /\ DOMAIN site' = 1..Len(site) + 1
               /\ site'[Len(site) + 1].by = w
               /\ \A v \in DOMAIN site : site'[v] = site[v]
    <2> DEFINE version == [doc |-> d, by |-> w]
    <2>1. site \in Seq(Version) /\ version \in Version
      BY DEF TypeOK, Version
    <2>2. site' = Append(site, version)
      BY <1>14 DEF Write
    <2> HIDE DEF version
    <2>3. site'[Len(site) + 1] = version
      BY <2>1, <2>2
    <2>4. version.by = w
      BY DEF version
    <2> QED BY <1>14, <2>3, <2>4, WriteTyped
  <1>15. ASSUME NEW t \in Tabs, SaveLands(t)
        PROVE  \A u \in Tabs : OwnWritesKnown(u)'
    <2>1. \A u \in Tabs \ {t} : Untouched(u)
      BY <1>15, AnswerIs DEF Untouched, SaveLands
    <2>2. Head(chain[t]).doc \in SUBSET Edits /\ t \in Writers
      BY <1>0, <1>15, HeadTyped DEF OnlyWhenOpen, SaveLands, Writers
    <2>3. /\ DOMAIN site' = 1..Len(site) + 1 /\ site'[Len(site) + 1].by = t
          /\ \A v \in DOMAIN site : site'[v] = site[v]
      BY <1>14, <1>15, <2>2 DEF SaveLands
    <2>4. /\ flight[t].phase = "sent" /\ flight'[t].phase = "ok"
          /\ flight'[t].token = Len(site) + 1
          /\ UNCHANGED <<orphans, life, read, base, conflict, dialog, publish>>
      BY <1>0, <1>15, AnswerIs DEF SaveLands
    <2>5. \A v \in DOMAIN site' : site'[v].by = t => Knows(t, v)'
      BY <1>0, <1>f, <2>3, <2>4 DEF Knows
    <2>6. OwnWritesKnown(t)'
      BY <1>0, <1>f, <2>4, <2>5 DEF OwnWritesKnown
    <2>7. \A u \in Tabs \ {t} : OwnWritesKnown(u)'
      <3> SUFFICES ASSUME NEW u \in Tabs \ {t} PROVE OwnWritesKnown(u)'
        OBVIOUS
      <3>1. \A v \in DOMAIN site' : site'[v].by = u => v \in DOMAIN site /\ site[v].by = u
        BY <1>0, <2>3
      <3> QED BY <1>0, <2>1, <2>4, <3>1, OwnStays
    <2> QED BY <2>6, <2>7
  <1>16. ASSUME NEW d \in SUBSET Edits, NEW w \in Writers \ Tabs, Write(d, w),
               \A u \in Tabs : Untouched(u), orphans' \subseteq orphans
        PROVE  \A u \in Tabs : OwnWritesKnown(u)'
    <2> SUFFICES ASSUME NEW u \in Tabs PROVE OwnWritesKnown(u)'
      OBVIOUS
    <2>1. \A v \in DOMAIN site' : site'[v].by = u => v \in DOMAIN site /\ site[v].by = u
      BY <1>0, <1>14, <1>16
    <2> QED BY <1>0, <1>16, <2>1, OwnStays
  <1>17. ASSUME NEW o \in orphans, OrphanLands(o)
        PROVE  \A u \in Tabs : OwnWritesKnown(u)'
    <2>1. o.doc \in SUBSET Edits /\ o.by \in Writers \ Tabs
      BY <1>0 DEF TypeOK, Orphan
    <2>2. \A u \in Tabs : Untouched(u)
      BY <1>17 DEF Untouched, OrphanLands
    <2> QED BY <1>16, <1>17, <2>1, <2>2 DEF OrphanLands
  <1>18. ASSUME OutsideWrite
        PROVE  \A u \in Tabs : OwnWritesKnown(u)'
    <2>1. Content \in SUBSET Edits /\ "outside" \in Writers \ Tabs
      BY TabsAssumption, VersionsTyped DEF Writers
    <2>2. \A u \in Tabs : Untouched(u)
      BY <1>18 DEF Untouched, OutsideWrite
    <2> QED BY <1>16, <1>18, <2>1, <2>2 DEF OutsideWrite
  <1>19. ASSUME NEW o \in orphans, OrphanFails(o)
        PROVE  \A u \in Tabs : OwnWritesKnown(u)'
    <2>1. (\A u \in Tabs : Untouched(u)) /\ UNCHANGED site /\ orphans' \subseteq orphans
      BY <1>19 DEF Untouched, OrphanFails
    <2> QED BY <1>0, <2>1, OwnStays
  <1>20. ASSUME NEW t \in Tabs
        PROVE  /\ ~LoadFails(t) /\ ~SaveOutran(t) /\ ~OnNetworkError(t)
               /\ ~PublishSends(t) /\ ~PublishRefused(t) /\ ~PublishAccepted(t)
               /\ ~SaveRechecked(t)
    BY <1>0, <1>d, <1>e DEF OwnWritesKnown, LoadFails, SaveOutran, OnNetworkError,
       PublishSends, PublishRefused, PublishAccepted, SaveRechecked
  <1>21. CASE UNCHANGED vars
    BY <1>1, <1>21 DEF vars, Untouched
  <1> QED
    BY <1>2, <1>3, <1>4, <1>5, <1>6, <1>7, <1>8, <1>9, <1>10, <1>11, <1>12,
       <1>13, <1>15, <1>17, <1>18, <1>19, <1>20, <1>21
       DEF Next, User, Tab, Fires, Answered, Runs

\* While nothing faults and nothing is published, a page knows of all it wrote.
THEOREM OwnWritesAreKnown == Spec => []OwnWrites
  <1> DEFINE Inv == TypeOK /\ SavesCover /\ OwnWrites
  <1>1. Init => Inv
    <2>1. Init => OwnWrites
      BY DEF Init, OwnWrites, OwnWritesKnown, Knows, Idle
    <2> QED BY <2>1, Initially
  <1>2. Inv /\ [Next]_vars => Inv'
    BY TypeStep, CoverStep, OwnStep
  <1>3. Inv => OwnWrites
    OBVIOUS
  <1> HIDE DEF Inv
  <1> QED BY <1>1, <1>2, <1>3, PTL DEF Spec

\* A save is never refused over the same page's own earlier save.
THEOREM OwnSavesDoNotRace == Spec => []SavesDoNotRace
  <1>1. TypeOK /\ SavesCover /\ OwnWrites => SavesDoNotRace
    <2> SUFFICES ASSUME TypeOK, SavesCover, NEW t \in Tabs, OwnWritesKnown(t),
                        flight[t].phase = "conflict"
                 PROVE  site[flight[t].token].by # t
      BY DEF OwnWrites, SavesDoNotRace
    <2>1. flight[t].token \in DOMAIN site /\ flight[t].token \in Nat
      BY DEF TypeOK, Request, SavesCover, TokensName
    <2> QED BY <2>1 DEF OwnWritesKnown
  <1> QED BY <1>1, SavesAlwaysCover, OwnWritesAreKnown, PTL

-----------------------------------------------------------------------------
(* What is kept stays until the server has it.                             *)

\* Each tab has a browser to itself: no other tab shares its record.
OneTabEach == \A t, u \in Tabs : BrowserOf[t] = BrowserOf[u] => t = u

\* The part of a tab that its kept copy is compared with.
AtRest(t) ==
  /\ life'[t] = life[t] /\ doc'[t] = doc[t] /\ chain'[t] = chain[t]
  /\ offScreen'[t] = offScreen[t] /\ kept'[BrowserOf[t]] = kept[BrowserOf[t]]

\* A step about another tab.
LEMMA KeptStays ==
  ASSUME NEW t \in Tabs, AtRest(t), KeptShown(t)
  PROVE  KeptShown(t)'
  BY DEF KeptShown, AtRest

\* A tab writes no record but its own browser's.
LEMMA KeptOfOne ==
  ASSUME OneTabEach, TypeOK, NEW t \in Tabs, NEW u \in Tabs \ {t},
         \/ UNCHANGED kept
         \/ \E k \in SUBSET SUBSET Edits : kept' = [kept EXCEPT ![BrowserOf[t]] = k]
  PROVE  kept'[BrowserOf[u]] = kept[BrowserOf[u]]
  BY BrowserAssumption DEF OneTabEach, TypeOK

\* A page that is not open, with its kept copy.
LEMMA KeptUnopened ==
  ASSUME TypeOK, NEW t \in Tabs, life'[t] # "open", KeptShown(t),
         kept'[BrowserOf[t]] \in {kept[BrowserOf[t]], {}}
  PROVE  KeptShown(t)'
  BY DEF KeptShown

\* What keeping and dropping a copy does to the record.
LEMMA KeptIs ==
  ASSUME TypeOK, NEW t \in Tabs
  PROVE  /\ KeepUnsaved(t, doc[t]) =>
              /\ kept'[BrowserOf[t]] = IF offScreen[t] THEN kept[BrowserOf[t]] ELSE {doc[t]}
              /\ \/ UNCHANGED kept
                 \/ \E k \in SUBSET SUBSET Edits : kept' = [kept EXCEPT ![BrowserOf[t]] = k]
         /\ ClearUnsaved(t) =>
              /\ kept'[BrowserOf[t]] = IF offScreen[t] THEN kept[BrowserOf[t]] ELSE {}
              /\ \/ UNCHANGED kept
                 \/ \E k \in SUBSET SUBSET Edits : kept' = [kept EXCEPT ![BrowserOf[t]] = k]
  <1>1. BrowserOf[t] \in Browsers
    BY BrowserAssumption
  <1>2. \A k : kept' = [kept EXCEPT ![BrowserOf[t]] = k] => kept'[BrowserOf[t]] = k
    BY <1>1 DEF TypeOK
  <1>3. {doc[t]} \in SUBSET SUBSET Edits /\ {} \in SUBSET SUBSET Edits
    BY DEF TypeOK
  <1>4. CASE offScreen[t]
    BY <1>4 DEF KeepUnsaved, ClearUnsaved
  <1>5. CASE ~offScreen[t]
    <2>1. KeepUnsaved(t, doc[t]) => kept' = [kept EXCEPT ![BrowserOf[t]] = {doc[t]}]
      BY <1>5 DEF KeepUnsaved
    <2>2. ClearUnsaved(t) => kept' = [kept EXCEPT ![BrowserOf[t]] = {}]
      BY <1>5 DEF ClearUnsaved
    <2> QED BY <1>2, <1>3, <1>5, <2>1, <2>2, Zenon
  <1> QED BY <1>4, <1>5

\* What the manual save shows, and the tab when it is shown.
LEMMA KeptWhenShown ==
  ASSUME TypeOK, NEW t \in Tabs, KeptShown(t), life[t] = "open",
         NEW d \in ShownBySave(t)
  PROVE  /\ \A c \in kept[BrowserOf[t]] : c \subseteq d
         /\ \A i \in DOMAIN chain[t] : chain[t][i].newest =>
              chain[t][i].doc = d \/ kept[BrowserOf[t]] \subseteq {d}
  <1>1. CASE offScreen[t] /\ kept[BrowserOf[t]] # {}
    <2>1. d \in kept[BrowserOf[t]]
      BY <1>1 DEF ShownBySave
    <2>2. \A c \in kept[BrowserOf[t]] : c = d
      BY <2>1 DEF KeptShown
    <2> QED BY <2>2
  <1>2. CASE ~(offScreen[t] /\ kept[BrowserOf[t]] # {})
    <2>1. d = doc[t]
      BY <1>2 DEF ShownBySave
    <2>2. \A c \in kept[BrowserOf[t]] : c \subseteq doc[t]
      BY <1>2 DEF KeptShown
    <2>3. \A i \in DOMAIN chain[t] : chain[t][i].newest =>
            chain[t][i].doc = doc[t] \/ kept[BrowserOf[t]] \subseteq {doc[t]}
      BY DEF KeptShown
    <2> QED BY <2>1, <2>2, <2>3
  <1> QED BY <1>1, <1>2

\* A save joins the chain with the copy that it puts on screen.
LEMMA KeptQueued ==
  ASSUME TypeOK, NEW t \in Tabs, NEW kind \in {"auto", "manual"},
         NEW d \in SUBSET Edits, NEW b \in Nat, Enqueue(t, kind, d, b),
         KeptShown(t), life[t] = "open", UNCHANGED kept, doc'[t] = d,
         \/ d = doc[t] /\ UNCHANGED offScreen
         \/ d \in ShownBySave(t) /\ ~offScreen'[t]
  PROVE  KeptShown(t)'
  <1> DEFINE c == chain[t]
             s == [doc |-> d, kind |-> kind, newest |-> TRUE]
             copies == kept[BrowserOf[t]]
  <1>1. s \in Save /\ c \in Seq(Save) /\ chain'[t] = Append(c, s)
    BY DEF TypeOK, Save, Enqueue
  <1>2. /\ DOMAIN Append(c, s) = 1..Len(c) + 1 /\ Append(c, s)[Len(c) + 1] = s
        /\ DOMAIN c = 1..Len(c) /\ Len(c) \in Nat
        /\ \A i \in DOMAIN c : Append(c, s)[i] = c[i]
        /\ Append(c, s)[Len(Append(c, s))] = s
    BY <1>1, QueuedSave, LastSave
  <1>3. /\ offScreen'[t] \/ \A k \in copies : k \subseteq d
        /\ \A i \in DOMAIN c : c[i].newest =>
             c[i].doc = d \/ (~offScreen'[t] /\ copies \subseteq {d})
    <2>1. CASE d = doc[t] /\ UNCHANGED offScreen
      BY <2>1 DEF KeptShown
    <2>2. CASE d \in ShownBySave(t) /\ ~offScreen'[t]
      BY <2>2, KeptWhenShown
    <2> QED BY <2>1, <2>2
  <1>4. \A i \in DOMAIN Append(c, s) : Append(c, s)[i].newest =>
          /\ Append(c, s)[Len(Append(c, s))].newest
          /\ Append(c, s)[i].doc = d \/ (~offScreen'[t] /\ copies \subseteq {d})
    <2> HIDE DEF c, copies
    <2>1. s.newest /\ s.doc = d
      OBVIOUS
    <2> HIDE DEF s
    <2> QED BY <1>2, <1>3, <2>1
  <1>5. \A x, y \in copies : x = y
    BY DEF KeptShown
  <1> HIDE DEF c, s
  <1> QED BY <1>1, <1>3, <1>4, <1>5 DEF KeptShown

\* The first save is settled, and the record is kept, dropped, or left alone.
LEMMA KeptSettled ==
  ASSUME TypeOK, NEW t \in Tabs, chain[t] # <<>>, NEW b \in Nat, Settle(t, b),
         KeptShown(t), UNCHANGED <<doc, life, offScreen>>,
         \/ UNCHANGED kept
         \/ KeepUnsaved(t, doc[t])
         \/ ClearUnsaved(t)
  PROVE  KeptShown(t)'
  <1> DEFINE c == chain[t]
  <1>1. c \in Seq(Save) /\ chain'[t] = Tail(c)
    BY DEF TypeOK, Settle
  <1>2. /\ Len(c) \in Nat \ {0} /\ DOMAIN c = 1..Len(c)
        /\ DOMAIN Tail(c) = 1..Len(c) - 1
        /\ \A i \in 1..Len(c) - 1 : Tail(c)[i] = c[i + 1]
        /\ Tail(c) # <<>> => Tail(c)[Len(Tail(c))] = c[Len(c)]
        /\ \A i \in DOMAIN Tail(c) : Tail(c) # <<>>
    BY <1>1, SettledSave, LastSave
  <1>3. kept'[BrowserOf[t]] \in {kept[BrowserOf[t]]}
          \union (IF offScreen[t] THEN {} ELSE {{doc[t]}, {}})
    <2>1. CASE UNCHANGED kept
      BY <2>1
    <2>2. CASE KeepUnsaved(t, doc[t])
      BY <2>2, KeptIs
    <2>3. CASE ClearUnsaved(t)
      BY <2>3, KeptIs
    <2> QED BY <2>1, <2>2, <2>3
  <1>4. life[t] = "open" => \A i \in DOMAIN c : c[i].newest =>
          /\ c[Len(c)].newest
          /\ c[i].doc = doc[t] \/ (~offScreen[t] /\ kept[BrowserOf[t]] \subseteq {doc[t]})
    BY DEF KeptShown
  <1> HIDE DEF c
  <1>5. life[t] = "open" => \A i \in DOMAIN Tail(c) : Tail(c)[i].newest =>
          /\ Tail(c)[Len(Tail(c))].newest
          /\ Tail(c)[i].doc = doc[t]
               \/ (~offScreen[t] /\ kept[BrowserOf[t]] \subseteq {doc[t]})
    BY <1>2, <1>4
  <1>6. /\ \A x, y \in kept'[BrowserOf[t]] : x = y
        /\ life[t] = "open" => offScreen[t] \/ \A d \in kept'[BrowserOf[t]] : d \subseteq doc[t]
        /\ ~offScreen[t] /\ kept[BrowserOf[t]] \subseteq {doc[t]} =>
             kept'[BrowserOf[t]] \subseteq {doc[t]}
    BY <1>3 DEF KeptShown
  <1> QED BY <1>1, <1>5, <1>6 DEF KeptShown

\* A change outdates the saves of the chain.
LEMMA KeptChanged ==
  ASSUME TypeOK, NEW t \in Tabs, Changed(t), KeptShown(t), UNCHANGED <<kept, life>>,
         life[t] = "open" =>
           offScreen'[t] \/ \A d \in kept[BrowserOf[t]] : d \subseteq doc'[t]
  PROVE  KeptShown(t)'
  <1>1. chain'[t] = Outdated(chain[t]) /\ chain[t] \in Seq(Save)
    BY DEF TypeOK, Changed
  <1>2. \A i \in DOMAIN chain'[t] : ~chain'[t][i].newest
    BY <1>1, LastSave
  <1> QED BY <1>2 DEF KeptShown

\* A step about one tab.
LEMMA KeptOfTab ==
  ASSUME OneTabEach, TypeOK, \A u \in Tabs : KeptShown(u), NEW t \in Tabs,
         KeptShown(t)',
         \A u \in Tabs \ {t} :
           /\ life'[u] = life[u] /\ doc'[u] = doc[u] /\ chain'[u] = chain[u]
           /\ offScreen'[u] = offScreen[u],
         \/ UNCHANGED kept
         \/ \E k \in SUBSET SUBSET Edits : kept' = [kept EXCEPT ![BrowserOf[t]] = k]
  PROVE  \A u \in Tabs : KeptShown(u)'
  <1>1. \A u \in Tabs \ {t} : AtRest(u)
    BY KeptOfOne DEF AtRest
  <1> QED BY <1>1, KeptStays

\* Every step keeps what is kept on screen, or waiting to be.
LEMMA KeptStep ==
  ASSUME OneTabEach, TypeOK, SavesCover, \A u \in Tabs : KeptShown(u), [Next]_vars
  PROVE  \A u \in Tabs : KeptShown(u)'
  <1> USE DEF serverVars, loadVars, saveVars, dialogVars, uiVars, keptVars,
              ghostVars, tabVars
  <1>0. \A t \in Tabs : OnlyWhenOpen(t)
    BY DEF SavesCover
  <1>a. \A t \in Tabs : life[t] # "open" => chain[t] = <<>> /\ conflict[t] = 0
    BY <1>0 DEF OnlyWhenOpen
  <1>b. \A t \in Tabs : flight[t].phase # "idle" => chain[t] # <<>> /\ life[t] = "open"
    BY <1>0 DEF OnlyWhenOpen
  <1>1. CASE UNCHANGED <<life, doc, chain, kept, offScreen>>
    BY <1>1, KeptStays DEF AtRest
  <1>2. ASSUME NEW t \in Tabs, Loaded(t)
        PROVE  \A u \in Tabs : KeptShown(u)'
    <2>1. chain'[t] = <<>> /\ UNCHANGED kept /\ offScreen'[t] = (kept[BrowserOf[t]] # {})
      BY <1>2, <1>a DEF TypeOK, Loaded
    <2>2. KeptShown(t)'
      <3>1. DOMAIN chain'[t] = {}
        BY <2>1
      <3> QED BY <2>1, <3>1 DEF KeptShown
    <2> QED BY <1>2, <2>1, <2>2, KeptOfTab DEF TypeOK, Loaded
  <1>3. ASSUME NEW t \in Tabs, LoadFails(t)
        PROVE  \A u \in Tabs : KeptShown(u)'
    <2>1. life'[t] # "open" /\ UNCHANGED kept
      BY <1>3 DEF TypeOK, LoadFails
    <2>2. KeptShown(t)'
      BY <2>1, KeptUnopened
    <2> QED BY <1>3, <2>1, <2>2, KeptOfTab DEF TypeOK, LoadFails
  <1>4. ASSUME NEW t \in Tabs, Reload(t) \/ ReloadLatest(t)
        PROVE  \A u \in Tabs : KeptShown(u)'
    <2>1. Unload(t)
      BY <1>4 DEF Reload, ReloadLatest
    <2>2. kept'[BrowserOf[t]] \in {kept[BrowserOf[t]], {}}
      BY <1>4, BrowserAssumption DEF TypeOK, Reload, ReloadLatest
    <2>3. \/ UNCHANGED kept
          \/ \E k \in SUBSET SUBSET Edits : kept' = [kept EXCEPT ![BrowserOf[t]] = k]
      BY <1>4 DEF Reload, ReloadLatest
    <2>4. KeptShown(t)'
      BY <2>1, <2>2, KeptUnopened DEF TypeOK, Unload
    <2> QED BY <2>1, <2>3, <2>4, KeptOfTab DEF TypeOK, Unload
  <1>5. ASSUME NEW t \in Tabs, Edit(t)
        PROVE  \A u \in Tabs : KeptShown(u)'
    <2>1. doc[t] \subseteq doc'[t] /\ UNCHANGED <<kept, life, offScreen>> /\ Changed(t)
      BY <1>5 DEF TypeOK, Edit
    <2>2. KeptShown(t)'
      <3>1. life[t] = "open" =>
              offScreen'[t] \/ \A d \in kept[BrowserOf[t]] : d \subseteq doc'[t]
        BY <2>1 DEF KeptShown
      <3> QED BY <2>1, <3>1, KeptChanged
    <2> QED BY <1>5, <2>1, <2>2, KeptOfTab DEF TypeOK, Edit, Changed
  <1>6. ASSUME NEW t \in Tabs, Restore(t)
        PROVE  \A u \in Tabs : KeptShown(u)'
    <2>1. PICK d \in kept[BrowserOf[t]] : Show(t, d)
      BY <1>6 DEF Restore
    <2>2. doc'[t] = d /\ Changed(t) /\ UNCHANGED <<kept, life>>
      BY <1>6, <2>1 DEF TypeOK, Show, Restore
    <2>3. \A c \in kept[BrowserOf[t]] : c = d
      BY <2>1 DEF KeptShown
    <2>4. KeptShown(t)'
      BY <2>2, <2>3, KeptChanged
    <2> QED BY <1>6, <2>1, <2>2, <2>4, KeptOfTab DEF TypeOK, Restore, Show, Changed
  <1>7. ASSUME NEW t \in Tabs, RetryFires(t)
        PROVE  \A u \in Tabs : KeptShown(u)'
    <2>1. UNCHANGED <<doc, kept, life, offScreen>> /\ Changed(t)
      BY <1>7 DEF RetryFires
    <2>2. KeptShown(t)'
      <3>1. life[t] = "open" =>
              offScreen'[t] \/ \A d \in kept[BrowserOf[t]] : d \subseteq doc'[t]
        BY <2>1 DEF KeptShown
      <3> QED BY <2>1, <3>1, KeptChanged
    <2> QED BY <1>7, <2>1, <2>2, KeptOfTab DEF TypeOK, RetryFires, Changed
  <1>8. ASSUME NEW t \in Tabs, AutosaveHeld(t)
        PROVE  \A u \in Tabs : KeptShown(u)'
    <2>1. KeepUnsaved(t, doc[t]) /\ UNCHANGED <<life, doc, chain, offScreen>>
      BY <1>8 DEF AutosaveHeld
    <2>2. kept'[BrowserOf[t]] = IF offScreen[t] THEN kept[BrowserOf[t]] ELSE {doc[t]}
      BY <2>1, KeptIs
    <2>3. KeptShown(t)'
      BY <2>1, <2>2 DEF KeptShown
    <2> QED BY <2>1, <2>3, KeptIs, KeptOfTab
  <1>9. ASSUME NEW t \in Tabs, Autosave(t)
        PROVE  \A u \in Tabs : KeptShown(u)'
    <2>1. /\ Enqueue(t, "auto", doc[t], base[t]) /\ doc[t] \in SUBSET Edits
          /\ base[t] \in Nat /\ life[t] = "open"
          /\ UNCHANGED <<life, doc, kept, offScreen>>
      BY <1>9 DEF TypeOK, Autosave
    <2>2. KeptShown(t)'
      BY <2>1, KeptQueued
    <2> QED BY <1>9, <2>1, <2>2, KeptOfTab DEF TypeOK, Enqueue
  <1>10. ASSUME NEW t \in Tabs, ManualSave(t) \/ Overwrite(t)
        PROVE  \A u \in Tabs : KeptShown(u)'
    <2>1. PICK d \in ShownBySave(t), b \in Nat : Show(t, d) /\ Enqueue(t, "manual", d, b)
      BY <1>10 DEF TypeOK, ManualSave, Overwrite
    <2>2. d \in SUBSET Edits /\ doc'[t] = d /\ ~offScreen'[t]
      BY <2>1, KeptTyped DEF TypeOK, Show
    <2>3. life[t] = "open" /\ UNCHANGED <<kept, life>>
      BY <1>10, <1>0 DEF OnlyWhenOpen, ManualSave, Overwrite
    <2>4. KeptShown(t)'
      BY <2>1, <2>2, <2>3, KeptQueued
    <2> QED BY <2>1, <2>3, <2>4, KeptOfTab DEF TypeOK, Show, Enqueue
  <1>11. ASSUME NEW t \in Tabs, ManualSaveHeld(t)
        PROVE  \A u \in Tabs : KeptShown(u)'
    <2>1. PICK d \in ShownBySave(t) : Show(t, d)
      BY <1>11 DEF ManualSaveHeld
    <2>2. /\ doc'[t] = d /\ ~offScreen'[t] /\ life[t] = "open"
          /\ UNCHANGED <<kept, life, chain>>
      BY <1>11, <2>1 DEF TypeOK, Show, ManualSaveHeld
    <2>3. /\ \A c \in kept[BrowserOf[t]] : c \subseteq d
          /\ \A i \in DOMAIN chain[t] : chain[t][i].newest =>
               chain[t][i].doc = d \/ kept[BrowserOf[t]] \subseteq {d}
      BY <2>1, <2>2, KeptWhenShown
    <2>4. KeptShown(t)'
      BY <2>2, <2>3 DEF KeptShown
    <2> QED BY <2>1, <2>2, <2>4, KeptOfTab DEF TypeOK, Show
  <1>12. ASSUME NEW t \in Tabs, OnSaved(t) \/ OnUnauthorized(t) \/ OnNetworkError(t)
                  \/ OnFailure(t)
        PROVE  \A u \in Tabs : KeptShown(u)'
    <2>1. /\ chain[t] # <<>> /\ UNCHANGED <<doc, life, offScreen>>
          /\ \E b \in Nat : Settle(t, b)
      BY <1>12, <1>b DEF TypeOK, Request, OnSaved, OnUnauthorized, OnNetworkError, OnFailure
    <2>2. UNCHANGED kept \/ KeepUnsaved(t, doc[t]) \/ ClearUnsaved(t)
      BY <1>12 DEF OnSaved, OnUnauthorized, OnNetworkError, OnFailure
    <2>3. KeptShown(t)'
      BY <2>1, <2>2, KeptSettled
    <2>4. \A u \in Tabs \ {t} : chain'[u] = chain[u]
      BY <2>1 DEF TypeOK, Settle
    <2>5. \/ UNCHANGED kept
          \/ \E k \in SUBSET SUBSET Edits : kept' = [kept EXCEPT ![BrowserOf[t]] = k]
      BY <2>2, KeptIs
    <2> QED BY <2>1, <2>3, <2>4, <2>5, KeptOfTab
  <1>13. ASSUME NEW t \in Tabs, OnConflict(t)
        PROVE  \A u \in Tabs : KeptShown(u)'
    <2>1. chain'[t] = <<>> /\ UNCHANGED <<life, doc, kept, offScreen>>
      BY <1>13 DEF TypeOK, OnConflict
    <2>2. KeptShown(t)'
      <3>1. DOMAIN chain'[t] = {}
        BY <2>1
      <3> QED BY <2>1, <3>1 DEF KeptShown
    <2> QED BY <1>13, <2>1, <2>2, KeptOfTab DEF TypeOK, OnConflict
  <1>14. ASSUME NEW t \in Tabs, ReadRow(t) \/ ReadPages(t) \/ AutosaveNotLoaded(t)
                  \/ ManualSaveNotLoaded(t) \/ Dismiss(t) \/ Reopen(t)
                  \/ PublishSends(t) \/ PublishRefused(t) \/ PublishAccepted(t)
        PROVE  UNCHANGED <<life, doc, chain, kept, offScreen>>
    BY <1>14 DEF ReadRow, ReadPages, AutosaveNotLoaded, ManualSaveNotLoaded,
       Dismiss, Reopen, PublishSends, PublishRefused, PublishAccepted
  <1>15. ASSUME \/ \E t \in Tabs : Runs(t)
                \/ \E o \in orphans : OrphanLands(o) \/ OrphanFails(o)
                \/ OutsideWrite \/ UNCHANGED vars
        PROVE  UNCHANGED <<life, doc, chain, kept, offScreen>>
    BY <1>15 DEF Runs, SaveLands, SaveConflicts, SaveRefused, SaveOutran,
       SaveRechecked, OrphanLands, OrphanFails, OutsideWrite, vars
  <1> QED
    BY <1>1, <1>2, <1>3, <1>4, <1>5, <1>6, <1>7, <1>8, <1>9, <1>10, <1>11,
       <1>12, <1>13, <1>14, <1>15 DEF Next, User, Tab, Fires, Answered

\* The answer to an autosave drops no work that is kept.
LEMMA AutosaveStep ==
  ASSUME OneTabEach, TypeOK, SavesCover, [Next]_vars, NEW t \in Tabs,
         WorkScheduled(t), KeptShown(t), conflict[t] = 0
  PROVE  AutosaveKeepsWork(t)
  <1> USE DEF serverVars, loadVars, saveVars, dialogVars, uiVars, keptVars,
              ghostVars, tabVars
  <1> DEFINE copies == kept[BrowserOf[t]]
             c == chain[t]
  <1> SUFFICES ASSUME flight[t].phase = "ok", Head(c).kind = "auto",
                      flight'[t] # flight[t], life'[t] = "open",
                      NEW d \in copies
               PROVE  \/ \E k \in kept'[BrowserOf[t]] : d \subseteq k
                      \/ d \subseteq Saved'
                      \/ \E i \in DOMAIN chain'[t] : chain'[t][i].doc = d
    BY DEF AutosaveKeepsWork
  <1>0. OnlyWhenOpen(t) /\ TokensName(t) /\ Saved \subseteq Saved'
    BY SavedGrows DEF SavesCover
  <1>1. c # <<>> /\ life[t] = "open" /\ publish[t] \in Nat
    BY <1>0 DEF OnlyWhenOpen, TypeOK
  <1>2. Head(c).doc \subseteq Saved
    <2>1. flight[t].token \in DOMAIN site /\ site[flight[t].token].doc = Head(c).doc
      BY <1>0 DEF TokensName
    <2> QED BY <2>1 DEF Saved
  <1>3. c \in Seq(Save)
    BY DEF TypeOK
  <1>4. CASE OnSaved(t)
    <2>1. CASE ~Announces(Head(c)) \/ offScreen[t]
      <3>1. UNCHANGED kept
        BY <1>4, <2>1 DEF OnSaved, ClearUnsaved
      <3> QED BY <3>1
    <2>2. CASE Announces(Head(c)) /\ ~offScreen[t]
      <3>1. Head(c).newest
        BY <2>2 DEF Announces
      <3>2. Head(c) = c[1] /\ 1 \in DOMAIN c
        BY <1>1, <1>3, SettledSave
      <3>3. d \subseteq doc[t] /\ c[Len(c)].newest /\ (c[1].doc = doc[t] \/ d = doc[t])
        BY <1>1, <2>2, <3>1, <3>2 DEF KeptShown
      <3>4. CASE c[1].doc = doc[t]
        BY <1>0, <1>2, <3>2, <3>3, <3>4
      <3>5. CASE d = doc[t]
        <4>1. c[Len(c)].doc = d
          BY <1>1, <3>3, <3>5 DEF WorkScheduled
        <4>2. CASE Tail(c) = <<>>
          <5>1. Head(c) = c[Len(c)]
            BY <1>1, <1>3, <4>2, LastSave
          <5> QED BY <1>0, <1>2, <4>1, <5>1
        <4>3. CASE Tail(c) # <<>>
          <5>1. chain'[t] = Tail(c)
            BY <1>4 DEF TypeOK, OnSaved, Settle
          <5>2. Tail(c)[Len(Tail(c))] = c[Len(c)]
            BY <1>1, <1>3, <4>3, LastSave
          <5>3. Tail(c) \in Seq(Save)
            BY <1>1, <1>3, SettledSave
          <5>4. Len(Tail(c)) \in DOMAIN Tail(c)
            BY <4>3, <5>3, LastSave
          <5> QED BY <4>1, <5>1, <5>2, <5>4
        <4> QED BY <4>2, <4>3
      <3> QED BY <3>3, <3>4, <3>5
    <2> QED BY <2>1, <2>2
  <1>5. CASE OnNetworkError(t)
    <2>1. KeepUnsaved(t, doc[t])
      BY <1>5 DEF OnNetworkError
    <2>2. kept'[BrowserOf[t]] = IF offScreen[t] THEN copies ELSE {doc[t]}
      BY <2>1, KeptIs
    <2>3. offScreen[t] \/ d \subseteq doc[t]
      BY <1>1 DEF KeptShown
    <2> QED BY <2>2, <2>3
  <1>6. ASSUME NEW u \in Tabs, User(u)
        PROVE  FALSE
    <2>1. ASSUME Reload(u) \/ ReloadLatest(u)
          PROVE  FALSE
      <3>1. Unload(u)
        BY <2>1 DEF Reload, ReloadLatest
      <3>2. u = t => life'[t] = "loading"
        BY <3>1 DEF TypeOK, Unload
      <3>3. u # t => flight'[t] = flight[t]
        BY <3>1 DEF TypeOK, Unload
      <3> QED BY <3>2, <3>3
    <2>2. ASSUME NEW x, NEW kind, NEW b, Enqueue(u, kind, x, b)
          PROVE  FALSE
      BY <1>1, <2>2 DEF TypeOK, Enqueue
    <2>3. ~(ManualSave(u) \/ Overwrite(u))
      BY <2>2 DEF ManualSave, Overwrite
    <2> QED BY <1>6, <2>1, <2>3 DEF User, Edit, ManualSaveHeld, ManualSaveNotLoaded,
            Restore, Dismiss, Reopen, PublishSends
  <1>7. ASSUME NEW u \in Tabs, Tab(u), ~(u = t /\ (OnSaved(t) \/ OnNetworkError(t)))
        PROVE  FALSE
    <2>1. ASSUME NEW b, Settle(u, b), u # t
          PROVE  FALSE
      BY <2>1 DEF TypeOK, Settle
    <2>2. ~(OnSaved(u) \/ OnNetworkError(u))
      BY <1>7, <2>1 DEF OnSaved, OnNetworkError
    <2>3. ~(OnFailure(u) \/ OnUnauthorized(u))
      BY <2>1 DEF OnFailure, OnUnauthorized
    <2>4. ~OnConflict(u)
      BY DEF TypeOK, OnConflict
    <2>5. ~Autosave(u)
      BY <1>1 DEF TypeOK, Autosave, Enqueue
    <2> QED BY <1>7, <2>2, <2>3, <2>4, <2>5 DEF Tab, ReadRow, ReadPages, Loaded,
            LoadFails, Fires, AutosaveHeld, AutosaveNotLoaded, RetryFires,
            Answered, PublishRefused, PublishAccepted
  <1>8. ASSUME NEW u \in Tabs, Runs(u)
        PROVE  FALSE
    <2>1. flight[u].phase \in {"sent", "unsure"}
      BY <1>8 DEF Runs, SaveLands, SaveConflicts, SaveRefused, SaveOutran, SaveRechecked
    <2>2. \E p, n : Answer(u, p, n)
      BY <1>8 DEF Runs, SaveLands, SaveConflicts, SaveRefused, SaveOutran, SaveRechecked
    <2> QED BY <2>1, <2>2, AnswerIs
  <1>9. ASSUME \/ \E o \in orphans : OrphanLands(o) \/ OrphanFails(o)
               \/ OutsideWrite \/ UNCHANGED vars
        PROVE  FALSE
    BY <1>9 DEF OrphanLands, OrphanFails, OutsideWrite, vars
  <1> QED BY <1>4, <1>5, <1>6, <1>7, <1>8, <1>9 DEF Next

\* With a browser to itself, a tab whose autosave succeeds drops no kept work
\* that the server does not have and no queued save carries.
THEOREM KeptWorkStays == OneTabEach => (Spec => KeptUntilSaved)
  <1> SUFFICES ASSUME OneTabEach PROVE Spec => KeptUntilSaved
    OBVIOUS
  <1> DEFINE Inv == TypeOK /\ SavesCover /\ \A t \in Tabs : WorkScheduled(t) /\ KeptShown(t)
             Keeps == \A t \in Tabs : conflict[t] = 0 => AutosaveKeepsWork(t)
  <1>1. Init => Inv
    <2>1. Init => \A t \in Tabs : WorkScheduled(t) /\ KeptShown(t)
      BY BrowserAssumption DEF Init, WorkScheduled, Unsaved, KeptShown
    <2> QED BY <2>1, Initially
  <1>2. Inv /\ [Next]_vars => Inv'
    BY TypeStep, CoverStep, WorkStep, KeptStep
  <1>3. Inv /\ [Next]_vars => [Keeps]_vars
    BY AutosaveStep
  <1> QED BY <1>1, <1>2, <1>3, PTL DEF Spec, KeptUntilSaved

=============================================================================
