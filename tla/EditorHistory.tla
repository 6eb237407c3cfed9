---------------------------- MODULE EditorHistory ----------------------------
(***************************************************************************)
(* Undo and redo in the editor (HistoryManager.ts, utils/JsonPatch.ts).    *)
(*                                                                         *)
(* The undo stack holds checkpoints, which are whole snapshots, and        *)
(* patches, which say what changed since the entry below; the last entry   *)
(* is the document as it is recorded.  An edit is recorded only when two   *)
(* timers have run after it, so that a burst of edits becomes one entry,   *)
(* and what undo restores is computed from the nearest checkpoint below.   *)
(*                                                                         *)
(* The document is a value for each of its parts.  The editor runs on one  *)
(* thread: an action is one callback.  There is no other editor of the     *)
(* same site: recordForCollaboration and applyRemoteOperation are not here.*)
(***************************************************************************)
EXTENDS Naturals, Sequences

CONSTANTS
  Parts,              \* the parts of the document
  Values,             \* what a part may be
  Empty,              \* the state {} that has no parts
  Throws,             \* a patch that does not fit its document
  CheckpointInterval, \* config.checkpointInterval
  MaxHistory,         \* config.maxHistory
  MaxRare             \* bound: loads, clears, untracked writes and restorations that
                      \* outgrow MaxHistory in one history

ASSUME SizeAssumption ==
  CheckpointInterval \in Nat \ {0} /\ MaxHistory \in Nat \ {0} /\ MaxRare \in Nat
ASSUME EmptyAssumption == Empty # Throws /\ {Empty, Throws} \intersect [Parts -> Values] = {}

VARIABLES
  doc,        \* the live project
  stacks,     \* undoStack, redoStack, currentStateCache, patchesSinceCheckpoint
              \* and lastActionRecorded
  timer,      \* which timer of the coalescing chain is set
  untracked,  \* history: the project holds a write no entry will have recorded
  rare        \* bound: those so far

vars == <<doc, stacks, timer, untracked, rare>>

-----------------------------------------------------------------------------
(* Patches.                                                                *)

Documents == [Parts -> Values]

\* createPatch: what to set.  From {} it sets everything.
PatchOf(old, new) ==
  IF old = Empty THEN new ELSE [p \in {p \in Parts : old[p] # new[p]} |-> new[p]]

\* applyPatch throws when its path is not there.
Applied(old, patch) ==
  IF old \in {Empty, Throws}
  THEN IF old = Empty /\ DOMAIN patch = Parts THEN patch ELSE Throws
  ELSE [p \in Parts |-> IF p \in DOMAIN patch THEN patch[p] ELSE old[p]]

\* An entry also says which document the user saw when it was recorded, whether
\* its snapshot is that document, and whether a toast offers to undo it.
Checkpoint(state) ==
  [type |-> "checkpoint", state |-> state, patch |-> <<>>, seen |-> state,
   sound |-> TRUE, toast |-> FALSE]
Delta(patch, seen) ==
  [type |-> "patch", state |-> Empty, patch |-> patch, seen |-> seen,
   sound |-> FALSE, toast |-> FALSE]

Checkpoints(stack) == {i \in 1..Len(stack) : stack[i].type = "checkpoint"}

\* reconstructState: from the last checkpoint upwards.  Without one it is the
\* newest entry's snapshot, or {}.
Reconstructed(stack, i) ==
  LET below == {c \in Checkpoints(stack) : c <= i} IN
  IF below = {}
  THEN stack[Len(stack)].state
  ELSE LET c == CHOOSE c \in below : \A d \in below : d <= c
           state[j \in c..i] ==
             IF j = c THEN stack[c].state ELSE Applied(state[j - 1], stack[j].patch)
       IN state[i]

-----------------------------------------------------------------------------
(* What the operations do to the stacks.                                   *)

Top(s) == s.undo[Len(s.undo)]
Popped(stack) == SubSeq(stack, 1, Len(stack) - 1)

\* The newest entries that fit, and how many do not.
Kept(stack) == SubSeq(stack, Len(stack) - MaxHistory + 1, Len(stack))
Surplus(stack) == 1..(Len(stack) - MaxHistory)

\* (mutant) the entry that becomes the oldest stays a patch.
TrimmedPlainly(stack) == IF Len(stack) <= MaxHistory THEN stack ELSE Kept(stack)

\* trimHistory shifts one entry after the other.  When a checkpoint goes the next
\* entry becomes one, until it goes itself -- after its own checkpoint has gone.
Trimmed(stack) ==
  IF Len(stack) <= MaxHistory THEN stack
  ELSE LET rest == Kept(stack) IN
       IF Checkpoints(stack) \intersect Surplus(stack) # {} /\ rest[1].type = "patch"
       THEN LET state == Reconstructed(rest, 1) IN
            [rest EXCEPT ![1] = [Checkpoint(state) EXCEPT !.seen = rest[1].seen,
                                                          !.sound = FALSE]]
       ELSE rest

\* record: nothing if nothing changed.
Recorded(s, new) ==
  IF s.cache = new THEN s
  ELSE LET full == s.count + 1 >= CheckpointInterval
           entry == IF full THEN Checkpoint(new) ELSE Delta(PatchOf(s.cache, new), new) IN
       [undo |-> Trimmed(Append(s.undo, entry)), redo |-> <<>>, cache |-> new,
        count |-> IF full THEN 0 ELSE s.count + 1, offered |-> TRUE]

\* (mutant) an edit in the coalescing window is not seen as owed.
FlushedIfArmed == IF timer = "armed" THEN Recorded(stacks, doc) ELSE stacks

\* flushPending: an edit that is owed a record gets it now.
Flushed == IF timer = "none" THEN stacks ELSE Recorded(stacks, doc)

\* updatePatchCounter.
Counted(stack) ==
  LET patches == {n \in 0..Len(stack) :
                    \A i \in (Len(stack) - n + 1)..Len(stack) : stack[i].type = "patch"} IN
  CHOOSE n \in patches : \A m \in patches : m <= n

CanUndo(s) == Len(s.undo) > 1 /\ s.offered

\* (mutant) the cache is left as it was.
UndoneStale(s) ==
  LET below == Popped(s.undo)
      state == Reconstructed(below, Len(below)) IN
  IF state = Throws THEN s
  ELSE [undo |-> below,
        redo |-> Append(s.redo, IF Top(s).type = "patch" THEN Top(s)
                                ELSE Delta(PatchOf(state, Top(s).state), Top(s).seen)),
        cache |-> s.cache, count |-> Counted(below), offered |-> TRUE]

\* (mutant) a popped checkpoint becomes a patch without its changes.
UndoneEmptily(s) ==
  LET below == Popped(s.undo)
      state == Reconstructed(below, Len(below)) IN
  IF state = Throws THEN s
  ELSE [undo |-> below,
        redo |-> Append(s.redo, IF Top(s).type = "patch" THEN Top(s)
                                ELSE Delta(Top(s).patch, Top(s).seen)),
        cache |-> state, count |-> Counted(below), offered |-> TRUE]

\* undo pops an entry and restores what is below it, unless that cannot be
\* computed; a popped checkpoint goes to the redo stack as a patch.
Undone(s) ==
  LET below == Popped(s.undo)
      state == Reconstructed(below, Len(below))
      entry == IF Top(s).type = "checkpoint"
               THEN Delta(PatchOf(state, Top(s).state), Top(s).seen) ELSE Top(s) IN
  IF state = Throws THEN s
  ELSE [undo |-> below, redo |-> Append(s.redo, entry), cache |-> state,
        count |-> Counted(below), offered |-> TRUE]

Redone(s) ==
  LET entry == s.redo[Len(s.redo)]
      state == Applied(s.cache, entry.patch)
      above == Append(s.undo, entry) IN
  IF state = Throws THEN s
  ELSE [undo |-> above, redo |-> Popped(s.redo), cache |-> state,
        count |-> Counted(above), offered |-> TRUE]

Baseline(state, offered) ==
  [undo |-> <<Checkpoint(state)>>, redo |-> <<>>, cache |-> state, count |-> 0,
   offered |-> offered]

Init ==
  /\ doc \in Documents
  /\ stacks = Baseline(doc, TRUE)
  /\ timer = "none"
  /\ untracked = FALSE
  /\ rare = 0

-----------------------------------------------------------------------------
(* Edits and their timers.                                                 *)

\* PROJECT_CHANGED: the first timer is set; the second, if it ran, is not.
Edit(p, v) ==
  /\ doc # Empty /\ doc[p] # v
  /\ doc' = [doc EXCEPT ![p] = v]
  /\ timer' = "armed"
  /\ UNCHANGED <<stacks, untracked, rare>>

TimerFires ==
  /\ timer = "armed"
  /\ timer' = "coalescing"
  /\ UNCHANGED <<doc, stacks, untracked, rare>>

CoalesceFires ==
  /\ timer = "coalescing"
  /\ timer' = "none"
  /\ stacks' = Recorded(stacks, doc)
  /\ untracked' = FALSE
  /\ UNCHANGED <<doc, rare>>

\* A content binding writes into the document, and asks for no record of it.
WriteUntracked(p, v) ==
  /\ doc # Empty /\ doc[p] # v /\ rare < MaxRare
  /\ rare' = rare + 1
  /\ doc' = [doc EXCEPT ![p] = v]
  /\ untracked' = TRUE
  /\ UNCHANGED <<stacks, timer>>

\* Then it either records the step itself, which leaves the timers alone ...
RecordNow ==
  /\ doc # Empty /\ untracked
  /\ stacks' = Recorded(stacks, doc)
  /\ untracked' = FALSE
  /\ UNCHANGED <<doc, timer, rare>>

\* ... or says that undo does not know of it.
NoteUnrecordedAction ==
  /\ doc # Empty
  /\ stacks' = [stacks EXCEPT !.offered = FALSE]
  /\ UNCHANGED <<doc, timer, untracked, rare>>

-----------------------------------------------------------------------------
(* Undo and redo.                                                          *)

\* The live project becomes what was restored, if something was.
Restores(before, after) ==
  /\ stacks' = after
  /\ doc' = IF after = before THEN doc ELSE after.cache
  /\ untracked' = (untracked /\ after = before /\ timer = "none")
  /\ timer' = "none"
  /\ UNCHANGED rare

Undo == Restores(Flushed, IF CanUndo(Flushed) THEN Undone(Flushed) ELSE Flushed)

Redo == Restores(Flushed, IF Flushed.redo # <<>> THEN Redone(Flushed) ELSE Flushed)

Untoasted(stack) == [i \in DOMAIN stack |-> [stack[i] EXCEPT !.toast = FALSE]]

\* captureUndo: a toast offers to undo the newest entry.  One toast is modelled.
CaptureUndo ==
  /\ doc # Empty
  /\ LET undo == Untoasted(Flushed.undo) IN
     stacks' = [Flushed EXCEPT
       !.undo = IF Len(undo) > 1 THEN [undo EXCEPT ![Len(undo)].toast = TRUE] ELSE undo,
       !.redo = Untoasted(@)]
  /\ untracked' = (untracked /\ timer = "none")
  /\ timer' = "none"
  /\ UNCHANGED <<doc, rare>>

\* (mutant) whether its entry is the newest is asked before the flush.
ToastUndoUnflushed ==
  Restores(Flushed, IF CanUndo(Flushed) /\ Top(stacks).toast THEN Undone(Flushed) ELSE Flushed)

\* It is clicked: only while its entry is the newest.
ToastUndo ==
  Restores(Flushed, IF CanUndo(Flushed) /\ Top(Flushed).toast THEN Undone(Flushed) ELSE Flushed)

\* restoreEntry flushes nothing, leaves the patch counter as it is, and trims
\* nothing: one that restores the newest entry again and again lets the stack grow.
RestoreEntry(i) ==
  /\ doc # Empty /\ i \in 2..Len(stacks.undo)
  /\ i < MaxHistory \/ rare < MaxRare
  /\ rare' = IF i < MaxHistory THEN rare ELSE rare + 1
  /\ LET state == Reconstructed(stacks.undo, i) IN
       /\ state # Throws
       /\ stacks' = [stacks EXCEPT
            !.undo = Append(SubSeq(@, 1, i),
                            [Checkpoint(state) EXCEPT !.seen = stacks.undo[i].seen,
                               !.sound = state = stacks.undo[i].seen]),
            !.redo = <<>>, !.cache = state]
       /\ doc' = state
  /\ untracked' = FALSE
  /\ UNCHANGED timer

-----------------------------------------------------------------------------
(* A project is loaded; the history is cleared.                            *)

\* The import's own changes have set the timer.
Load(new) ==
  /\ doc # Empty /\ rare < MaxRare
  /\ rare' = rare + 1
  /\ doc' = new
  /\ stacks' = Baseline(new, stacks.offered)
  /\ timer' = "armed"
  /\ untracked' = FALSE

Clear ==
  /\ doc # Empty /\ rare < MaxRare
  /\ rare' = rare + 1
  /\ stacks' = Baseline(doc, TRUE)
  /\ untracked' = FALSE
  /\ UNCHANGED <<doc, timer>>

Next ==
  \/ \E p \in Parts, v \in Values : Edit(p, v) \/ WriteUntracked(p, v)
  \/ TimerFires \/ CoalesceFires \/ RecordNow \/ NoteUnrecordedAction
  \/ Undo \/ Redo \/ CaptureUndo \/ ToastUndo
  \/ \E i \in 2..Len(stacks.undo) : RestoreEntry(i)
  \/ \E new \in Documents : Load(new)
  \/ Clear

Spec == Init /\ [][Next]_vars
=============================================================================
