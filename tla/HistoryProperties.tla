--------------------------- MODULE HistoryProperties ---------------------------
(* What undo and redo promise the user of the editor.                         *)
EXTENDS EditorHistory

Patches == UNION {[S -> Values] : S \in SUBSET Parts}
CheckpointEntry ==
  [type : {"checkpoint"}, state : Documents \union {Empty}, patch : {<<>>},
   seen : Documents, sound : BOOLEAN, toast : BOOLEAN]
PatchEntry ==
  [type : {"patch"}, state : {Empty}, patch : Patches,
   seen : Documents, sound : {FALSE}, toast : BOOLEAN]
Entry == CheckpointEntry \union PatchEntry

\* The undo stack is not empty, and its oldest entry is a checkpoint.
StacksOK(s) ==
  /\ s \in [undo : Seq(Entry), redo : Seq(PatchEntry),
            cache : Documents \union {Empty}, count : Nat, offered : BOOLEAN]
  /\ Len(s.undo) >= 1 /\ s.undo[1].type = "checkpoint"

\* Every variable has its type.
TypeOK ==
  /\ doc \in Documents \union {Empty}
  /\ StacksOK(stacks)
  /\ timer \in {"none", "armed", "coalescing"}
  /\ untracked \in BOOLEAN /\ rare \in 0..MaxRare

\* A checkpoint at or below entry i is what the user saw.
Grounded(stack, i) == \E c \in Checkpoints(stack) : c <= i /\ stack[c].sound

(* What the patches compute is what the user saw: every entry that rests   *)
(* on a sound checkpoint reconstructs the document it was recorded with,   *)
(* whatever was undone, redone, converted and trimmed in between           *)
(* (HistoryManager.ts:443-475, 530-570, 649-711).                          *)
StackIsFaithful ==
  \A i \in 1..Len(stacks.undo) :
    Grounded(stacks.undo, i) => Reconstructed(stacks.undo, i) = stacks.undo[i].seen

(* With no timer set and no untracked write, the document is the one that  *)
(* is recorded: no edit is left out of the history                         *)
(* (HistoryManager.ts:95-128, 261-288).                                    *)
EditsAreRecorded == timer = "none" /\ ~untracked => doc = stacks.cache

(* What an undo takes away a redo gives back: the document before the      *)
(* undo, an edit still in the coalescing window included, is what the top  *)
(* of the redo stack leads to -- unless the document held an untracked     *)
(* write, or the entries undone rest on no sound checkpoint                *)
(* (HistoryManager.ts:530-565).                                            *)
UndoIsReversible ==
  [][\/ Undo \/ ToastUndo
     => \/ doc' = doc \/ (untracked /\ timer = "none")
        \/ ~Grounded(stacks.undo, Len(stacks.undo))
        \/ Applied(doc', stacks'.redo[Len(stacks'.redo)].patch) = doc]_vars

(* A toast undoes its own action or nothing: not when something newer was  *)
(* done, recorded or not (HistoryManager.ts:572-594).                      *)
ToastUndoesItsOwn ==
  [][ToastUndo /\ Len(stacks'.undo) < Len(Flushed.undo) =>
       Top(stacks).toast /\ (timer = "none" \/ doc = stacks.cache)]_vars

-----------------------------------------------------------------------------
(* Why these hold: what is true of the stacks between two steps            *)
(* (inductive).                                                            *)

\* The empty project is recorded exactly when it is the live one, and no entry but
\* the oldest is a snapshot of it.
EmptyIsShown == doc = Empty <=> stacks.cache = Empty
SnapshotsHeld(s) ==
  \A i \in 2..Len(s.undo) : s.undo[i].type = "checkpoint" => s.undo[i].state # Empty

\* From its first sound checkpoint upwards a stack is sound: its snapshots are what
\* the user saw, and each patch leads from what he saw to what he saw next.
Chained(stack) ==
  \A i \in 1..Len(stack) : Grounded(stack, i) =>
    IF stack[i].type = "checkpoint"
    THEN stack[i].sound /\ stack[i].state = stack[i].seen
    ELSE Applied(stack[i - 1].seen, stack[i].patch) = stack[i].seen

\* The document recorded is what was seen last, and what was undone leads on from it.
LeadsOn(s) ==
  /\ s.cache = Top(s).seen
  /\ \A k \in 1..Len(s.redo) :
       Applied(IF k = Len(s.redo) THEN Top(s).seen ELSE s.redo[k + 1].seen, s.redo[k].patch)
         = s.redo[k].seen

\* The counter is no less than the patches above the last checkpoint.
CheckpointNear(s) == \E c \in Checkpoints(s.undo) : Len(s.undo) - c <= s.count

Sound(s) ==
  /\ SnapshotsHeld(s) /\ Chained(s.undo) /\ CheckpointNear(s)
  /\ Grounded(s.undo, Len(s.undo)) => LeadsOn(s)

HistoryInvariant == TypeOK /\ EmptyIsShown /\ Sound(stacks)

-----------------------------------------------------------------------------
(* "So undo always has a baseline": no undo wipes the canvas               *)
(* (HistoryManager.ts:132-135).                                            *)
UndoNeverWipes == doc # Empty
=============================================================================
