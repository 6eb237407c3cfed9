----------------------------- MODULE HistoryProofs -----------------------------
(* What undo and redo promise, for a document of any size, a stack of any     *)
(* length and checkpoints at any distance.                                    *)
EXTENDS HistoryProperties, SequenceTheorems, WellFoundedInduction, TLAPS

-----------------------------------------------------------------------------
(* What is proved entry by entry, from the oldest upwards, is proved about *)
(* the least entry that would break it.                                    *)

Smaller == {p \in Nat \X Nat : p[1] < p[2]}

LEMMA SmallerIsWellFounded == IsWellFoundedOn(Smaller, Nat)
  BY NatLessThanWellFounded DEF OpToRel, Smaller

LEMMA LeastNatural ==
  ASSUME NEW T \in SUBSET Nat, T # {}
  PROVE  \E x \in T : \A y \in T : x <= y
  <1>1. \A a, b \in Nat : a < b => <<a, b>> \in Smaller
    BY DEF Smaller
  <1>2. PICK x \in T : \A y \in T : ~(<<y, x>> \in Smaller)
    BY SmallerIsWellFounded, WFMin
  <1>3. ASSUME NEW y \in T PROVE x <= y
    <2>1. x \in Nat /\ y \in Nat
      OBVIOUS
    <2>2. ~(y < x)
      BY <1>1, <1>2, <2>1
    <2> QED BY <2>1, <2>2
  <1> QED BY <1>3

\* What holds of m, and of n + 1 when it holds of n, holds up to any bound.
LEMMA UpTo ==
  ASSUME NEW m \in Nat, NEW i \in Nat, m <= i, NEW T, m \in T,
         \A n \in m..i : n \in T /\ n < i => n + 1 \in T
  PROVE  i \in T
  <1> DEFINE Breaks == {n \in m..i : n \notin T}
  <1> SUFFICES ASSUME Breaks # {} PROVE FALSE
    OBVIOUS
  <1>1. Breaks \in SUBSET Nat
    OBVIOUS
  <1>2. PICK n \in Breaks : \A k \in Breaks : n <= k
    BY <1>1, LeastNatural
  <1> HIDE DEF Breaks
  <1>3. n \in m..i /\ n \notin T /\ n # m
    BY <1>2 DEF Breaks
  <1>4. n - 1 \in m..i /\ n - 1 < i /\ (n - 1) + 1 = n
    BY <1>3
  <1>5. n - 1 \notin Breaks
    BY <1>1, <1>2, <1>3, <1>4
  <1>6. n - 1 \in T
    BY <1>4, <1>5 DEF Breaks
  <1> QED BY <1>3, <1>4, <1>6

-----------------------------------------------------------------------------
(* Patches and entries.                                                    *)

LEMMA EntryTyped ==
  ASSUME NEW e \in Entry
  PROVE  /\ e.type \in {"checkpoint", "patch"} /\ e.seen \in Documents
         /\ e.state \in Documents \union {Empty} /\ e.sound \in BOOLEAN
         /\ e.type = "checkpoint" => e \in CheckpointEntry
         /\ e.type = "patch" => e \in PatchEntry /\ e.patch \in Patches /\ ~e.sound
                                /\ e.state = Empty
  BY DEF Entry, CheckpointEntry, PatchEntry

LEMMA PatchTyped ==
  ASSUME NEW patch \in Patches
  PROVE  DOMAIN patch \subseteq Parts /\ patch \in [DOMAIN patch -> Values]
  BY DEF Patches

\* A patch leads from a document to a document, or does not fit.
LEMMA AppliedTyped ==
  ASSUME NEW old \in Documents \union {Empty, Throws}, NEW patch \in Patches
  PROVE  /\ Applied(old, patch) \in Documents \union {Throws}
         /\ old \in Documents => Applied(old, patch) \in Documents
  <1>1. DOMAIN patch \subseteq Parts /\ patch \in [DOMAIN patch -> Values]
    BY PatchTyped
  <1>2. CASE old \in Documents
    BY <1>1, <1>2, EmptyAssumption DEF Applied, Documents
  <1>3. CASE old \in {Empty, Throws}
    BY <1>1, <1>3, EmptyAssumption DEF Applied, Documents
  <1> QED BY <1>2, <1>3

\* createPatch and applyPatch fit together.
LEMMA PatchLeadsOn ==
  ASSUME NEW old \in Documents \union {Empty}, NEW new \in Documents
  PROVE  PatchOf(old, new) \in Patches /\ Applied(old, PatchOf(old, new)) = new
  <1>1. CASE old = Empty
    BY <1>1, EmptyAssumption DEF PatchOf, Applied, Patches, Documents
  <1>2. CASE old \in Documents
    <2> DEFINE S == {p \in Parts : old[p] # new[p]}
    <2>1. old # Empty /\ old # Throws
      BY <1>2, EmptyAssumption DEF Documents
    <2>2. PatchOf(old, new) = [p \in S |-> new[p]]
      BY <2>1 DEF PatchOf
    <2>3. S \subseteq Parts /\ [p \in S |-> new[p]] \in [S -> Values]
      BY DEF Documents
    <2>4. PatchOf(old, new) \in Patches
      BY <2>2, <2>3 DEF Patches
    <2>5. Applied(old, PatchOf(old, new)) = [p \in Parts |-> IF p \in S THEN new[p] ELSE old[p]]
      BY <2>1, <2>2 DEF Applied
    <2>6. @ = [p \in Parts |-> new[p]]
      BY <1>2 DEF Documents
    <2>7. @ = new
      BY DEF Documents
    <2> QED BY <2>4, <2>5, <2>6, <2>7
  <1> QED BY <1>1, <1>2

-----------------------------------------------------------------------------
(* reconstructState.                                                       *)

\* The states it goes through: from a checkpoint, patch by patch.
Runs(stack, c, i, state) ==
  state = [j \in c..i |-> IF j = c THEN stack[c].state
                          ELSE Applied(state[j - 1], stack[j].patch)]

LEMMA RunsExist ==
  ASSUME NEW stack, NEW c \in Nat, NEW i \in Nat, c <= i
  PROVE  \E state : Runs(stack, c, i, state)
  <1> DEFINE T == {n \in Nat : \E state : Runs(stack, c, n, state)}
  <1>1. c \in T
    <2>1. Runs(stack, c, c, [j \in c..c |-> stack[c].state])
      BY DEF Runs
    <2> QED BY <2>1
  <1>2. ASSUME NEW n \in c..i, n \in T, n < i PROVE n + 1 \in T
    <2>1. PICK f : Runs(stack, c, n, f)
      BY <1>2
    <2> DEFINE g == [j \in c..(n + 1) |->
                      IF j = n + 1 THEN Applied(f[n], stack[n + 1].patch) ELSE f[j]]
               h == [j \in c..(n + 1) |-> IF j = c THEN stack[c].state
                          ELSE Applied(g[j - 1], stack[j].patch)]
    <2>2. \A j \in c..n : f[j] = IF j = c THEN stack[c].state
                                 ELSE Applied(f[j - 1], stack[j].patch)
      BY <2>1 DEF Runs
    <2>3. ASSUME NEW j \in c..(n + 1) PROVE g[j] = h[j]
      <3>1. CASE j = n + 1
        <4>1. j # c /\ j - 1 = n /\ n \in c..(n + 1) /\ n # n + 1
          BY <3>1, <1>2
        <4>2. g[n] = f[n]
          BY <4>1
        <4>3. g[j] = Applied(f[n], stack[j].patch)
          BY <3>1
        <4>4. h[j] = Applied(g[n], stack[j].patch)
          BY <4>1
        <4> QED BY <4>2, <4>3, <4>4
      <3>2. CASE j \in c..n
        <4>1. j # n + 1 /\ g[j] = f[j]
          BY <3>2
        <4>2. CASE j = c
          BY <4>1, <4>2, <3>2, <2>2
        <4>3. CASE j # c
          <5>1. j - 1 \in c..(n + 1) /\ j - 1 # n + 1
            BY <3>2, <4>3
          <5>2. g[j - 1] = f[j - 1]
            BY <5>1
          <5>3. h[j] = Applied(g[j - 1], stack[j].patch)
            BY <4>3
          <5> QED BY <5>2, <5>3, <4>1, <4>3, <3>2, <2>2
        <4> QED BY <4>2, <4>3
      <3> QED BY <3>1, <3>2
    <2>4. g = h
      BY <2>3
    <2> HIDE DEF g
    <2>5. Runs(stack, c, n + 1, g)
      BY <2>4 DEF Runs
    <2> QED BY <2>5
  <1> QED BY <1>1, <1>2, UpTo

\* There is a last checkpoint at or below each entry of a stack that begins with one.
LEMMA LastCheckpoint ==
  ASSUME NEW stack \in Seq(Entry), Len(stack) >= 1, stack[1].type = "checkpoint",
         NEW i \in 1..Len(stack)
  PROVE  \E c \in Checkpoints(stack) : c <= i /\ \A d \in Checkpoints(stack) : d <= i => d <= c
  <1> DEFINE T == {n \in Nat : \E c \in Checkpoints(stack) : c <= n /\
                                 \A d \in Checkpoints(stack) : d <= n => d <= c}
  <1>0. Checkpoints(stack) \subseteq Nat /\ \A d \in Checkpoints(stack) : d >= 1
    BY DEF Checkpoints
  <1>1. 1 \in T
    <2>1. 1 \in Checkpoints(stack)
      BY DEF Checkpoints
    <2> QED BY <1>0, <2>1
  <1>2. ASSUME NEW n \in 1..i, n \in T, n < i PROVE n + 1 \in T
    <2>1. CASE n + 1 \in Checkpoints(stack)
      BY <2>1, <1>0
    <2>2. CASE n + 1 \notin Checkpoints(stack)
      <3>1. PICK c \in Checkpoints(stack) :
              c <= n /\ \A d \in Checkpoints(stack) : d <= n => d <= c
        BY <1>2
      <3>2. \A d \in Checkpoints(stack) : d <= n + 1 => d <= n
        BY <1>0, <2>2
      <3>3. c <= n + 1
        BY <1>0, <3>1
      <3>4. \A d \in Checkpoints(stack) : d <= n + 1 => d <= c
        BY <3>1, <3>2
      <3>5. n + 1 \in Nat
        OBVIOUS
      <3> QED BY <3>3, <3>4, <3>5, Zenon
    <2> QED BY <2>1, <2>2
  <1>3. i \in T
    <2> HIDE DEF T
    <2> QED BY <1>1, <1>2, UpTo
  <1> QED BY <1>3

\* reconstructState goes from that checkpoint to the entry.
LEMMA ReconstructedRuns ==
  ASSUME NEW stack \in Seq(Entry), Len(stack) >= 1, stack[1].type = "checkpoint",
         NEW i \in 1..Len(stack)
  PROVE  \E c \in Checkpoints(stack) : \E state :
           /\ c <= i /\ \A d \in Checkpoints(stack) : d <= i => d <= c
           /\ Runs(stack, c, i, state) /\ Reconstructed(stack, i) = state[i]
  <1> DEFINE below == {c \in Checkpoints(stack) : c <= i}
             last == CHOOSE c \in below : \A d \in below : d <= c
             state == CHOOSE f : f = [j \in last..i |-> IF j = last THEN stack[last].state
                                        ELSE Applied(f[j - 1], stack[j].patch)]
  <1>0. \E c \in below : \A d \in below : d <= c
    BY LastCheckpoint
  <1>1. below # {} /\ last \in below /\ \A d \in below : d <= last
    BY <1>0, Zenon
  <1>2. last \in Nat /\ last <= i
    BY <1>1 DEF Checkpoints
  <1>3. Reconstructed(stack, i) = state[i]
    BY <1>1, Zenon DEF Reconstructed
  <1>4. \E f : Runs(stack, last, i, f)
    <2> HIDE DEF last
    <2>1. i \in Nat
      OBVIOUS
    <2> QED BY <1>2, <2>1, RunsExist
  <1>5. Runs(stack, last, i, state)
    <2> HIDE DEF last
    <2> QED BY <1>4 DEF Runs
  <1> QED BY <1>1, <1>3, <1>5

\* What reconstructState starts from: a stack whose oldest entry is a checkpoint.
Based(stack) ==
  stack \in Seq(Entry) /\ Len(stack) >= 1 /\ stack[1].type = "checkpoint"

\* Above the last checkpoint there are patches.
LEMMA PatchesAbove ==
  ASSUME NEW stack \in Seq(Entry), NEW i \in 1..Len(stack), NEW c \in Checkpoints(stack),
         \A d \in Checkpoints(stack) : d <= i => d <= c,
         NEW j \in 1..i, j > c
  PROVE  stack[j].type = "patch" /\ stack[j].patch \in Patches
  <1>1. j \in 1..Len(stack) /\ c \in Nat
    BY DEF Checkpoints
  <1>2. stack[j] \in Entry
    BY <1>1, ElementOfSeq
  <1>3. j \notin Checkpoints(stack)
    BY <1>1
  <1> QED BY <1>1, <1>2, <1>3, EntryTyped DEF Checkpoints

\* It gives a document, {} or nothing; and {} only of an entry that is a snapshot of it.
LEMMA ReconstructedTyped ==
  ASSUME NEW stack, Based(stack), NEW i \in 1..Len(stack)
  PROVE  /\ Reconstructed(stack, i) \in Documents \union {Empty, Throws}
         /\ Reconstructed(stack, i) = Empty => stack[i].type = "checkpoint" /\ stack[i].state = Empty
  <1>0. PICK c \in Checkpoints(stack) : \E state :
           /\ c <= i /\ \A d \in Checkpoints(stack) : d <= i => d <= c
           /\ Runs(stack, c, i, state) /\ Reconstructed(stack, i) = state[i]
    BY ReconstructedRuns DEF Based
  <1>1. PICK state :
           /\ c <= i /\ \A d \in Checkpoints(stack) : d <= i => d <= c
           /\ Runs(stack, c, i, state) /\ Reconstructed(stack, i) = state[i]
    BY <1>0
  <1>2. c \in 1..Len(stack) /\ stack[c] \in Entry /\ stack[c].type = "checkpoint"
    BY ElementOfSeq DEF Checkpoints, Based
  <1> DEFINE T == {n \in Nat : /\ state[n] \in Documents \union {Empty, Throws}
                               /\ n # c => state[n] # Empty}
  <1>3. state[c] = stack[c].state
    BY <1>1, <1>2 DEF Runs
  <1>4. c \in T
    BY <1>2, <1>3, EntryTyped
  <1>5. ASSUME NEW n \in c..i, n \in T, n < i PROVE n + 1 \in T
    <2>1. n + 1 \in c..i /\ n + 1 # c /\ n + 1 \in Nat /\ (n + 1) - 1 = n
      BY <1>2, <1>5
    <2>2. state[n + 1] = Applied(state[n], stack[n + 1].patch)
      BY <1>1, <2>1 DEF Runs
    <2>3. stack[n + 1].patch \in Patches
      BY <1>1, <1>2, <2>1, PatchesAbove DEF Based
    <2>4. state[n + 1] \in Documents \union {Throws}
      BY <1>5, <2>2, <2>3, AppliedTyped
    <2>5. state[n + 1] # Empty
      BY <2>4, EmptyAssumption DEF Documents
    <2> QED BY <2>1, <2>4, <2>5
  <1>6. i \in T
    <2> HIDE DEF T
    <2>1. c \in Nat /\ i \in Nat
      BY <1>2
    <2> QED BY <1>1, <1>4, <1>5, <2>1, UpTo
  <1> QED BY <1>1, <1>2, <1>3, <1>6

\* Of an entry that rests on a sound checkpoint it gives what the user saw.
LEMMA ReconstructedIsSeen ==
  ASSUME NEW stack, Based(stack), Chained(stack), NEW i \in 1..Len(stack),
         Grounded(stack, i)
  PROVE  Reconstructed(stack, i) = stack[i].seen
  <1>0. PICK c \in Checkpoints(stack) : \E state :
           /\ c <= i /\ \A d \in Checkpoints(stack) : d <= i => d <= c
           /\ Runs(stack, c, i, state) /\ Reconstructed(stack, i) = state[i]
    BY ReconstructedRuns DEF Based
  <1>1. PICK state :
           /\ c <= i /\ \A d \in Checkpoints(stack) : d <= i => d <= c
           /\ Runs(stack, c, i, state) /\ Reconstructed(stack, i) = state[i]
    BY <1>0
  <1>2. c \in 1..Len(stack) /\ stack[c].type = "checkpoint"
    BY DEF Checkpoints
  <1>g. \A j \in c..i : Grounded(stack, j)
    <2>1. PICK d \in Checkpoints(stack) : d <= i /\ stack[d].sound
      BY DEF Grounded
    <2>2. d <= c /\ d \in 1..Len(stack)
      BY <1>1, <2>1 DEF Checkpoints
    <2> QED BY <1>2, <2>1, <2>2 DEF Grounded
  <1> DEFINE T == {n \in Nat : state[n] = stack[n].seen}
  <1>3. c \in T
    <2>1. state[c] = stack[c].state
      BY <1>1, <1>2 DEF Runs
    <2>2. stack[c].state = stack[c].seen
      BY <1>1, <1>2, <1>g DEF Chained
    <2> QED BY <1>2, <2>1, <2>2
  <1>4. ASSUME NEW n \in c..i, n \in T, n < i PROVE n + 1 \in T
    <2>1. n + 1 \in c..i /\ n + 1 # c /\ n + 1 \in Nat /\ (n + 1) - 1 = n
      BY <1>2, <1>4
    <2>2. state[n + 1] = Applied(state[n], stack[n + 1].patch)
      BY <1>1, <2>1 DEF Runs
    <2>3. stack[n + 1].type = "patch"
      BY <1>1, <1>2, <2>1, PatchesAbove DEF Based
    <2>4. Applied(stack[n].seen, stack[n + 1].patch) = stack[n + 1].seen
      BY <1>2, <1>g, <2>1, <2>3 DEF Chained
    <2> QED BY <1>4, <2>1, <2>2, <2>4
  <1>5. i \in T
    <2> HIDE DEF T
    <2>1. c \in Nat /\ i \in Nat
      BY <1>2
    <2> QED BY <1>1, <1>3, <1>4, <2>1, UpTo
  <1> QED BY <1>1, <1>5

\* updatePatchCounter counts the patches above the last checkpoint.
LEMMA CountedIs ==
  ASSUME NEW stack, Based(stack)
  PROVE  /\ Counted(stack) \in Nat /\ Counted(stack) < Len(stack)
         /\ \E c \in Checkpoints(stack) : Len(stack) - c <= Counted(stack)
  <1> DEFINE L == Len(stack)
             patches == {n \in 0..L : \A i \in (L - n + 1)..L : stack[i].type = "patch"}
             rest == {L - n : n \in patches}
  <1>0. L \in Nat /\ L >= 1 /\ stack \in Seq(Entry) /\ stack[1].type = "checkpoint"
    BY DEF Based
  <1> HIDE DEF L
  <1>1. 0 \in patches
    BY <1>0
  <1>p. patches \subseteq 0..L
    OBVIOUS
  <1> HIDE DEF patches
  <1>2. rest \in SUBSET Nat /\ rest # {}
    <2>1. \A n \in patches : L - n \in Nat
      BY <1>0, <1>p
    <2> QED BY <1>1, <2>1
  <1>3. PICK r \in rest : \A q \in rest : r <= q
    BY <1>2, LeastNatural
  <1>4. PICK m \in patches : r = L - m
    BY <1>3
  <1>5. \A n \in patches : n <= m
    <2>1. ASSUME NEW n \in patches PROVE n <= m
      <3>1. L - n \in rest
        OBVIOUS
      <3>2. L - m <= L - n
        BY <1>3, <1>4, <3>1
      <3> QED BY <1>0, <1>p, <3>2
    <2> QED BY <2>1
  <1>m. m \in 0..L /\ \A n \in patches : n \in 0..L
    BY <1>p
  <1>6. \A n \in patches : (\A k \in patches : k <= n) => n = m
    BY <1>0, <1>5, <1>m
  <1>7. Counted(stack) = CHOOSE n \in patches : \A k \in patches : k <= n
    BY DEF Counted, L, patches
  <1>8. Counted(stack) = m
    <2>1. m \in patches /\ \A k \in patches : k <= m
      BY <1>5
    <2> QED BY <1>6, <1>7, <2>1
  <1>9. m # L
    <2> SUFFICES ASSUME m = L PROVE FALSE
      OBVIOUS
    <2>1. 1 \in (L - m + 1)..L
      BY <1>0
    <2> QED BY <1>0, <2>1, <1>4 DEF patches
  <1>10. L - m \in 1..L /\ m + 1 \in 0..L
    BY <1>0, <1>m, <1>9
  <1>11. stack[L - m].type = "checkpoint"
    <2> SUFFICES ASSUME stack[L - m].type # "checkpoint" PROVE FALSE
      OBVIOUS
    <2>1. stack[L - m] \in Entry
      BY <1>0, <1>10, ElementOfSeq DEF L
    <2>2. stack[L - m].type = "patch"
      BY <2>1, EntryTyped
    <2>3. \A i \in (L - (m + 1) + 1)..L : i = L - m \/ i \in (L - m + 1)..L
      BY <1>0, <1>10, <1>m
    <2>4. m + 1 \in patches
      BY <1>4, <1>10, <2>2, <2>3 DEF patches
    <2> QED BY <1>0, <1>m, <1>5, <1>10, <2>4
  <1>12. L - m \in Checkpoints(stack) /\ L - (L - m) <= m
    BY <1>0, <1>m, <1>10, <1>11 DEF Checkpoints, L
  <1> QED BY <1>0, <1>m, <1>8, <1>10, <1>12 DEF L

-----------------------------------------------------------------------------
(* Pushing, popping and trimming.                                          *)

LEMMA GroundedUp ==
  ASSUME NEW stack, NEW i \in Nat, NEW j \in Nat, i <= j, Grounded(stack, i)
  PROVE  Grounded(stack, j)
  <1>1. PICK c \in Checkpoints(stack) : c <= i /\ stack[c].sound
    BY DEF Grounded
  <1>2. c <= j
    BY <1>1 DEF Checkpoints
  <1> QED BY <1>1, <1>2 DEF Grounded

\* The part of a stack below an entry is sound where the stack is.
LEMMA PrefixKeeps ==
  ASSUME NEW stack, Based(stack), NEW n \in 1..Len(stack)
  PROVE  LET low == SubSeq(stack, 1, n) IN
         /\ Based(low) /\ Len(low) = n /\ \A i \in 1..n : low[i] = stack[i]
         /\ \A i \in 1..n : Grounded(low, i) <=> Grounded(stack, i)
         /\ Chained(stack) => Chained(low)
  <1> DEFINE low == SubSeq(stack, 1, n)
  <1>1. /\ stack \in Seq(Entry) /\ Len(stack) \in Nat /\ n \in Nat /\ 1 <= n
        /\ \A i \in 1..n : stack[i] \in Entry
    BY ElementOfSeq DEF Based
  <1>2. low \in Seq(Entry) /\ Len(low) = n /\ \A i \in 1..n : low[i] = stack[i]
    <2>1. /\ low \in Seq(Entry) /\ Len(low) = (IF 1 <= n THEN n - 1 + 1 ELSE 0)
          /\ \A i \in 1..(n - 1 + 1) : low[i] = stack[1 + i - 1]
      BY <1>1, SubSeqProperties
    <2>2. n - 1 + 1 = n /\ \A i \in 1..n : 1 + i - 1 = i
      BY <1>1
    <2> QED BY <1>1, <2>1, <2>2
  <1> HIDE DEF low
  <1>3. Based(low)
    BY <1>1, <1>2 DEF Based
  <1>4. \A c \in 1..n : c \in Checkpoints(low) <=> c \in Checkpoints(stack)
    BY <1>1, <1>2 DEF Checkpoints
  <1>5. \A i \in 1..n : Grounded(low, i) <=> Grounded(stack, i)
    BY <1>1, <1>2, <1>4 DEF Grounded, Checkpoints
  <1>6. ASSUME Chained(stack), NEW i \in 1..n, Grounded(low, i)
        PROVE  IF low[i].type = "checkpoint"
               THEN low[i].sound /\ low[i].state = low[i].seen
               ELSE Applied(low[i - 1].seen, low[i].patch) = low[i].seen
    <2>1. low[i] = stack[i] /\ Grounded(stack, i) /\ i \in 1..Len(stack)
      BY <1>1, <1>2, <1>5, <1>6
    <2>2. CASE low[i].type = "checkpoint"
      BY <1>6, <2>1, <2>2 DEF Chained
    <2>3. CASE low[i].type # "checkpoint"
      <3>1. i # 1
        BY <1>2, <1>3, <2>3 DEF Based
      <3>2. low[i - 1] = stack[i - 1]
        BY <1>1, <1>2, <3>1
      <3> QED BY <1>6, <2>1, <2>3, <3>2 DEF Chained
    <2> QED BY <2>2, <2>3
  <1> QED BY <1>2, <1>3, <1>5, <1>6 DEF Chained, low

\* An entry that is sound, if it rests on anything sound, keeps the stack sound.
LEMMA PushKeeps ==
  ASSUME NEW stack, Based(stack), NEW e \in Entry
  PROVE  LET high == Append(stack, e) IN
         /\ Based(high) /\ Len(high) = Len(stack) + 1 /\ high[Len(stack) + 1] = e
         /\ \A i \in 1..Len(stack) : high[i] = stack[i]
         /\ \A i \in 1..Len(stack) : Grounded(high, i) <=> Grounded(stack, i)
         /\ Grounded(high, Len(high)) <=> Grounded(stack, Len(stack)) \/ (e.type = "checkpoint" /\ e.sound)
         /\ Chained(stack)
            /\ (Grounded(high, Len(high)) =>
                  IF e.type = "checkpoint" THEN e.sound /\ e.state = e.seen
                  ELSE Applied(stack[Len(stack)].seen, e.patch) = e.seen)
            => Chained(high)
  <1> DEFINE high == Append(stack, e)
             n == Len(stack)
  <1>1. stack \in Seq(Entry) /\ n \in Nat /\ 1 <= n
    BY DEF Based
  <1>2. /\ high \in Seq(Entry) /\ Len(high) = n + 1 /\ high[n + 1] = e
        /\ \A i \in 1..n : high[i] = stack[i]
    BY <1>1, AppendProperties
  <1> HIDE DEF high, n
  <1>3. Based(high)
    <2>1. high[1] = stack[1]
      BY <1>1, <1>2
    <2> QED BY <1>1, <1>2, <2>1 DEF Based
  <1>4. /\ \A c \in 1..n : c \in Checkpoints(high) <=> c \in Checkpoints(stack)
        /\ n + 1 \in Checkpoints(high) <=> e.type = "checkpoint"
        /\ Checkpoints(high) \subseteq 1..(n + 1) /\ Checkpoints(stack) \subseteq 1..n
    BY <1>1, <1>2 DEF Checkpoints, n
  <1>5. \A i \in 1..n : Grounded(high, i) <=> Grounded(stack, i)
    <2> SUFFICES ASSUME NEW i \in 1..n PROVE Grounded(high, i) <=> Grounded(stack, i)
      OBVIOUS
    <2>1. \A c \in Checkpoints(high) : c <= i => c \in 1..n
      BY <1>1, <1>4
    <2> QED BY <1>1, <1>2, <1>4, <2>1 DEF Grounded
  <1>6. Grounded(high, n + 1) <=> Grounded(stack, n) \/ (e.type = "checkpoint" /\ e.sound)
    <2>1. ASSUME NEW c \in Checkpoints(high)
          PROVE  c = n + 1 \/ (c \in 1..n /\ c \in Checkpoints(stack) /\ c <= n)
      <3>1. c \in 1..(n + 1)
        BY <1>4
      <3>2. c = n + 1 \/ (c \in 1..n /\ c <= n)
        BY <1>1, <3>1
      <3> QED BY <1>4, <3>2
    <2>2. ASSUME Grounded(high, n + 1)
          PROVE  Grounded(stack, n) \/ (e.type = "checkpoint" /\ e.sound)
      <3>1. PICK c \in Checkpoints(high) : high[c].sound
        BY <2>2 DEF Grounded
      <3>2. CASE c = n + 1
        BY <1>2, <1>4, <3>1, <3>2
      <3>3. CASE c \in 1..n /\ c \in Checkpoints(stack) /\ c <= n
        BY <1>2, <3>1, <3>3 DEF Grounded
      <3> QED BY <2>1, <3>2, <3>3
    <2>3. Grounded(stack, n) => Grounded(high, n + 1)
      BY <1>1, <1>2, <1>4 DEF Grounded
    <2>4. e.type = "checkpoint" /\ e.sound => Grounded(high, n + 1)
      BY <1>1, <1>2, <1>4 DEF Grounded
    <2>5. Grounded(high, n + 1) => Grounded(stack, n) \/ (e.type = "checkpoint" /\ e.sound)
      BY <2>2
    <2>6. Grounded(stack, n) \/ (e.type = "checkpoint" /\ e.sound) => Grounded(high, n + 1)
      BY <2>3, <2>4
    <2> QED BY <2>5, <2>6
  <1>7. ASSUME Chained(stack),
               Grounded(high, n + 1) =>
                  IF e.type = "checkpoint" THEN e.sound /\ e.state = e.seen
                  ELSE Applied(stack[n].seen, e.patch) = e.seen,
               NEW i \in 1..(n + 1), Grounded(high, i)
        PROVE  IF high[i].type = "checkpoint"
               THEN high[i].sound /\ high[i].state = high[i].seen
               ELSE Applied(high[i - 1].seen, high[i].patch) = high[i].seen
    <2>1. CASE i = n + 1
      <3>1. high[i] = e /\ i - 1 = n /\ high[n] = stack[n]
        BY <1>1, <1>2, <2>1
      <3> QED BY <1>7, <2>1, <3>1
    <2>2. CASE i \in 1..n
      <3>1. high[i] = stack[i] /\ Grounded(stack, i)
        BY <1>2, <1>5, <1>7, <2>2
      <3>2. CASE high[i].type = "checkpoint"
        BY <1>7, <2>2, <3>1, <3>2 DEF Chained, n
      <3>3. CASE high[i].type # "checkpoint"
        <4>1. i # 1
          BY <1>3, <3>3 DEF Based
        <4>2. high[i - 1] = stack[i - 1]
          BY <1>1, <1>2, <2>2, <4>1
        <4> QED BY <1>7, <2>2, <3>1, <3>3, <4>2 DEF Chained, n
      <3> QED BY <3>2, <3>3
    <2> QED BY <1>1, <2>1, <2>2
  <1> QED BY <1>2, <1>3, <1>5, <1>6, <1>7 DEF Chained, high, n

\* What stays of a stack that is too long: each entry moves down by the surplus.
LEMMA KeptIs ==
  ASSUME NEW stack, Based(stack), Len(stack) > MaxHistory
  PROVE  LET k == Len(stack) - MaxHistory IN
         /\ k \in Nat /\ k >= 1 /\ Len(stack) = MaxHistory + k
         /\ Kept(stack) \in Seq(Entry) /\ Len(Kept(stack)) = MaxHistory
         /\ \A i \in 1..MaxHistory : Kept(stack)[i] = stack[i + k] /\ i + k \in 1..Len(stack)
  <1> DEFINE n == Len(stack)
             k == n - MaxHistory
             rest == SubSeq(stack, n - MaxHistory + 1, n)
  <1>1. MaxHistory \in Nat /\ MaxHistory >= 1 /\ n \in Nat /\ n > MaxHistory /\ stack \in Seq(Entry)
    BY SizeAssumption DEF Based
  <1>2. \A i \in 1..n : stack[i] \in Entry
    BY <1>1, ElementOfSeq
  <1>3. Kept(stack) = rest
    BY DEF Kept
  <1> HIDE DEF n
  <1>4. k \in Nat /\ k >= 1 /\ n = MaxHistory + k /\ n - MaxHistory + 1 \in Int /\ n \in Int
        /\ n - MaxHistory + 1 <= n
    BY <1>1
  <1>5. \A i \in (n - MaxHistory + 1)..n : stack[i] \in Entry
    BY <1>1, <1>2
  <1>6. /\ rest \in Seq(Entry)
        /\ Len(rest) = (IF n - MaxHistory + 1 <= n THEN n - (n - MaxHistory + 1) + 1 ELSE 0)
        /\ \A i \in 1..(n - (n - MaxHistory + 1) + 1) : rest[i] = stack[n - MaxHistory + 1 + i - 1]
    BY <1>4, <1>5, SubSeqProperties
  <1>7. /\ n - (n - MaxHistory + 1) + 1 = MaxHistory
        /\ \A i \in 1..MaxHistory : n - MaxHistory + 1 + i - 1 = i + k /\ i + k \in 1..n
    BY <1>1
  <1> HIDE DEF rest, k
  <1>8. Len(rest) = MaxHistory /\ \A i \in 1..MaxHistory : rest[i] = stack[i + k] /\ i + k \in 1..n
    BY <1>4, <1>6, <1>7
  <1> QED BY <1>3, <1>4, <1>6, <1>8 DEF k, n

\* trimHistory: the entries move down by the surplus; the oldest stays what it was,
\* or becomes a checkpoint that is not sound.
LEMMA TrimmedIs ==
  ASSUME NEW stack, Based(stack), Len(stack) > MaxHistory,
         stack[Len(stack)].state \in Documents \union {Empty}
  PROVE  LET kept == Trimmed(stack)
             k == Len(stack) - MaxHistory IN
         /\ Based(kept) /\ Len(kept) = MaxHistory
         /\ \A i \in 2..MaxHistory : kept[i] = stack[i + k]
         /\ kept[1].seen = stack[k + 1].seen
         /\ \/ kept[1] = stack[k + 1]
            \/ stack[k + 1].type = "patch" /\ ~kept[1].sound /\ ~kept[1].toast
  <1> DEFINE rest == Kept(stack)
             kept == Trimmed(stack)
             k == Len(stack) - MaxHistory
  <1>0. MaxHistory \in Nat /\ MaxHistory >= 1
    BY SizeAssumption
  <1>1. stack \in Seq(Entry) /\ Len(stack) \in Nat /\ ~(Len(stack) <= MaxHistory)
    BY <1>0 DEF Based
  <1>2. /\ k \in Nat /\ k >= 1 /\ Len(stack) = MaxHistory + k
        /\ rest \in Seq(Entry) /\ Len(rest) = MaxHistory
        /\ \A i \in 1..MaxHistory : rest[i] = stack[i + k]
    BY KeptIs
  <1>3. rest[1] = stack[k + 1] /\ rest[1] \in Entry /\ 1 \in 1..MaxHistory
    <2>1. 1 \in 1..MaxHistory /\ 1 + k = k + 1
      BY <1>0, <1>2
    <2> HIDE DEF k, rest
    <2> QED BY <1>2, <2>1, ElementOfSeq
  <1>c. Checkpoints(stack) \intersect Surplus(stack) # {}
    <2>1. 1 \in Checkpoints(stack)
      BY <1>1 DEF Checkpoints, Based
    <2>2. 1 \in Surplus(stack)
      BY <1>2 DEF Surplus
    <2> QED BY <2>1, <2>2
  <1>4. CASE rest[1].type = "patch"
    <2> DEFINE state == Reconstructed(rest, 1)
               oldest == [Checkpoint(state) EXCEPT !.seen = rest[1].seen, !.sound = FALSE]
    <2>1. kept = [rest EXCEPT ![1] = oldest]
      BY <1>1, <1>c, <1>4 DEF Trimmed
    <2>2. Reconstructed(rest, 1) = rest[Len(rest)].state
      <3>1. {c \in Checkpoints(rest) : c <= 1} = {}
        <4> HIDE DEF rest
        <4> QED BY <1>0, <1>2, <1>4 DEF Checkpoints
      <3> QED BY <3>1 DEF Reconstructed
    <2>3. state \in Documents \union {Empty}
      <3>1. rest[Len(rest)] = stack[Len(stack)]
        <4> HIDE DEF rest, k
        <4> QED BY <1>0, <1>2
      <3> QED BY <2>2, <3>1
    <2> HIDE DEF state
    <2>5. rest[1].seen \in Documents
      BY <1>3, EntryTyped
    <2> HIDE DEF rest, k
    <2>6. oldest \in CheckpointEntry
      BY <2>3, <2>5 DEF Checkpoint, CheckpointEntry
    <2>7. oldest.type = "checkpoint" /\ oldest.seen = rest[1].seen /\ ~oldest.sound /\ ~oldest.toast
      BY DEF Checkpoint
    <2> HIDE DEF oldest
    <2>8. oldest \in Entry
      BY <2>6 DEF Entry
    <2>9. /\ kept \in Seq(Entry) /\ Len(kept) = MaxHistory /\ kept[1] = oldest
          /\ \A i \in 2..MaxHistory : kept[i] = rest[i]
      BY <1>2, <1>3, <2>1, <2>8, ExceptSeq
    <2> HIDE DEF kept
    <2>10. Based(kept)
      BY <1>0, <2>7, <2>9 DEF Based
    <2> QED BY <1>0, <1>2, <1>3, <1>4, <2>7, <2>9, <2>10 DEF kept, k
  <1>5. CASE rest[1].type # "patch"
    <2>1. kept = rest
      BY <1>1, <1>5 DEF Trimmed
    <2>2. rest[1].type = "checkpoint"
      BY <1>3, <1>5, EntryTyped
    <2> HIDE DEF rest, kept, k
    <2>3. Based(rest)
      BY <1>0, <1>2, <2>2 DEF Based
    <2> QED BY <1>0, <1>2, <1>3, <2>1, <2>3 DEF kept, k
  <1> QED BY <1>4, <1>5

\* What is sound in the trimmed stack was sound, higher by the surplus; and the other
\* way round, unless it rested on what has gone.
LEMMA TrimmedKeeps ==
  ASSUME NEW stack, Based(stack), NEW k \in Nat, k >= 1, Len(stack) = MaxHistory + k,
         stack[Len(stack)].state \in Documents \union {Empty}
  PROVE  LET kept == Trimmed(stack) IN
         /\ Based(kept) /\ Len(kept) = MaxHistory
         /\ \A i \in 2..MaxHistory : kept[i] = stack[i + k]
         /\ kept[1].seen = stack[k + 1].seen
         /\ \/ kept[1] = stack[k + 1]
            \/ stack[k + 1].type = "patch" /\ ~kept[1].sound /\ ~kept[1].toast
         /\ \A i \in 1..MaxHistory : Grounded(kept, i) => Grounded(stack, i + k)
         /\ \A i \in 1..MaxHistory, c \in Checkpoints(stack) :
              c > k /\ c <= i + k /\ stack[c].sound => Grounded(kept, i)
         /\ \A c \in Checkpoints(stack) : c > k => c - k \in Checkpoints(kept)
         /\ Chained(stack) => Chained(kept)
  <1> DEFINE kept == Trimmed(stack)
  <1>0. MaxHistory \in Nat /\ MaxHistory >= 1 /\ Len(stack) = MaxHistory + k
    BY SizeAssumption
  <1>1. /\ Based(kept) /\ Len(kept) = MaxHistory
        /\ \A i \in 2..MaxHistory : kept[i] = stack[i + k]
        /\ kept[1].seen = stack[k + 1].seen
        /\ \/ kept[1] = stack[k + 1]
           \/ stack[k + 1].type = "patch" /\ ~kept[1].sound /\ ~kept[1].toast
    <2>1. Len(stack) > MaxHistory /\ Len(stack) - MaxHistory = k
      BY <1>0
    <2> QED BY <2>1, TrimmedIs
  <1> HIDE DEF kept
  <1>2. Checkpoints(kept) \subseteq 1..MaxHistory /\ Checkpoints(stack) \subseteq 1..(MaxHistory + k)
    BY <1>0, <1>1 DEF Checkpoints
  <1>3. \A c \in Checkpoints(stack) : c > k => c - k \in Checkpoints(kept)
    <2> SUFFICES ASSUME NEW c \in Checkpoints(stack), c > k PROVE c - k \in Checkpoints(kept)
      OBVIOUS
    <2>1. c - k \in 1..MaxHistory /\ (c - k) + k = c
      BY <1>0, <1>2
    <2>2. CASE c - k = 1
      BY <1>1, <2>1, <2>2 DEF Checkpoints, Based
    <2>3. CASE c - k # 1
      <3>0. c - k \in 2..MaxHistory
        BY <1>0, <2>1, <2>3
      <3>1. kept[c - k] = stack[c]
        BY <1>1, <2>1, <3>0
      <3> QED BY <1>1, <2>1, <3>1 DEF Checkpoints
    <2> QED BY <2>2, <2>3
  <1>4. \A c \in Checkpoints(kept) : kept[c].sound =>
           c + k \in Checkpoints(stack) /\ kept[c] = stack[c + k]
    <2> SUFFICES ASSUME NEW c \in Checkpoints(kept), kept[c].sound
                 PROVE  c + k \in Checkpoints(stack) /\ kept[c] = stack[c + k]
      OBVIOUS
    <2>1. c \in 1..MaxHistory /\ kept[c].type = "checkpoint"
      BY <1>2 DEF Checkpoints
    <2>2. kept[c] = stack[c + k]
      <3>1. CASE c = 1
        BY <1>1, <3>1
      <3>2. CASE c # 1
        BY <1>0, <1>1, <2>1, <3>2
      <3> QED BY <3>1, <3>2
    <2> QED BY <1>0, <2>1, <2>2 DEF Checkpoints
  <1>5. \A i \in 1..MaxHistory : Grounded(kept, i) => Grounded(stack, i + k)
    <2> SUFFICES ASSUME NEW i \in 1..MaxHistory, Grounded(kept, i) PROVE Grounded(stack, i + k)
      OBVIOUS
    <2>1. PICK c \in Checkpoints(kept) : c <= i /\ kept[c].sound
      BY DEF Grounded
    <2>2. c + k <= i + k
      BY <1>0, <1>2, <2>1
    <2> QED BY <1>4, <2>1, <2>2 DEF Grounded
  <1>6. \A i \in 1..MaxHistory, c \in Checkpoints(stack) :
           c > k /\ c <= i + k /\ stack[c].sound => Grounded(kept, i)
    <2> SUFFICES ASSUME NEW i \in 1..MaxHistory, NEW c \in Checkpoints(stack),
                        c > k, c <= i + k, stack[c].sound
                 PROVE  Grounded(kept, i)
      OBVIOUS
    <2>1. c - k \in Checkpoints(kept) /\ c - k <= i /\ c - k \in 1..MaxHistory /\ (c - k) + k = c
      BY <1>0, <1>2, <1>3
    <2>2. kept[c - k] = stack[c]
      <3>1. CASE c - k = 1
        <4>1. c = k + 1
          BY <1>2, <3>1
        <4> QED BY <1>1, <3>1, <4>1 DEF Checkpoints
      <3>2. CASE c - k # 1
        <4>1. c - k \in 2..MaxHistory
          BY <1>0, <2>1, <3>2
        <4> QED BY <1>1, <2>1, <4>1
      <3> QED BY <3>1, <3>2
    <2> QED BY <2>1, <2>2 DEF Grounded
  <1>7. ASSUME Chained(stack), NEW i \in 1..MaxHistory, Grounded(kept, i)
        PROVE  IF kept[i].type = "checkpoint"
               THEN kept[i].sound /\ kept[i].state = kept[i].seen
               ELSE Applied(kept[i - 1].seen, kept[i].patch) = kept[i].seen
    <2>1. Grounded(stack, i + k) /\ i + k \in 1..Len(stack) /\ (i + k) - 1 = (i - 1) + k
      BY <1>0, <1>5, <1>7
    <2>2. CASE i = 1
      <3>1. kept[1].type = "checkpoint" /\ 1 \in Checkpoints(kept)
        BY <1>0, <1>1 DEF Based, Checkpoints
      <3>2. PICK c \in Checkpoints(kept) : c <= i /\ kept[c].sound
        BY <1>7 DEF Grounded
      <3>3. kept[1].sound
        BY <1>0, <1>2, <2>2, <3>2
      <3>4. kept[1] = stack[1 + k]
        BY <1>4, <3>1, <3>3
      <3> QED BY <1>7, <2>1, <2>2, <3>1, <3>3, <3>4 DEF Chained
    <2>3. CASE i # 1
      <3>1. kept[i] = stack[i + k]
        BY <1>0, <1>1, <2>3
      <3>2. kept[i - 1].seen = stack[(i + k) - 1].seen
        <4>1. CASE i = 2
          <5>1. i - 1 = 1 /\ (i + k) - 1 = k + 1
            BY <4>1
          <5> QED BY <1>1, <5>1
        <4>2. CASE i # 2
          <5>1. i - 1 \in 2..MaxHistory /\ (i - 1) + k = (i + k) - 1
            BY <1>0, <2>3, <4>2
          <5> QED BY <1>1, <5>1
        <4> QED BY <4>1, <4>2
      <3>3. CASE kept[i].type = "checkpoint"
        BY <1>7, <2>1, <3>1, <3>3 DEF Chained
      <3>4. CASE kept[i].type # "checkpoint"
        BY <1>7, <2>1, <3>1, <3>2, <3>4 DEF Chained
      <3> QED BY <3>3, <3>4
    <2> QED BY <2>2, <2>3
  <1> QED BY <1>1, <1>3, <1>5, <1>6, <1>7 DEF Chained, kept

-----------------------------------------------------------------------------
(* What the operations keep true of the stacks.                            *)

Good(s) == StacksOK(s) /\ Sound(s)

LEMMA GoodIs ==
  ASSUME NEW s, StacksOK(s)
  PROVE  /\ Based(s.undo) /\ s.redo \in Seq(PatchEntry)
         /\ Len(s.undo) \in Nat /\ Len(s.undo) \in 1..Len(s.undo) /\ Len(s.redo) \in Nat
         /\ Top(s) \in Entry /\ Top(s).seen \in Documents
         /\ s.cache \in Documents \union {Empty} /\ s.count \in Nat
  <1>1. s.undo \in Seq(Entry) /\ s.redo \in Seq(PatchEntry) /\ s.count \in Nat
    BY DEF StacksOK
  <1>2. Based(s.undo) /\ Len(s.undo) \in Nat /\ Len(s.undo) >= 1 /\ Len(s.redo) \in Nat
    BY <1>1 DEF StacksOK, Based
  <1>3. Len(s.undo) \in 1..Len(s.undo)
    BY <1>2
  <1>4. Top(s) \in Entry
    BY <1>1, <1>3, ElementOfSeq DEF Top
  <1> QED BY <1>1, <1>2, <1>3, <1>4, EntryTyped DEF StacksOK

\* record pushes what changed, or the whole when enough patches lie on each other.
Pushes(s, new, e) ==
  /\ e \in Entry /\ e.seen = new /\ ~e.toast
  /\ \/ e.type = "checkpoint" /\ e.state = new /\ e.sound /\ Recorded(s, new).count = 0
     \/ e.type = "patch" /\ Applied(s.cache, e.patch) = new
        /\ Recorded(s, new).count = s.count + 1 /\ s.count + 1 < CheckpointInterval
  /\ Recorded(s, new).undo = Trimmed(Append(s.undo, e))

LEMMA RecordedIs ==
  ASSUME NEW s, StacksOK(s), NEW new \in Documents, s.cache # new
  PROVE  /\ \E e \in Entry : Pushes(s, new, e)
         /\ Recorded(s, new).redo = <<>> /\ Recorded(s, new).cache = new
         /\ Recorded(s, new).offered
         /\ Recorded(s, new) \in [undo : {Recorded(s, new).undo}, redo : {<<>>}, cache : {new},
                                  count : {Recorded(s, new).count}, offered : {TRUE}]
  <1> DEFINE full == s.count + 1 >= CheckpointInterval
             e == IF full THEN Checkpoint(new) ELSE Delta(PatchOf(s.cache, new), new)
             r == [undo |-> Trimmed(Append(s.undo, e)), redo |-> <<>>, cache |-> new,
                   count |-> IF full THEN 0 ELSE s.count + 1, offered |-> TRUE]
  <1>1. Recorded(s, new) = r
    BY DEF Recorded
  <1>2. s.cache \in Documents \union {Empty} /\ s.count \in Nat /\ CheckpointInterval \in Nat
    BY GoodIs, SizeAssumption
  <1>3. CASE full
    <2>1. e = Checkpoint(new)
      BY <1>3
    <2>2. Checkpoint(new) \in CheckpointEntry
      BY DEF Checkpoint, CheckpointEntry
    <2>3. e.type = "checkpoint" /\ e.state = new /\ e.seen = new /\ e.sound /\ ~e.toast
      BY <2>1 DEF Checkpoint
    <2>4. r.count = 0 /\ r.undo = Trimmed(Append(s.undo, e)) /\ r.redo = <<>> /\ r.cache = new /\ r.offered
      BY <1>3
    <2> HIDE DEF e, full
    <2>5. e \in Entry
      BY <2>1, <2>2 DEF Entry
    <2>6. Pushes(s, new, e)
      <3> HIDE DEF r
      <3> QED BY <1>1, <2>3, <2>4, <2>5 DEF Pushes
    <2> QED BY <1>1, <2>4, <2>5, <2>6
  <1>4. CASE ~full
    <2>1. e = Delta(PatchOf(s.cache, new), new)
      BY <1>4
    <2>2. PatchOf(s.cache, new) \in Patches /\ Applied(s.cache, PatchOf(s.cache, new)) = new
      BY <1>2, PatchLeadsOn
    <2>3. Delta(PatchOf(s.cache, new), new) \in PatchEntry
      BY <2>2 DEF Delta, PatchEntry
    <2>4. e.type = "patch" /\ e.seen = new /\ ~e.toast /\ e.patch = PatchOf(s.cache, new)
      BY <2>1 DEF Delta
    <2>5. r.count = s.count + 1 /\ r.undo = Trimmed(Append(s.undo, e)) /\ r.redo = <<>> /\ r.cache = new /\ r.offered
      BY <1>4
    <2>6. s.count + 1 < CheckpointInterval
      BY <1>2, <1>4
    <2> HIDE DEF e, full
    <2>7. e \in Entry
      BY <2>1, <2>3 DEF Entry
    <2>8. Pushes(s, new, e)
      <3> HIDE DEF r
      <3> QED BY <1>1, <2>2, <2>4, <2>5, <2>6, <2>7 DEF Pushes
    <2> QED BY <1>1, <2>5, <2>7, <2>8
  <1> QED BY <1>3, <1>4

\* What is pushed keeps the stack sound, before it is trimmed.
LEMMA PushedIs ==
  ASSUME NEW s, Good(s), NEW new \in Documents, NEW e \in Entry, Pushes(s, new, e)
  PROVE  LET high == Append(s.undo, e) IN
         /\ Based(high) /\ Chained(high) /\ Len(high) = Len(s.undo) + 1
         /\ high[Len(high)] = e
         /\ \A i \in 1..Len(s.undo) : high[i] = s.undo[i]
         /\ Grounded(high, Len(high)) <=>
              Grounded(s.undo, Len(s.undo)) \/ (e.type = "checkpoint" /\ e.sound)
         /\ \E c \in Checkpoints(high) : Len(high) - c <= Recorded(s, new).count
         /\ e.state \in Documents \union {Empty} /\ (e.type = "checkpoint" => e.state # Empty)
  <1> DEFINE high == Append(s.undo, e)
             n == Len(s.undo)
  <1>1. /\ Based(s.undo) /\ n \in Nat /\ n >= 1 /\ Chained(s.undo) /\ CheckpointNear(s)
        /\ Grounded(s.undo, n) => s.cache = Top(s).seen
    BY GoodIs DEF Good, Sound, LeadsOn
  <1>2. /\ Based(high) /\ Len(high) = n + 1 /\ high[n + 1] = e
        /\ \A i \in 1..n : high[i] = s.undo[i]
        /\ \A i \in 1..n : Grounded(high, i) <=> Grounded(s.undo, i)
        /\ Grounded(high, Len(high)) <=> Grounded(s.undo, n) \/ (e.type = "checkpoint" /\ e.sound)
        /\ Chained(s.undo)
            /\ (Grounded(high, Len(high)) =>
                  IF e.type = "checkpoint" THEN e.sound /\ e.state = e.seen
                  ELSE Applied(s.undo[n].seen, e.patch) = e.seen)
            => Chained(high)
    BY <1>1, PushKeeps
  <1>3. e.state \in Documents \union {Empty} /\ (e.type = "checkpoint" => e.state # Empty)
    BY EntryTyped, EmptyAssumption DEF Pushes, Documents
  <1> HIDE DEF high
  <1>4. Chained(high)
    <2> SUFFICES ASSUME Grounded(high, Len(high))
                 PROVE  IF e.type = "checkpoint" THEN e.sound /\ e.state = e.seen
                        ELSE Applied(s.undo[n].seen, e.patch) = e.seen
      BY <1>1, <1>2
    <2>1. CASE e.type = "checkpoint"
      BY <2>1 DEF Pushes
    <2>2. CASE e.type # "checkpoint"
      BY <1>1, <1>2, <2>2 DEF Pushes, Top
    <2> QED BY <2>1, <2>2
  <1>5. \E c \in Checkpoints(high) : Len(high) - c <= Recorded(s, new).count
    <2>1. CASE e.type = "checkpoint"
      <3>1. n + 1 \in Checkpoints(high)
        BY <1>1, <1>2, <2>1 DEF Checkpoints
      <3>2. Recorded(s, new).count = 0
        BY <2>1 DEF Pushes
      <3> QED BY <1>1, <1>2, <3>1, <3>2
    <2>2. CASE e.type # "checkpoint"
      <3>1. PICK c \in Checkpoints(s.undo) : n - c <= s.count
        BY <1>1 DEF CheckpointNear
      <3>2. c \in Checkpoints(high) /\ c \in 1..n
        BY <1>1, <1>2, <3>1 DEF Checkpoints
      <3>3. Recorded(s, new).count = s.count + 1 /\ s.count \in Nat
        BY <2>2, GoodIs DEF Pushes, Good
      <3>4. (n + 1) - c <= s.count + 1
        BY <1>1, <3>1, <3>2, <3>3
      <3> QED BY <1>2, <3>2, <3>3, <3>4
    <2> QED BY <2>1, <2>2
  <1> QED BY <1>2, <1>3, <1>4, <1>5 DEF high

\* The recorded document is on top.
RecordsOnTop(s, new) ==
  LET r == Recorded(s, new) IN
  /\ Top(r).seen = new
  /\ Len(r.undo) > 1 =>
       /\ ~Top(r).toast
       /\ Top(r).type = "checkpoint" => Top(r).state = new
       /\ /\ Top(r).type = "patch" /\ Grounded(s.undo, Len(s.undo))
          /\ CheckpointInterval <= MaxHistory
          => Grounded(r.undo, Len(r.undo))

\* record, when there is room.
LEMMA RoomyRecordKeeps ==
  ASSUME NEW s, Good(s), NEW new \in Documents, s.cache # new, Len(s.undo) < MaxHistory
  PROVE  Good(Recorded(s, new)) /\ RecordsOnTop(s, new)
  <1> DEFINE r == Recorded(s, new)
             n == Len(s.undo)
  <1>1. PICK e \in Entry : Pushes(s, new, e)
    BY RecordedIs DEF Good
  <1> DEFINE high == Append(s.undo, e)
  <1>2. /\ Based(high) /\ Chained(high) /\ Len(high) = n + 1 /\ high[Len(high)] = e
        /\ \A i \in 1..n : high[i] = s.undo[i]
        /\ Grounded(high, Len(high)) <=>
              Grounded(s.undo, n) \/ (e.type = "checkpoint" /\ e.sound)
        /\ \E c \in Checkpoints(high) : Len(high) - c <= r.count
        /\ e.state \in Documents \union {Empty} /\ (e.type = "checkpoint" => e.state # Empty)
    BY <1>1, PushedIs
  <1>3. /\ r.redo = <<>> /\ r.cache = new /\ r.offered
        /\ r \in [undo : {r.undo}, redo : {<<>>}, cache : {new}, count : {r.count}, offered : {TRUE}]
    BY RecordedIs DEF Good
  <1>4. n \in Nat /\ n >= 1 /\ s.count \in Nat /\ MaxHistory \in Nat /\ CheckpointInterval \in Nat
        /\ CheckpointInterval >= 1
    BY GoodIs, SizeAssumption DEF Good
  <1>5. r.undo = high
    <2>1. r.undo = Trimmed(high)
      BY <1>1 DEF Pushes
    <2>2. Len(high) <= MaxHistory
      BY <1>2, <1>4
    <2> QED BY <2>1, <2>2 DEF Trimmed
  <1>6. r.count \in Nat /\ r.count < CheckpointInterval
    BY <1>1, <1>4 DEF Pushes
  <1>7. SnapshotsHeld(s)
    BY DEF Good, Sound
  <1> HIDE DEF r, high, n
  <1>8. StacksOK(r)
    <2>1. r.undo \in Seq(Entry) /\ r.redo \in Seq(PatchEntry) /\ Len(r.redo) = 0
      BY <1>2, <1>3, <1>5 DEF Based
    <2>2. r \in [undo : Seq(Entry), redo : Seq(PatchEntry),
                 cache : Documents \union {Empty}, count : Nat, offered : BOOLEAN]
      BY <1>3, <1>6, <2>1
    <2> QED BY <1>2, <1>5, <2>2 DEF StacksOK, Based
  <1>9. SnapshotsHeld(r)
    <2> SUFFICES ASSUME NEW i \in 2..Len(high), high[i].type = "checkpoint"
                 PROVE  high[i].state # Empty
      BY <1>5 DEF SnapshotsHeld
    <2>1. CASE i = n + 1
      BY <1>2, <2>1
    <2>2. CASE i \in 2..n
      BY <1>2, <1>4, <1>7, <2>2 DEF SnapshotsHeld, n
    <2> QED BY <1>2, <1>4, <2>1, <2>2
  <1>10. Top(r) = e /\ e.seen = new /\ ~e.toast /\ (e.type = "checkpoint" => e.state = new)
    BY <1>1, <1>2, <1>5 DEF Top, Pushes
  <1>11. LeadsOn(r)
    <2>1. Len(r.redo) = 0
      BY <1>3
    <2> QED BY <1>3, <1>10, <2>1 DEF LeadsOn
  <1>12. CheckpointNear(r)
    BY <1>2, <1>5 DEF CheckpointNear
  <1>13. Good(r)
    BY <1>2, <1>5, <1>8, <1>9, <1>11, <1>12 DEF Good, Sound
  <1>14. RecordsOnTop(s, new)
    BY <1>2, <1>5, <1>10 DEF RecordsOnTop, r, n
  <1> QED BY <1>13, <1>14 DEF r

\* record, when the stack is full, or outgrew its size, and is trimmed.
LEMMA FullRecordKeeps ==
  ASSUME NEW s, Good(s), NEW new \in Documents, s.cache # new, Len(s.undo) >= MaxHistory
  PROVE  Good(Recorded(s, new)) /\ RecordsOnTop(s, new)
  <1> DEFINE r == Recorded(s, new)
             n == Len(s.undo)
             k == n + 1 - MaxHistory
             N == MaxHistory
  <1>1. PICK e \in Entry : Pushes(s, new, e)
    BY RecordedIs DEF Good
  <1> DEFINE high == Append(s.undo, e)
  <1>2. /\ Based(high) /\ Chained(high) /\ Len(high) = n + 1 /\ high[Len(high)] = e
        /\ \A i \in 1..n : high[i] = s.undo[i]
        /\ Grounded(high, Len(high)) <=>
              Grounded(s.undo, n) \/ (e.type = "checkpoint" /\ e.sound)
        /\ \E c \in Checkpoints(high) : Len(high) - c <= r.count
        /\ e.state \in Documents \union {Empty} /\ (e.type = "checkpoint" => e.state # Empty)
    BY <1>1, PushedIs
  <1>3. /\ r.redo = <<>> /\ r.cache = new /\ r.offered
        /\ r \in [undo : {r.undo}, redo : {<<>>}, cache : {new}, count : {r.count}, offered : {TRUE}]
    BY RecordedIs DEF Good
  <1>4. n \in Nat /\ n >= 1 /\ s.count \in Nat /\ MaxHistory \in Nat /\ CheckpointInterval \in Nat
        /\ CheckpointInterval >= 1 /\ n >= MaxHistory /\ MaxHistory >= 1
    BY GoodIs, SizeAssumption DEF Good
  <1>5. r.undo = Trimmed(high)
    BY <1>1 DEF Pushes
  <1>6. r.count \in Nat /\ r.count < CheckpointInterval
    BY <1>1, <1>4 DEF Pushes
  <1>7. SnapshotsHeld(s)
    BY DEF Good, Sound
  <1>8. e.seen = new /\ ~e.toast /\ (e.type = "checkpoint" => e.state = new /\ e.sound)
    BY <1>1 DEF Pushes
  <1> HIDE DEF r, high
  <1>9. /\ Based(r.undo) /\ Len(r.undo) = N
        /\ \A i \in 2..N : r.undo[i] = high[i + k]
        /\ r.undo[1].seen = high[k + 1].seen
        /\ \/ r.undo[1] = high[k + 1]
           \/ high[k + 1].type = "patch" /\ ~r.undo[1].sound /\ ~r.undo[1].toast
        /\ \A i \in 1..N, c \in Checkpoints(high) :
             c > k /\ c <= i + k /\ high[c].sound => Grounded(r.undo, i)
        /\ \A c \in Checkpoints(high) : c > k => c - k \in Checkpoints(r.undo)
        /\ Chained(r.undo)
    <2>1. k \in Nat /\ k >= 1 /\ n + 1 = MaxHistory + k
      BY <1>4
    <2> HIDE DEF k, n
    <2> QED BY <1>2, <1>5, <2>1, TrimmedKeeps
  <1>10. N \in Nat /\ N >= 1 /\ k \in Nat /\ k >= 1 /\ n + 1 = N + k /\ N \in 1..N
    BY <1>4
  <1> HIDE DEF k, N
  <1> HIDE DEF n
  <1>11. StacksOK(r)
    <2>1. r.undo \in Seq(Entry) /\ r.redo \in Seq(PatchEntry) /\ Len(r.redo) = 0
      BY <1>3, <1>9 DEF Based
    <2>2. r \in [undo : Seq(Entry), redo : Seq(PatchEntry),
                 cache : Documents \union {Empty}, count : Nat, offered : BOOLEAN]
      BY <1>3, <1>6, <2>1
    <2> QED BY <1>9, <1>10, <2>2 DEF StacksOK, Based
  <1>12. SnapshotsHeld(r)
    <2> SUFFICES ASSUME NEW i \in 2..N, r.undo[i].type = "checkpoint"
                 PROVE  r.undo[i].state # Empty
      BY <1>9 DEF SnapshotsHeld
    <2>1. r.undo[i] = high[i + k]
      BY <1>9
    <2>2. CASE i = N
      BY <1>2, <1>10, <2>1, <2>2
    <2>3. CASE i # N
      <3>1. i + k \in 2..n /\ i + k \in 1..n
        BY <1>4, <1>10, <2>3
      <3> QED BY <1>2, <1>7, <2>1, <3>1 DEF SnapshotsHeld, n
    <2> QED BY <2>2, <2>3
  <1>13. Top(r).seen = new /\ (N > 1 => Top(r) = e)
    <2>1. CASE N = 1
      <3>1. k + 1 = n + 1
        BY <1>4, <1>10, <2>1
      <3> QED BY <1>2, <1>8, <1>9, <2>1, <3>1 DEF Top
    <2>2. CASE N # 1
      <3>1. N \in 2..N /\ N > 1 /\ N + k = n + 1
        BY <1>10, <2>2
      <3> QED BY <1>2, <1>8, <1>9, <3>1 DEF Top
    <2> QED BY <1>10, <2>1, <2>2
  <1>14. LeadsOn(r)
    <2>1. Len(r.redo) = 0
      BY <1>3
    <2> QED BY <1>3, <1>13, <2>1 DEF LeadsOn
  <1>15. PICK c \in Checkpoints(high) : Len(high) - c <= r.count
    BY <1>2
  <1>16. c \in 1..(n + 1)
    BY <1>2 DEF Checkpoints
  <1>17. CheckpointNear(r)
    <2>1. CASE c <= k
      <3>1. 1 \in Checkpoints(r.undo)
        BY <1>9, <1>10 DEF Checkpoints, Based
      <3>2. N - 1 <= r.count
        BY <1>2, <1>4, <1>6, <1>10, <1>15, <1>16, <2>1
      <3> QED BY <1>9, <3>1, <3>2 DEF CheckpointNear
    <2>2. CASE ~(c <= k)
      <3>1. c > k
        BY <1>4, <1>10, <1>16, <2>2
      <3>2. c - k \in Checkpoints(r.undo)
        BY <1>9, <3>1
      <3>3. N - (c - k) <= r.count
        BY <1>2, <1>4, <1>6, <1>10, <1>15, <1>16
      <3> QED BY <1>9, <3>2, <3>3 DEF CheckpointNear
    <2> QED BY <2>1, <2>2
  <1>18. Good(r)
    BY <1>9, <1>11, <1>12, <1>14, <1>17 DEF Good, Sound
  <1>19. ASSUME N > 1, e.type = "patch", Grounded(s.undo, n), CheckpointInterval <= MaxHistory
         PROVE  Grounded(r.undo, N)
    \* the counter says that a checkpoint is among the entries that stay.
    <2>1. c > k
      BY <1>2, <1>4, <1>6, <1>10, <1>15, <1>16, <1>19 DEF N
    <2>2. PICK d \in Checkpoints(high) : d <= n + 1 /\ high[d].sound
      BY <1>2, <1>19 DEF Grounded
    <2>3. d \in 1..(n + 1)
      BY <1>2 DEF Checkpoints
    <2>4. CASE d > k
      BY <1>9, <1>10, <2>2, <2>4
    <2>5. CASE ~(d > k)
      <3>1. Grounded(high, c)
        <4>1. d <= c
          BY <1>4, <1>10, <1>16, <2>1, <2>3, <2>5
        <4> QED BY <2>2, <4>1 DEF Grounded
      <3>2. high[c].sound
        BY <1>2, <1>15, <3>1 DEF Chained, Checkpoints
      <3>3. c <= N + k
        BY <1>10, <1>16
      <3> QED BY <1>9, <1>10, <1>15, <2>1, <3>2, <3>3
    <2> QED BY <2>4, <2>5
  <1>20. RecordsOnTop(s, new)
    BY <1>8, <1>9, <1>13, <1>19 DEF RecordsOnTop, r, n
  <1> QED BY <1>18, <1>20 DEF r

LEMMA RecordKeeps ==
  ASSUME NEW s, Good(s), NEW new, new \in Documents \/ new = s.cache
  PROVE  /\ Good(Recorded(s, new)) /\ Recorded(s, new).cache = new
         /\ s.cache # new => RecordsOnTop(s, new)
         /\ s.cache = new => Recorded(s, new) = s
  <1>1. CASE new = s.cache
    BY <1>1 DEF Recorded
  <1>2. CASE new # s.cache /\ new \in Documents
    <2>1. Len(s.undo) \in Nat /\ MaxHistory \in Nat
      BY GoodIs, SizeAssumption DEF Good
    <2>2. Len(s.undo) < MaxHistory \/ Len(s.undo) >= MaxHistory
      BY <2>1
    <2> QED BY <1>2, <2>2, RoomyRecordKeeps, FullRecordKeeps, RecordedIs DEF Good
  <1> QED BY <1>1, <1>2

\* What undo pushes on the redo stack leads back to what was on top.
LEMMA UndoneIs ==
  ASSUME NEW s, Good(s), CanUndo(s), Undone(s) # s
  PROVE  LET below == Popped(s.undo)
             n == Len(s.undo)
             r == Undone(s)
             state == r.cache IN
         /\ n >= 2 /\ r.undo = below /\ r.count = Counted(below)
         /\ state = Reconstructed(below, n - 1) /\ state \in Documents \union {Empty}
         /\ state = Empty => n = 2
         /\ \E e \in PatchEntry :
              /\ r.redo = Append(s.redo, e) /\ e.seen = Top(s).seen
              /\ Top(s).type = "checkpoint" => Applied(state, e.patch) = Top(s).state
              /\ Top(s).type = "patch" => e = Top(s)
         /\ r \in [undo : {r.undo}, redo : {r.redo}, cache : {state}, count : {r.count},
                   offered : {TRUE}]
  <1> DEFINE below == Popped(s.undo)
             n == Len(s.undo)
             state == Reconstructed(below, Len(below))
             e == IF Top(s).type = "checkpoint"
                  THEN Delta(PatchOf(state, Top(s).state), Top(s).seen) ELSE Top(s)
             r == [undo |-> below, redo |-> Append(s.redo, e), cache |-> state,
                   count |-> Counted(below), offered |-> TRUE]
  <1>1. /\ n \in Nat /\ n >= 2 /\ Based(s.undo) /\ n - 1 \in 1..n /\ n \in 2..n /\ n \in 1..n
        /\ Top(s) \in Entry /\ Top(s).seen \in Documents /\ SnapshotsHeld(s)
    <2>1. n \in Nat /\ Based(s.undo) /\ Top(s) \in Entry /\ Top(s).seen \in Documents
      BY GoodIs DEF Good
    <2>2. n > 1
      BY DEF CanUndo
    <2> QED BY <2>1, <2>2 DEF Good, Sound
  <1>2. state # Throws /\ Undone(s) = r
    BY DEF Undone
  <1>3. /\ Based(below) /\ Len(below) = n - 1 /\ \A i \in 1..(n - 1) : below[i] = s.undo[i]
        /\ n - 1 \in 1..Len(below)
    BY <1>1, PrefixKeeps DEF Popped
  <1>4. state = Reconstructed(below, n - 1)
    BY <1>3
  <1>5. /\ state \in Documents \union {Empty, Throws}
        /\ state = Empty => below[n - 1].type = "checkpoint" /\ below[n - 1].state = Empty
    BY <1>3, <1>4, ReconstructedTyped
  <1>6. state \in Documents \union {Empty}
    BY <1>2, <1>5
  <1>7. ASSUME state = Empty PROVE n = 2
    <2>1. s.undo[n - 1].type = "checkpoint" /\ s.undo[n - 1].state = Empty
      BY <1>1, <1>3, <1>5, <1>7
    <2>2. ~(n - 1 \in 2..n)
      BY <1>1, <2>1 DEF SnapshotsHeld
    <2>3. n \in Nat /\ n >= 2
      BY <1>1
    <2> HIDE DEF n
    <2> QED BY <2>2, <2>3
  <1> HIDE DEF state, below
  <1>8. CASE Top(s).type = "checkpoint"
    <2>1. Top(s).state \in Documents
      <3>1. Top(s).state \in Documents \union {Empty}
        BY <1>1, EntryTyped
      <3>2. Top(s).state # Empty
        BY <1>1, <1>8 DEF SnapshotsHeld, Top
      <3> QED BY <3>1, <3>2
    <2> DEFINE d == Delta(PatchOf(state, Top(s).state), Top(s).seen)
    <2>2. /\ PatchOf(state, Top(s).state) \in Patches
          /\ Applied(state, PatchOf(state, Top(s).state)) = Top(s).state
      BY <1>6, <2>1, PatchLeadsOn
    <2>3. d \in PatchEntry /\ d.seen = Top(s).seen /\ d.patch = PatchOf(state, Top(s).state)
      BY <1>1, <2>2 DEF Delta, PatchEntry
    <2>4. e = d
      BY <1>8
    <2>5. e \in PatchEntry /\ e.seen = Top(s).seen /\ Applied(state, e.patch) = Top(s).state
      BY <2>2, <2>3, <2>4
    <2> HIDE DEF e
    <2>6. /\ r.undo = below /\ r.count = Counted(below) /\ r.cache = state
          /\ r.redo = Append(s.redo, e)
          /\ r \in [undo : {r.undo}, redo : {r.redo}, cache : {r.cache}, count : {r.count},
                   offered : {TRUE}]
      OBVIOUS
    <2> HIDE DEF r
    <2> QED BY <1>1, <1>2, <1>4, <1>6, <1>7, <1>8, <2>5, <2>6 DEF below, n
  <1>9. CASE Top(s).type # "checkpoint"
    <2>1. e = Top(s) /\ Top(s).type = "patch" /\ Top(s) \in PatchEntry
      BY <1>1, <1>9, EntryTyped
    <2> HIDE DEF e
    <2>6. /\ r.undo = below /\ r.count = Counted(below) /\ r.cache = state
          /\ r.redo = Append(s.redo, e)
          /\ r \in [undo : {r.undo}, redo : {r.redo}, cache : {r.cache}, count : {r.count},
                   offered : {TRUE}]
      OBVIOUS
    <2> HIDE DEF r
    <2> QED BY <1>1, <1>2, <1>4, <1>6, <1>7, <1>9, <2>1, <2>6 DEF below, n
  <1> QED BY <1>8, <1>9

LEMMA UndoKeeps ==
  ASSUME NEW s, Good(s), CanUndo(s), Undone(s) # s
  PROVE  LET r == Undone(s) IN
         /\ Good(r)
         /\ Grounded(s.undo, Len(s.undo)) \/ Top(s).type = "checkpoint" =>
              Applied(r.cache, r.redo[Len(r.redo)].patch) =
                IF Top(s).type = "checkpoint" THEN Top(s).state ELSE Top(s).seen
  <1> DEFINE below == Popped(s.undo)
             n == Len(s.undo)
             m == Len(s.redo)
             r == Undone(s)
  <1>1. /\ n >= 2 /\ r.undo = below /\ r.count = Counted(below)
        /\ r.cache = Reconstructed(below, n - 1) /\ r.cache \in Documents \union {Empty}
        /\ r \in [undo : {r.undo}, redo : {r.redo}, cache : {r.cache}, count : {r.count},
                  offered : {TRUE}]
    BY UndoneIs
  <1>2. PICK e \in PatchEntry :
              /\ r.redo = Append(s.redo, e) /\ e.seen = Top(s).seen
              /\ Top(s).type = "checkpoint" => Applied(r.cache, e.patch) = Top(s).state
              /\ Top(s).type = "patch" => e = Top(s)
    BY UndoneIs
  <1>3. /\ n \in Nat /\ Based(s.undo) /\ n - 1 \in 1..n /\ n \in 1..n /\ m \in Nat
        /\ s.redo \in Seq(PatchEntry) /\ Top(s) \in Entry
        /\ SnapshotsHeld(s) /\ Chained(s.undo) /\ (Grounded(s.undo, n) => LeadsOn(s))
    <2>2. /\ n \in Nat /\ Based(s.undo) /\ m \in Nat /\ s.redo \in Seq(PatchEntry)
          /\ Top(s) \in Entry
      BY GoodIs DEF Good
    <2>3. SnapshotsHeld(s) /\ Chained(s.undo) /\ (Grounded(s.undo, n) => LeadsOn(s))
      BY DEF Good, Sound
    <2>4. n - 1 \in 1..n /\ n \in 1..n
      BY <1>1, <2>2
    <2> QED BY <2>2, <2>3, <2>4
  <1>4. /\ Based(below) /\ Len(below) = n - 1 /\ \A i \in 1..(n - 1) : below[i] = s.undo[i]
        /\ \A i \in 1..(n - 1) : Grounded(below, i) <=> Grounded(s.undo, i)
        /\ Chained(below)
    BY <1>3, PrefixKeeps DEF Popped
  <1>5. /\ r.redo \in Seq(PatchEntry) /\ Len(r.redo) = m + 1 /\ r.redo[m + 1] = e
        /\ \A k \in 1..m : r.redo[k] = s.redo[k]
    BY <1>2, <1>3, AppendProperties
  <1>6. /\ Counted(below) \in Nat /\ Counted(below) < n - 1
        /\ \E c \in Checkpoints(below) : (n - 1) - c <= Counted(below)
    BY <1>4, CountedIs
  <1> HIDE DEF r, below, n, m
  <1>7. StacksOK(r)
    <2>1. r \in [undo : Seq(Entry), redo : Seq(PatchEntry),
                 cache : Documents \union {Empty}, count : Nat, offered : BOOLEAN]
      BY <1>1, <1>4, <1>5, <1>6 DEF Based
    <2> QED BY <1>1, <1>4, <2>1 DEF StacksOK, Based
  <1>8. SnapshotsHeld(r)
    <2> SUFFICES ASSUME NEW i \in 2..(n - 1), below[i].type = "checkpoint"
                 PROVE  below[i].state # Empty
      BY <1>1, <1>4 DEF SnapshotsHeld
    <2>1. i \in 2..n /\ i \in 1..(n - 1)
      BY <1>3
    <2> QED BY <1>3, <1>4, <2>1 DEF SnapshotsHeld, n
  <1>9. CheckpointNear(r)
    BY <1>1, <1>4, <1>6 DEF CheckpointNear
  <1>10. Top(s) = s.undo[n] /\ Top(r) = s.undo[n - 1]
    BY <1>1, <1>3, <1>4 DEF Top, n
  <1>11. ASSUME Grounded(s.undo, n)
         PROVE  IF Top(s).type = "checkpoint" THEN Top(s).state = Top(s).seen
                ELSE Applied(s.undo[n - 1].seen, Top(s).patch) = Top(s).seen
    BY <1>3, <1>10, <1>11 DEF Chained, n
  <1>12. ASSUME Grounded(below, n - 1)
         PROVE  LeadsOn(r)
    <2>1. Grounded(s.undo, n)
      <3>1. Grounded(s.undo, n - 1) /\ n - 1 <= n /\ n - 1 \in Nat
        BY <1>3, <1>4, <1>12
      <3> QED BY <1>3, <3>1, GroundedUp
    <2>2. r.cache = Top(r).seen
      <3>1. n - 1 \in 1..Len(below) /\ n - 1 \in 1..(n - 1)
        BY <1>3, <1>4
      <3>2. Reconstructed(below, n - 1) = below[n - 1].seen
        BY <1>4, <1>12, <3>1, ReconstructedIsSeen
      <3> QED BY <1>1, <1>4, <1>10, <3>1, <3>2
    <2>3. Applied(r.cache, e.patch) = e.seen
      <3>1. CASE Top(s).type = "checkpoint"
        BY <1>2, <1>11, <2>1, <3>1
      <3>2. CASE Top(s).type # "checkpoint"
        <4>1. Top(s).type = "patch"
          BY <1>3, <3>2, EntryTyped
        <4> QED BY <1>2, <1>10, <1>11, <2>1, <2>2, <4>1
      <3> QED BY <3>1, <3>2
    <2>4. ASSUME NEW k \in 1..(m + 1)
          PROVE  Applied(IF k = m + 1 THEN Top(r).seen ELSE r.redo[k + 1].seen, r.redo[k].patch)
                   = r.redo[k].seen
      <3>1. CASE k = m + 1
        BY <1>5, <2>2, <2>3, <3>1
      <3>2. CASE k \in 1..m
        <4>1. k # m + 1 /\ r.redo[k] = s.redo[k]
          BY <1>3, <1>5, <3>2
        <4>2. Applied(IF k = m THEN Top(s).seen ELSE s.redo[k + 1].seen, s.redo[k].patch)
                = s.redo[k].seen
          BY <1>3, <2>1, <3>2 DEF LeadsOn, m
        <4>3. r.redo[k + 1].seen = IF k = m THEN Top(s).seen ELSE s.redo[k + 1].seen
          <5>1. CASE k = m
            BY <1>2, <1>5, <5>1
          <5>2. CASE k # m
            <6>1. k + 1 \in 1..m
              BY <1>3, <3>2, <5>2
            <6> QED BY <1>5, <5>2, <6>1
          <5> QED BY <5>1, <5>2
        <4> QED BY <4>1, <4>2, <4>3
      <3> QED BY <1>3, <3>1, <3>2
    <2> QED BY <1>5, <2>2, <2>4 DEF LeadsOn
  <1>13. Good(r)
    BY <1>1, <1>4, <1>7, <1>8, <1>9, <1>12 DEF Good, Sound
  <1>14. ASSUME Grounded(s.undo, n), Top(s).type # "checkpoint"
         PROVE  Applied(r.cache, e.patch) = Top(s).seen
    <2>1. Top(s).type = "patch"
      BY <1>3, <1>14, EntryTyped
    <2>2. Grounded(below, n - 1)
      <3>1. PICK c \in Checkpoints(s.undo) : c <= n /\ s.undo[c].sound
        BY <1>14 DEF Grounded
      <3>2. c \in 1..n /\ c # n
        BY <1>10, <1>14, <3>1 DEF Checkpoints, n
      <3>3. c <= n - 1 /\ n - 1 \in 1..(n - 1)
        BY <1>3, <3>2
      <3> QED BY <1>4, <3>1, <3>3 DEF Grounded
    <2>3. r.cache = s.undo[n - 1].seen
      BY <1>10, <1>12, <2>2 DEF LeadsOn
    <2> QED BY <1>2, <1>11, <1>14, <2>1, <2>3
  <1>15. r.redo[Len(r.redo)] = e
    BY <1>5
  <1> QED BY <1>2, <1>13, <1>14, <1>15 DEF r, n

LEMMA RedoKeeps ==
  ASSUME NEW s, Good(s), s.redo # <<>>, Redone(s) # s
  PROVE  Good(Redone(s)) /\ Redone(s).cache \in Documents
  <1> DEFINE n == Len(s.undo)
             m == Len(s.redo)
             e == s.redo[m]
             state == Applied(s.cache, e.patch)
             above == Append(s.undo, e)
             low == Popped(s.redo)
             r == [undo |-> above, redo |-> low, cache |-> state,
                   count |-> Counted(above), offered |-> TRUE]
  <1>1. /\ n \in Nat /\ n >= 1 /\ Based(s.undo) /\ s.redo \in Seq(PatchEntry) /\ m \in Nat
        /\ s.cache \in Documents \union {Empty}
    BY GoodIs DEF Good
  <1>2. m >= 1 /\ m \in 1..m
    BY <1>1
  <1>3. /\ SnapshotsHeld(s) /\ Chained(s.undo) /\ (Grounded(s.undo, n) => LeadsOn(s))
    BY DEF Good, Sound
  <1>4. /\ e \in PatchEntry /\ e \in Entry /\ e.type = "patch" /\ e.patch \in Patches
        /\ ~e.sound /\ e.seen \in Documents
    <2>1. e \in PatchEntry
      BY <1>1, <1>2, ElementOfSeq
    <2> HIDE DEF e
    <2> QED BY <2>1 DEF PatchEntry, Entry
  <1>5. state # Throws /\ Redone(s) = r
    BY DEF Redone
  <1>6. state \in Documents
    BY <1>1, <1>4, <1>5, AppliedTyped
  <1>7. /\ Based(above) /\ Len(above) = n + 1 /\ above[n + 1] = e
        /\ \A i \in 1..n : above[i] = s.undo[i]
        /\ Grounded(above, n + 1) <=> Grounded(s.undo, n)
        /\ (Grounded(above, n + 1) => Applied(s.undo[n].seen, e.patch) = e.seen)
             => Chained(above)
    <2>1. Based(above) /\ Len(above) = n + 1 /\ above[n + 1] = e
          /\ \A i \in 1..n : above[i] = s.undo[i]
      BY <1>1, <1>4, PushKeeps
    <2>2. Grounded(above, Len(above)) <=>
            Grounded(s.undo, Len(s.undo)) \/ (e.type = "checkpoint" /\ e.sound)
      BY <1>1, <1>4, PushKeeps
    <2>3. (Grounded(above, Len(above)) => Applied(s.undo[n].seen, e.patch) = e.seen)
             => Chained(above)
      BY <1>1, <1>3, <1>4, PushKeeps
    <2> HIDE DEF above, e, n
    <2> QED BY <1>4, <2>1, <2>2, <2>3 DEF n
  <1>8. /\ low \in Seq(PatchEntry) /\ Len(low) = m - 1
        /\ \A k \in 1..(m - 1) : low[k] = s.redo[k]
    <2>0. \A i \in 1..(m - 1) : s.redo[i] \in PatchEntry
      BY <1>1
    <2>1. /\ low \in Seq(PatchEntry)
          /\ Len(low) = (IF 1 <= m - 1 THEN (m - 1) - 1 + 1 ELSE 0)
          /\ \A i \in 1..((m - 1) - 1 + 1) : low[i] = s.redo[1 + i - 1]
      BY <1>1, <2>0, SubSeqProperties DEF Popped
    <2>2. (m - 1) - 1 + 1 = m - 1 /\ \A i \in 1..(m - 1) : 1 + i - 1 = i
      BY <1>1
    <2> HIDE DEF low
    <2> QED BY <1>1, <1>2, <2>1, <2>2
  <1>9. Grounded(s.undo, n) => /\ s.cache = s.undo[n].seen
                               /\ Applied(s.undo[n].seen, e.patch) = e.seen
    BY <1>2, <1>3 DEF LeadsOn, Top
  <1>10. /\ Counted(above) \in Nat /\ Counted(above) < n + 1
         /\ \E c \in Checkpoints(above) : (n + 1) - c <= Counted(above)
    BY <1>7, CountedIs
  <1>11. /\ r.undo = above /\ r.redo = low /\ r.cache = state /\ r.count = Counted(above)
         /\ r \in [undo : {above}, redo : {low}, cache : {state}, count : {Counted(above)},
                   offered : {TRUE}]
    OBVIOUS
  <1>12. Chained(above)
    BY <1>7, <1>9
  <1>13. state = e.seen \/ ~Grounded(s.undo, n)
    BY <1>9
  <1>14. \A k \in 1..m : Grounded(s.undo, n) =>
           Applied(IF k = m THEN s.undo[n].seen ELSE s.redo[k + 1].seen, s.redo[k].patch)
             = s.redo[k].seen
    BY <1>3 DEF LeadsOn, Top
  <1>e. s.redo[m] = e
    OBVIOUS
  <1>s. \A i \in 2..n : s.undo[i].type = "checkpoint" => s.undo[i].state # Empty
    BY <1>3 DEF SnapshotsHeld
  <1> HIDE DEF r, above, low, state, e, n, m
  <1>15. StacksOK(r)
    <2>1. r \in [undo : Seq(Entry), redo : Seq(PatchEntry),
                 cache : Documents \union {Empty}, count : Nat, offered : BOOLEAN]
      BY <1>6, <1>7, <1>8, <1>10, <1>11 DEF Based
    <2> QED BY <1>7, <1>11, <2>1 DEF StacksOK, Based
  <1>16. SnapshotsHeld(r)
    <2> SUFFICES ASSUME NEW i \in 2..(n + 1), above[i].type = "checkpoint"
                 PROVE  above[i].state # Empty
      BY <1>7, <1>11 DEF SnapshotsHeld
    <2>1. i # n + 1
      BY <1>4, <1>7
    <2>2. i \in 2..n /\ i \in 1..n
      BY <1>1, <2>1
    <2> QED BY <1>7, <1>s, <2>2
  <1>17. CheckpointNear(r)
    BY <1>7, <1>10, <1>11 DEF CheckpointNear
  <1>18. ASSUME Grounded(above, n + 1) PROVE LeadsOn(r)
    <2>1. Grounded(s.undo, n) /\ state = e.seen /\ Top(r) = e
      BY <1>7, <1>11, <1>13, <1>18 DEF Top
    <2>2. ASSUME NEW k \in 1..(m - 1)
          PROVE  Applied(IF k = m - 1 THEN Top(r).seen ELSE low[k + 1].seen, low[k].patch)
                   = low[k].seen
      <3>1. k \in 1..m /\ k # m /\ low[k] = s.redo[k]
        BY <1>1, <1>8
      <3>2. Applied(s.redo[k + 1].seen, s.redo[k].patch) = s.redo[k].seen
        BY <1>14, <2>1, <3>1
      <3>3. (IF k = m - 1 THEN Top(r).seen ELSE low[k + 1].seen) = s.redo[k + 1].seen
        <4>1. CASE k = m - 1
          BY <1>1, <1>e, <2>1, <4>1
        <4>2. CASE k # m - 1
          <5>1. k + 1 \in 1..(m - 1)
            BY <1>1, <4>2
          <5> QED BY <1>8, <4>2, <5>1
        <4> QED BY <4>1, <4>2
      <3> QED BY <3>1, <3>2, <3>3
    <2> QED BY <1>8, <1>11, <2>1, <2>2 DEF LeadsOn
  <1>19. Good(r)
    BY <1>7, <1>11, <1>12, <1>15, <1>16, <1>17, <1>18 DEF Good, Sound
  <1> QED BY <1>5, <1>6, <1>11, <1>19

LEMMA BaselineKeeps ==
  ASSUME NEW state \in Documents, NEW offered \in BOOLEAN
  PROVE  Good(Baseline(state, offered)) /\ Baseline(state, offered).cache = state
  <1> DEFINE s == Baseline(state, offered)
             e == Checkpoint(state)
  <1>1. e \in CheckpointEntry /\ e.type = "checkpoint" /\ e.sound /\ e.state = state /\ e.seen = state
    BY DEF Checkpoint, CheckpointEntry
  <1>2. /\ s.undo = <<e>> /\ s.redo = <<>> /\ s.cache = state /\ s.count = 0
        /\ s \in [undo : {<<e>>}, redo : {<<>>}, cache : {state}, count : {0}, offered : BOOLEAN]
    BY DEF Baseline
  <1> HIDE DEF s, e
  <1>3. /\ <<e>> \in Seq(Entry) /\ Len(<<e>>) = 1 /\ <<e>>[1] = e /\ <<>> \in Seq(PatchEntry)
        /\ Len(<<>>) = 0
    BY <1>1 DEF Entry
  <1>4. StacksOK(s)
    <2>1. s \in [undo : Seq(Entry), redo : Seq(PatchEntry),
                 cache : Documents \union {Empty}, count : Nat, offered : BOOLEAN]
      <3>1. s.undo \in Seq(Entry) /\ s.redo \in Seq(PatchEntry) /\ s.cache \in Documents
        BY <1>2, <1>3
      <3>2. s \in [undo : {s.undo}, redo : {s.redo}, cache : {s.cache}, count : {0},
                   offered : BOOLEAN]
        BY <1>2
      <3> QED BY <3>1, <3>2
    <2> QED BY <1>1, <1>2, <1>3, <2>1 DEF StacksOK
  <1>5. 1 \in Checkpoints(s.undo)
    BY <1>1, <1>2, <1>3 DEF Checkpoints
  <1>6. SnapshotsHeld(s) /\ Chained(s.undo) /\ CheckpointNear(s)
    BY <1>1, <1>2, <1>3, <1>5 DEF SnapshotsHeld, Chained, CheckpointNear
  <1>7. LeadsOn(s)
    BY <1>1, <1>2, <1>3 DEF LeadsOn, Top
  <1> QED BY <1>2, <1>4, <1>6, <1>7 DEF Good, Sound, s

\* Which entry a toast offers to undo changes nothing else.
SameButToasts(a, b) ==
  /\ Len(a) = Len(b)
  /\ \A i \in 1..Len(b) :
       /\ a[i].type = b[i].type /\ a[i].state = b[i].state /\ a[i].patch = b[i].patch
       /\ a[i].seen = b[i].seen /\ a[i].sound = b[i].sound

LEMMA UntoastedIs ==
  ASSUME NEW E \in {Entry, PatchEntry}, NEW stack \in Seq(E)
  PROVE  Untoasted(stack) \in Seq(E) /\ SameButToasts(Untoasted(stack), stack)
  <1> DEFINE n == Len(stack)
             bare(i) == [stack[i] EXCEPT !.toast = FALSE]
  <1>1. n \in Nat /\ DOMAIN stack = 1..n /\ \A i \in 1..n : stack[i] \in E
    BY ElementOfSeq
  <1>2. Untoasted(stack) = [i \in 1..n |-> bare(i)]
    BY <1>1 DEF Untoasted
  <1>3. ASSUME NEW i \in 1..n
        PROVE  /\ bare(i) \in E /\ bare(i).type = stack[i].type /\ bare(i).state = stack[i].state
               /\ bare(i).patch = stack[i].patch /\ bare(i).seen = stack[i].seen
               /\ bare(i).sound = stack[i].sound
    <2>1. stack[i] \in CheckpointEntry \/ stack[i] \in PatchEntry
      BY <1>1 DEF Entry
    <2>2. CASE stack[i] \in CheckpointEntry
      <3>1. bare(i) \in CheckpointEntry
        BY <2>2 DEF CheckpointEntry
      <3>2. E = Entry \/ stack[i] \in PatchEntry
        BY <1>1
      <3>3. stack[i].type = "checkpoint"
        BY <2>2 DEF CheckpointEntry
      <3>4. E = Entry
        BY <3>2, <3>3 DEF PatchEntry
      <3>5. bare(i) \in E
        <4> HIDE DEF bare
        <4> QED BY <3>1, <3>4 DEF Entry
      <3> QED BY <2>2, <3>5 DEF CheckpointEntry
    <2>3. CASE stack[i] \in PatchEntry
      <3>1. bare(i) \in PatchEntry
        BY <2>3 DEF PatchEntry
      <3>2. bare(i) \in E
        <4> HIDE DEF bare
        <4> QED BY <3>1 DEF Entry
      <3> QED BY <2>3, <3>2 DEF PatchEntry
    <2> QED BY <2>1, <2>2, <2>3
  <1> HIDE DEF bare
  <1>4. [i \in 1..n |-> bare(i)] \in Seq(E) /\ Len([i \in 1..n |-> bare(i)]) = n
    BY <1>1, <1>3
  <1> QED BY <1>1, <1>2, <1>3, <1>4 DEF SameButToasts

LEMMA ToastedIs ==
  ASSUME NEW stack \in Seq(Entry), NEW n \in 1..Len(stack)
  PROVE  /\ [stack EXCEPT ![n].toast = TRUE] \in Seq(Entry)
         /\ SameButToasts([stack EXCEPT ![n].toast = TRUE], stack)
  <1> DEFINE e == [stack[n] EXCEPT !.toast = TRUE]
  <1>1. stack[n] \in Entry
    BY ElementOfSeq
  <1>2. /\ e \in Entry /\ e.type = stack[n].type /\ e.state = stack[n].state
        /\ e.patch = stack[n].patch /\ e.seen = stack[n].seen /\ e.sound = stack[n].sound
    <2>1. CASE stack[n] \in CheckpointEntry
      <3>1. e \in CheckpointEntry
        BY <2>1 DEF CheckpointEntry
      <3>2. e \in Entry
        <4> HIDE DEF e
        <4> QED BY <3>1 DEF Entry
      <3> QED BY <2>1, <3>2 DEF CheckpointEntry
    <2>2. CASE stack[n] \in PatchEntry
      <3>1. e \in PatchEntry
        BY <2>2 DEF PatchEntry
      <3>2. e \in Entry
        <4> HIDE DEF e
        <4> QED BY <3>1 DEF Entry
      <3> QED BY <2>2, <3>2 DEF PatchEntry
    <2> QED BY <1>1, <2>1, <2>2 DEF Entry
  <1>3. [stack EXCEPT ![n].toast = TRUE] = [stack EXCEPT ![n] = e]
    OBVIOUS
  <1> HIDE DEF e
  <1>4. /\ [stack EXCEPT ![n] = e] \in Seq(Entry)
        /\ Len([stack EXCEPT ![n] = e]) = Len(stack)
        /\ \A i \in 1..Len(stack) : [stack EXCEPT ![n] = e][i] = IF i = n THEN e ELSE stack[i]
    BY <1>2, ExceptSeq
  <1> QED BY <1>2, <1>3, <1>4 DEF SameButToasts

LEMMA SameIsAsSound ==
  ASSUME NEW s, Good(s), NEW r,
         r.undo \in Seq(Entry), r.redo \in Seq(PatchEntry),
         SameButToasts(r.undo, s.undo), SameButToasts(r.redo, s.redo),
         r \in [undo : {r.undo}, redo : {r.redo}, cache : {s.cache}, count : {s.count},
                offered : BOOLEAN]
  PROVE  Good(r)
  <1> DEFINE n == Len(s.undo)
             m == Len(s.redo)
  <1>1. /\ n \in Nat /\ n >= 1 /\ n \in 1..n /\ m \in Nat
        /\ s.cache \in Documents \union {Empty} /\ s.count \in Nat
    BY GoodIs DEF Good
  <1>2. s.undo[1].type = "checkpoint"
    BY DEF Good, StacksOK
  <1>3. Len(r.undo) = n /\ Len(r.redo) = m /\ r.cache = s.cache /\ r.count = s.count
    BY DEF SameButToasts
  <1>4. /\ \A i \in 1..n :
             /\ r.undo[i].type = s.undo[i].type /\ r.undo[i].state = s.undo[i].state
             /\ r.undo[i].patch = s.undo[i].patch /\ r.undo[i].seen = s.undo[i].seen
             /\ r.undo[i].sound = s.undo[i].sound
        /\ \A k \in 1..m : r.redo[k].patch = s.redo[k].patch /\ r.redo[k].seen = s.redo[k].seen
    BY DEF SameButToasts
  <1>5. /\ SnapshotsHeld(s) /\ Chained(s.undo) /\ CheckpointNear(s)
        /\ (Grounded(s.undo, n) => LeadsOn(s))
    BY DEF Good, Sound
  <1>6. Checkpoints(r.undo) = Checkpoints(s.undo) /\ Checkpoints(s.undo) \subseteq 1..n
    BY <1>3, <1>4 DEF Checkpoints
  <1>7. \A i \in 1..n : Grounded(r.undo, i) <=> Grounded(s.undo, i)
    BY <1>4, <1>6 DEF Grounded
  <1>8. StacksOK(r)
    <2>1. r \in [undo : Seq(Entry), redo : Seq(PatchEntry),
                 cache : Documents \union {Empty}, count : Nat, offered : BOOLEAN]
      BY <1>1, <1>2
    <2>2. r.undo[1].type = "checkpoint" /\ Len(r.undo) >= 1
      BY <1>1, <1>2, <1>3, <1>4
    <2> QED BY <2>1, <2>2 DEF StacksOK
  <1>9. SnapshotsHeld(r)
    <2> SUFFICES ASSUME NEW i \in 2..n, r.undo[i].type = "checkpoint"
                 PROVE  r.undo[i].state # Empty
      BY <1>3 DEF SnapshotsHeld
    <2> QED BY <1>1, <1>4, <1>5 DEF SnapshotsHeld
  <1>10. Chained(r.undo)
    <2> SUFFICES ASSUME NEW i \in 1..n, Grounded(r.undo, i)
                 PROVE  IF r.undo[i].type = "checkpoint"
                        THEN r.undo[i].sound /\ r.undo[i].state = r.undo[i].seen
                        ELSE Applied(r.undo[i - 1].seen, r.undo[i].patch) = r.undo[i].seen
      BY <1>3 DEF Chained
    <2>1. IF s.undo[i].type = "checkpoint"
          THEN s.undo[i].sound /\ s.undo[i].state = s.undo[i].seen
          ELSE Applied(s.undo[i - 1].seen, s.undo[i].patch) = s.undo[i].seen
      BY <1>5, <1>7 DEF Chained
    <2>2. CASE i = 1
      BY <1>1, <1>2, <1>4, <2>1, <2>2
    <2>3. CASE i # 1
      <3>1. i - 1 \in 1..n
        BY <1>1, <2>3
      <3> QED BY <1>4, <2>1, <3>1
    <2> QED BY <2>2, <2>3
  <1>11. CheckpointNear(r)
    BY <1>3, <1>5, <1>6 DEF CheckpointNear
  <1>12. ASSUME LeadsOn(s) PROVE LeadsOn(r)
    <2>1. Top(r).seen = Top(s).seen /\ r.cache = Top(r).seen
      BY <1>1, <1>3, <1>4, <1>12 DEF LeadsOn, Top
    <2>2. ASSUME NEW k \in 1..m
          PROVE  Applied(IF k = m THEN Top(r).seen ELSE r.redo[k + 1].seen, r.redo[k].patch)
                   = r.redo[k].seen
      <3>1. Applied(IF k = m THEN Top(s).seen ELSE s.redo[k + 1].seen, s.redo[k].patch)
              = s.redo[k].seen
        BY <1>12 DEF LeadsOn
      <3>2. CASE k = m
        BY <1>4, <2>1, <3>1, <3>2
      <3>3. CASE k # m
        <4>1. k + 1 \in 1..m
          BY <1>1, <3>3
        <4> QED BY <1>4, <3>1, <3>3, <4>1
      <3> QED BY <3>2, <3>3
    <2> QED BY <1>3, <2>1, <2>2 DEF LeadsOn
  <1> QED BY <1>1, <1>3, <1>5, <1>7, <1>8, <1>9, <1>10, <1>11, <1>12 DEF Good, Sound

LEMMA RestoreKeeps ==
  ASSUME NEW s, Good(s), NEW i \in 2..Len(s.undo),
         Reconstructed(s.undo, i) # Throws,
         NEW r,
         r = [s EXCEPT !.undo = Append(SubSeq(@, 1, i),
                            [Checkpoint(Reconstructed(s.undo, i)) EXCEPT
                               !.seen = s.undo[i].seen,
                               !.sound = Reconstructed(s.undo, i) = s.undo[i].seen]),
                       !.redo = <<>>, !.cache = Reconstructed(s.undo, i)]
  PROVE  Good(r) /\ r.cache = Reconstructed(s.undo, i) /\ r.cache \in Documents
  <1> DEFINE n == Len(s.undo)
             state == Reconstructed(s.undo, i)
             low == SubSeq(s.undo, 1, i)
             e == [Checkpoint(state) EXCEPT !.seen = s.undo[i].seen,
                                            !.sound = state = s.undo[i].seen]
             high == Append(low, e)
  <1>1. n \in Nat /\ Based(s.undo) /\ i \in 1..n /\ i \in Nat /\ i >= 2 /\ s.count \in Nat
    BY GoodIs DEF Good
  <1>2. SnapshotsHeld(s) /\ Chained(s.undo)
    BY DEF Good, Sound
  <1>3. /\ state \in Documents \union {Empty, Throws}
        /\ state = Empty => s.undo[i].type = "checkpoint" /\ s.undo[i].state = Empty
    BY <1>1, ReconstructedTyped
  <1>4. state \in Documents
    BY <1>2, <1>3 DEF SnapshotsHeld
  <1>5. s.undo[i].seen \in Documents
    <2>1. s.undo[i] \in Entry
      BY <1>1, ElementOfSeq DEF Based
    <2> QED BY <2>1, EntryTyped
  <1>6. /\ r.undo = high /\ r.redo = <<>> /\ r.cache = state /\ r.count = s.count
        /\ r \in [undo : {r.undo}, redo : {<<>>}, cache : {state}, count : {s.count},
                  offered : BOOLEAN]
    <2>1. s \in [undo : Seq(Entry), redo : Seq(PatchEntry),
                 cache : Documents \union {Empty}, count : Nat, offered : BOOLEAN]
      BY DEF Good, StacksOK
    <2> HIDE DEF state, e
    <2>2. r = [s EXCEPT !.undo = Append(SubSeq(@, 1, i), e), !.redo = <<>>, !.cache = state]
      BY DEF state, e
    <2> QED BY <2>1, <2>2
  <1>7. Grounded(s.undo, i) => state = s.undo[i].seen
    BY <1>1, <1>2, ReconstructedIsSeen
  <1> HIDE DEF state
  <1>8. /\ e \in CheckpointEntry /\ e.type = "checkpoint" /\ e.state = state
        /\ e.seen = s.undo[i].seen /\ (e.sound <=> state = s.undo[i].seen)
    BY <1>4, <1>5 DEF Checkpoint, CheckpointEntry
  <1> HIDE DEF e
  <1>9. /\ Based(low) /\ Len(low) = i /\ \A j \in 1..i : low[j] = s.undo[j]
        /\ \A j \in 1..i : Grounded(low, j) <=> Grounded(s.undo, j)
        /\ Chained(low)
    BY <1>1, <1>2, PrefixKeeps
  <1>10. e \in Entry
    BY <1>8 DEF Entry
  <1>11. /\ Based(high) /\ Len(high) = i + 1 /\ high[i + 1] = e
         /\ \A j \in 1..i : high[j] = low[j]
    BY <1>9, <1>10, PushKeeps
  <1>12. Grounded(high, i + 1) => e.sound /\ e.state = e.seen
    <2>0. Grounded(high, Len(high)) <=>
            Grounded(low, Len(low)) \/ (e.type = "checkpoint" /\ e.sound)
      BY <1>9, <1>10, PushKeeps
    <2> HIDE DEF low, high
    <2>1. Grounded(high, i + 1) <=> Grounded(low, i) \/ (e.type = "checkpoint" /\ e.sound)
      BY <1>9, <1>11, <2>0
    <2>2. i \in 1..i
      BY <1>1
    <2> QED BY <1>7, <1>8, <1>9, <2>1, <2>2
  <1>13. Chained(high)
    <2>1. Chained(low)
            /\ (Grounded(high, Len(high)) =>
                  IF e.type = "checkpoint" THEN e.sound /\ e.state = e.seen
                  ELSE Applied(low[Len(low)].seen, e.patch) = e.seen)
            => Chained(high)
      BY <1>9, <1>10, PushKeeps
    <2> QED BY <1>8, <1>9, <1>11, <1>12, <2>1
  <1> HIDE DEF low, high, n
  <1>14. StacksOK(r)
    <2>0. <<>> \in Seq(PatchEntry) /\ Len(<<>>) = 0
      OBVIOUS
    <2>1. r \in [undo : Seq(Entry), redo : Seq(PatchEntry),
                 cache : Documents \union {Empty}, count : Nat, offered : BOOLEAN]
      BY <1>1, <1>4, <1>6, <1>11, <2>0 DEF Based
    <2> QED BY <1>6, <1>11, <2>1 DEF StacksOK, Based
  <1>15. SnapshotsHeld(r)
    <2> SUFFICES ASSUME NEW j \in 2..(i + 1), high[j].type = "checkpoint"
                 PROVE  high[j].state # Empty
      BY <1>6, <1>11 DEF SnapshotsHeld
    <2>1. CASE j = i + 1
      BY <1>4, <1>8, <1>11, <2>1, EmptyAssumption DEF Documents
    <2>2. CASE j # i + 1
      <3>1. j \in 1..i /\ j \in 2..n
        BY <1>1, <2>2
      <3> QED BY <1>2, <1>9, <1>11, <3>1 DEF SnapshotsHeld, n
    <2> QED BY <2>1, <2>2
  <1>16. CheckpointNear(r)
    <2>1. i + 1 \in Checkpoints(high) /\ (i + 1) - (i + 1) <= s.count
      BY <1>1, <1>8, <1>11 DEF Checkpoints
    <2> QED BY <1>6, <1>11, <2>1 DEF CheckpointNear
  <1>17. ASSUME Grounded(high, i + 1) PROVE LeadsOn(r)
    <2>1. Top(r).seen = state
      BY <1>6, <1>8, <1>11, <1>12, <1>17 DEF Top
    <2>2. Len(r.redo) = 0
      BY <1>6
    <2> QED BY <1>6, <2>1, <2>2 DEF LeadsOn
  <1> QED BY <1>4, <1>6, <1>11, <1>13, <1>14, <1>15, <1>16, <1>17 DEF Good, Sound, state

-----------------------------------------------------------------------------
(* The invariant.                                                          *)

LEMMA InvariantIs ==
  HistoryInvariant <=> /\ Good(stacks) /\ EmptyIsShown /\ doc \in Documents \union {Empty}
                       /\ timer \in {"none", "armed", "coalescing"}
                       /\ untracked \in BOOLEAN /\ rare \in 0..MaxRare
  BY DEF HistoryInvariant, Good, TypeOK

LEMMA InitInvariant == Init => HistoryInvariant /\ EditsAreRecorded
  <1> SUFFICES ASSUME Init PROVE HistoryInvariant /\ EditsAreRecorded
    OBVIOUS
  <1>1. doc \in Documents /\ Good(stacks) /\ stacks.cache = doc
    BY BaselineKeeps DEF Init
  <1>2. EmptyIsShown /\ EditsAreRecorded
    BY <1>1 DEF EmptyIsShown, EditsAreRecorded
  <1>3. /\ timer \in {"none", "armed", "coalescing"} /\ untracked \in BOOLEAN
        /\ rare \in 0..MaxRare
    <2>1. timer = "none" /\ rare = 0
      BY DEF Init
    <2>2. untracked \in BOOLEAN
      BY Zenon DEF Init
    <2> QED BY <2>1, <2>2, SizeAssumption
  <1> QED BY <1>1, <1>2, <1>3, InvariantIs

\* A flush records the edit that is owed, if one is.
LEMMA FlushKeeps ==
  ASSUME HistoryInvariant
  PROVE  /\ Good(Flushed) /\ (doc = Empty <=> Flushed.cache = Empty)
         /\ timer # "none" => Flushed.cache = doc
         /\ timer = "none" \/ doc = stacks.cache => Flushed = stacks
         /\ Flushed # stacks => Flushed = Recorded(stacks, doc) /\ RecordsOnTop(stacks, doc)
         /\ Good(Recorded(stacks, doc)) /\ Recorded(stacks, doc).cache = doc
  <1>1. Good(stacks) /\ (doc \in Documents \/ doc = stacks.cache)
    BY InvariantIs DEF EmptyIsShown
  <1>2. /\ Good(Recorded(stacks, doc)) /\ Recorded(stacks, doc).cache = doc
        /\ stacks.cache # doc => RecordsOnTop(stacks, doc)
        /\ stacks.cache = doc => Recorded(stacks, doc) = stacks
    BY <1>1, RecordKeeps
  <1>3. doc = Empty <=> stacks.cache = Empty
    BY DEF HistoryInvariant, EmptyIsShown
  <1> QED BY <1>1, <1>2, <1>3 DEF Flushed

\* A restore leaves nothing owed, and shows what is recorded.
LEMMA RestoresKeep ==
  ASSUME HistoryInvariant, EditsAreRecorded, NEW after, Good(after),
         Restores(Flushed, after)
  PROVE  HistoryInvariant' /\ EditsAreRecorded'
  <1>1. /\ stacks' = after /\ doc' = (IF after = Flushed THEN doc ELSE after.cache)
        /\ untracked' = (untracked /\ after = Flushed /\ timer = "none")
        /\ timer' = "none" /\ rare' = rare
    BY DEF Restores
  <1>2. /\ doc \in Documents \union {Empty} /\ rare \in 0..MaxRare
        /\ timer \in {"none", "armed", "coalescing"} /\ untracked \in BOOLEAN
    BY InvariantIs
  <1>3. after.cache \in Documents \union {Empty}
    BY GoodIs DEF Good
  <1>4. Good(stacks') /\ doc' \in Documents \union {Empty}
    BY <1>1, <1>2, <1>3
  <1>5. EmptyIsShown'
    BY <1>1, FlushKeeps DEF EmptyIsShown
  <1>6. EditsAreRecorded'
    <2> SUFFICES ASSUME ~untracked' PROVE doc' = stacks'.cache
      BY DEF EditsAreRecorded
    <2>1. CASE after # Flushed
      BY <1>1, <2>1
    <2>2. CASE after = Flushed /\ timer # "none"
      BY <1>1, <2>2, FlushKeeps
    <2>3. CASE after = Flushed /\ timer = "none"
      <3>1. ~untracked
        BY <1>1, <2>3
      <3> QED BY <1>1, <2>3, <3>1, FlushKeeps DEF EditsAreRecorded
    <2> QED BY <2>1, <2>2, <2>3
  <1>7. untracked' \in BOOLEAN
    BY <1>1
  <1>8. HistoryInvariant'
    BY <1>1, <1>2, <1>4, <1>5, <1>7 DEF HistoryInvariant, Good, TypeOK
  <1> QED BY <1>6, <1>8

\* Both invariants, conjunct by conjunct.
Holds ==
  /\ Good(stacks) /\ (doc = Empty <=> stacks.cache = Empty)
  /\ doc \in Documents \union {Empty} /\ rare \in 0..MaxRare
  /\ timer \in {"none", "armed", "coalescing"} /\ untracked \in BOOLEAN
  /\ timer = "none" /\ ~untracked => doc = stacks.cache

LEMMA HoldsIs ==
  /\ Holds <=> HistoryInvariant /\ EditsAreRecorded
  /\ Holds' <=> HistoryInvariant' /\ EditsAreRecorded'
  <1>1. Holds <=> HistoryInvariant /\ EditsAreRecorded
    BY DEF Holds, HistoryInvariant, Good, TypeOK, EmptyIsShown, EditsAreRecorded
  <1>2. Holds' <=> HistoryInvariant' /\ EditsAreRecorded'
    BY DEF Holds, HistoryInvariant, Good, TypeOK, EmptyIsShown, EditsAreRecorded
  <1> QED BY <1>1, <1>2

\* Edits, timers and the records they lead to.
LEMMA EditsKeep ==
  ASSUME Holds,
         \/ \E p \in Parts, v \in Values : Edit(p, v) \/ WriteUntracked(p, v)
         \/ TimerFires \/ CoalesceFires \/ RecordNow \/ NoteUnrecordedAction
  PROVE  Holds'
  <1>1. MaxRare \in Nat /\ HistoryInvariant /\ EditsAreRecorded
    BY HoldsIs, SizeAssumption
  <1>2. ASSUME NEW p \in Parts, NEW v \in Values, doc # Empty
        PROVE  [doc EXCEPT ![p] = v] \in Documents /\ [doc EXCEPT ![p] = v] # Empty
    <2>1. doc \in Documents
      BY <1>2 DEF Holds
    <2>2. [doc EXCEPT ![p] = v] \in Documents
      BY <2>1 DEF Documents
    <2> QED BY <2>2, EmptyAssumption DEF Documents
  <1>3. ASSUME NEW p \in Parts, NEW v \in Values, Edit(p, v) PROVE Holds'
    <2>1. /\ doc # Empty /\ doc' = [doc EXCEPT ![p] = v] /\ timer' = "armed"
          /\ stacks' = stacks /\ untracked' = untracked /\ rare' = rare
      BY <1>3 DEF Edit
    <2> QED BY <1>2, <2>1 DEF Holds
  <1>4. ASSUME NEW p \in Parts, NEW v \in Values, WriteUntracked(p, v) PROVE Holds'
    <2>1. /\ doc # Empty /\ doc' = [doc EXCEPT ![p] = v] /\ timer' = timer
          /\ stacks' = stacks /\ untracked' = TRUE /\ rare' = rare + 1 /\ rare < MaxRare
      BY <1>4 DEF WriteUntracked
    <2>2. rare' \in 0..MaxRare
      BY <1>1, <2>1 DEF Holds
    <2> QED BY <1>2, <2>1, <2>2 DEF Holds
  <1>5. CASE TimerFires
    <2>1. /\ timer' = "coalescing" /\ doc' = doc /\ stacks' = stacks
          /\ untracked' = untracked /\ rare' = rare
      BY <1>5 DEF TimerFires
    <2> QED BY <2>1 DEF Holds
  <1>6. Good(Recorded(stacks, doc)) /\ Recorded(stacks, doc).cache = doc
    BY <1>1, FlushKeeps
  <1>7. CASE CoalesceFires
    <2>1. /\ timer' = "none" /\ doc' = doc /\ stacks' = Recorded(stacks, doc)
          /\ untracked' = FALSE /\ rare' = rare
      BY <1>7 DEF CoalesceFires
    <2> QED BY <1>6, <2>1 DEF Holds
  <1>8. CASE RecordNow
    <2>1. /\ timer' = timer /\ doc' = doc /\ stacks' = Recorded(stacks, doc)
          /\ untracked' = FALSE /\ rare' = rare
      BY <1>8 DEF RecordNow
    <2> QED BY <1>6, <2>1 DEF Holds
  <1>9. CASE NoteUnrecordedAction
    <2>1. /\ timer' = timer /\ doc' = doc /\ stacks' = [stacks EXCEPT !.offered = FALSE]
          /\ untracked' = untracked /\ rare' = rare
      BY <1>9 DEF NoteUnrecordedAction
    <2>2. stacks \in [undo : Seq(Entry), redo : Seq(PatchEntry),
                      cache : Documents \union {Empty}, count : Nat, offered : BOOLEAN]
      BY DEF Holds, Good, StacksOK
    <2>3. /\ stacks'.undo = stacks.undo /\ stacks'.redo = stacks.redo
          /\ stacks'.cache = stacks.cache /\ stacks'.count = stacks.count
          /\ stacks' \in [undo : {stacks'.undo}, redo : {stacks'.redo}, cache : {stacks.cache},
                          count : {stacks.count}, offered : BOOLEAN]
          /\ stacks'.undo \in Seq(Entry) /\ stacks'.redo \in Seq(PatchEntry)
      BY <2>1, <2>2
    <2>4. SameButToasts(stacks'.undo, stacks.undo) /\ SameButToasts(stacks'.redo, stacks.redo)
      BY <2>3 DEF SameButToasts
    <2>5. Good(stacks')
      BY <2>3, <2>4, SameIsAsSound DEF Holds
    <2> QED BY <2>1, <2>3, <2>5 DEF Holds
  <1> QED BY <1>3, <1>4, <1>5, <1>7, <1>8, <1>9

\* Undo, redo and the toast.
LEMMA RestoringKeeps ==
  ASSUME Holds, Undo \/ Redo \/ ToastUndo
  PROVE  Holds'
  <1>1. HistoryInvariant /\ EditsAreRecorded /\ Good(Flushed)
    BY HoldsIs, FlushKeeps
  <1>2. CanUndo(Flushed) => Good(Undone(Flushed))
    BY <1>1, UndoKeeps
  <1>3. Flushed.redo # <<>> => Good(Redone(Flushed))
    BY <1>1, RedoKeeps
  <1>4. CASE Undo
    <2> DEFINE after == IF CanUndo(Flushed) THEN Undone(Flushed) ELSE Flushed
    <2>1. Good(after)
      BY <1>1, <1>2
    <2>2. Restores(Flushed, after)
      BY <1>4 DEF Undo
    <2> HIDE DEF after
    <2> QED BY <1>1, <2>1, <2>2, RestoresKeep, HoldsIs
  <1>5. CASE Redo
    <2> DEFINE after == IF Flushed.redo # <<>> THEN Redone(Flushed) ELSE Flushed
    <2>1. Good(after)
      BY <1>1, <1>3
    <2>2. Restores(Flushed, after)
      BY <1>5 DEF Redo
    <2> HIDE DEF after
    <2> QED BY <1>1, <2>1, <2>2, RestoresKeep, HoldsIs
  <1>6. CASE ToastUndo
    <2> DEFINE after == IF CanUndo(Flushed) /\ Top(Flushed).toast
                        THEN Undone(Flushed) ELSE Flushed
    <2>1. Good(after)
      BY <1>1, <1>2
    <2>2. Restores(Flushed, after)
      BY <1>6 DEF ToastUndo
    <2> HIDE DEF after
    <2> QED BY <1>1, <2>1, <2>2, RestoresKeep, HoldsIs
  <1> QED BY <1>4, <1>5, <1>6

LEMMA CaptureKeeps ==
  ASSUME Holds, CaptureUndo
  PROVE  Holds'
  <1> DEFINE undo == Untoasted(Flushed.undo)
             n == Len(undo)
             toasted == IF n > 1 THEN [undo EXCEPT ![n].toast = TRUE] ELSE undo
             redo == Untoasted(Flushed.redo)
  <1>1. /\ HistoryInvariant /\ EditsAreRecorded /\ Good(Flushed)
        /\ (doc = Empty <=> Flushed.cache = Empty)
    BY HoldsIs, FlushKeeps
  <1>2. Flushed \in [undo : Seq(Entry), redo : Seq(PatchEntry),
                     cache : Documents \union {Empty}, count : Nat, offered : BOOLEAN]
    BY <1>1 DEF Good, StacksOK
  <1>3. undo \in Seq(Entry) /\ SameButToasts(undo, Flushed.undo)
    BY <1>2, UntoastedIs
  <1>4. redo \in Seq(PatchEntry) /\ SameButToasts(redo, Flushed.redo)
    BY <1>2, UntoastedIs
  <1>5. /\ stacks' = [Flushed EXCEPT !.undo = toasted, !.redo = redo]
        /\ untracked' = (untracked /\ timer = "none") /\ timer' = "none"
        /\ doc' = doc /\ rare' = rare
    BY DEF CaptureUndo
  <1> HIDE DEF undo, redo
  <1>6. toasted \in Seq(Entry) /\ SameButToasts(toasted, Flushed.undo)
    <2>1. CASE n > 1
      <3>1. n \in 1..n
        BY <1>3, <2>1
      <3> HIDE DEF n
      <3>2. /\ [undo EXCEPT ![n].toast = TRUE] \in Seq(Entry)
            /\ SameButToasts([undo EXCEPT ![n].toast = TRUE], undo)
        BY <1>3, <3>1, ToastedIs DEF n
      <3>3. toasted = [undo EXCEPT ![n].toast = TRUE]
        BY <2>1
      <3> HIDE DEF toasted
      <3>4. Len(undo) = Len(Flushed.undo) /\ Len(toasted) = Len(Flushed.undo)
        BY <1>3, <3>2, <3>3 DEF SameButToasts
      <3> QED BY <1>3, <3>2, <3>3, <3>4 DEF SameButToasts
    <2>2. CASE ~(n > 1)
      BY <1>3, <2>2
    <2> QED BY <2>1, <2>2
  <1> HIDE DEF toasted
  <1>7. /\ stacks'.undo = toasted /\ stacks'.redo = redo /\ stacks'.cache = Flushed.cache
        /\ stacks' \in [undo : {stacks'.undo}, redo : {stacks'.redo}, cache : {Flushed.cache},
                        count : {Flushed.count}, offered : BOOLEAN]
    BY <1>2, <1>5
  <1>8. Good(stacks')
    BY <1>1, <1>4, <1>6, <1>7, SameIsAsSound
  <1>9. ~untracked' => doc' = stacks'.cache
    <2> SUFFICES ASSUME ~untracked' PROVE doc' = stacks'.cache
      OBVIOUS
    <2>1. CASE timer # "none"
      BY <1>1, <1>5, <1>7, <2>1, FlushKeeps
    <2>2. CASE timer = "none"
      <3>1. ~untracked
        BY <1>5, <2>2
      <3> QED BY <1>1, <1>5, <1>7, <2>2, <3>1, FlushKeeps DEF EditsAreRecorded
    <2> QED BY <2>1, <2>2
  <1>10. untracked' \in BOOLEAN
    BY <1>5
  <1> QED BY <1>1, <1>5, <1>7, <1>8, <1>9, <1>10 DEF Holds

\* restoreEntry, a load and a clear.
LEMMA LoadsKeep ==
  ASSUME Holds,
         \/ \E i \in 2..Len(stacks.undo) : RestoreEntry(i)
         \/ \E new \in Documents : Load(new)
         \/ Clear
  PROVE  Holds'
  <1>1. MaxRare \in Nat
    BY SizeAssumption
  <1>2. ASSUME NEW i \in 2..Len(stacks.undo), RestoreEntry(i) PROVE Holds'
    <2> DEFINE state == Reconstructed(stacks.undo, i)
    <2>1. i \in 2..Len(stacks.undo) /\ state # Throws
      BY <1>2 DEF RestoreEntry
    <2>2. stacks' = [stacks EXCEPT
            !.undo = Append(SubSeq(@, 1, i),
                            [Checkpoint(state) EXCEPT !.seen = stacks.undo[i].seen,
                               !.sound = state = stacks.undo[i].seen]),
            !.redo = <<>>, !.cache = state]
      BY <1>2 DEF RestoreEntry
    <2>3. doc' = state /\ untracked' = FALSE /\ timer' = timer
      BY <1>2 DEF RestoreEntry
    <2>r. rare' \in 0..MaxRare
      <3>1. rare \in 0..MaxRare
        BY DEF Holds
      <3>2. CASE i < MaxHistory
        BY <1>2, <3>1, <3>2 DEF RestoreEntry
      <3>3. CASE ~(i < MaxHistory)
        <4>1. rare' = rare + 1 /\ rare < MaxRare
          BY <1>2, <3>3 DEF RestoreEntry
        <4> QED BY <1>1, <3>1, <4>1
      <3> QED BY <3>2, <3>3
    <2>4. Good(stacks') /\ stacks'.cache = state /\ stacks'.cache \in Documents
      BY <2>1, <2>2, RestoreKeeps DEF Holds
    <2> HIDE DEF state
    <2> QED BY <2>3, <2>4, <2>r, EmptyAssumption DEF Holds, Documents
  <1>3. ASSUME NEW new \in Documents, Load(new) PROVE Holds'
    <2>1. /\ doc' = new /\ stacks' = Baseline(new, stacks.offered) /\ timer' = "armed"
          /\ untracked' = FALSE /\ rare' = rare + 1 /\ rare < MaxRare
      BY <1>3 DEF Load
    <2>2. stacks.offered \in BOOLEAN
      BY DEF Holds, Good, StacksOK
    <2>3. Good(stacks') /\ stacks'.cache = new
      BY <2>1, <2>2, BaselineKeeps
    <2>4. rare' \in 0..MaxRare
      BY <1>1, <2>1 DEF Holds
    <2> QED BY <2>1, <2>3, <2>4, EmptyAssumption DEF Holds, Documents
  <1>4. CASE Clear
    <2>1. /\ doc # Empty /\ doc' = doc /\ stacks' = Baseline(doc, TRUE) /\ timer' = timer
          /\ untracked' = FALSE /\ rare' = rare + 1 /\ rare < MaxRare
      BY <1>4 DEF Clear
    <2>2. doc \in Documents
      BY <2>1 DEF Holds
    <2>3. Good(stacks') /\ stacks'.cache = doc
      BY <2>1, <2>2, BaselineKeeps
    <2>4. rare' \in 0..MaxRare
      BY <1>1, <2>1 DEF Holds
    <2> QED BY <2>1, <2>2, <2>3, <2>4 DEF Holds
  <1> QED BY <1>2, <1>3, <1>4

LEMMA StepKeeps == Holds /\ [Next]_vars => Holds'
  <1> SUFFICES ASSUME Holds, [Next]_vars PROVE Holds'
    OBVIOUS
  <1>1. CASE UNCHANGED vars
    BY <1>1 DEF vars, Holds
  <1>2. CASE Next
    BY <1>2, EditsKeep, RestoringKeeps, CaptureKeeps, LoadsKeep DEF Next
  <1> QED BY <1>1, <1>2

-----------------------------------------------------------------------------
(* The theorems.                                                           *)

\* The invariant of the stacks holds, whatever is edited, undone, redone, restored,
\* loaded and cleared.
THEOREM HistoryHolds == Spec => [](HistoryInvariant /\ EditsAreRecorded)
  <1>1. Init => Holds
    BY InitInvariant, HoldsIs
  <1>2. Holds => HistoryInvariant /\ EditsAreRecorded
    BY HoldsIs
  <1> QED BY <1>1, <1>2, StepKeeps, PTL DEF Spec

\* Every variable has its type, and the stacks their shape: the oldest entry is a
\* checkpoint, and undo and redo together are never longer than the history may be.
THEOREM HistoryTyped == Spec => []TypeOK
  <1>1. HistoryInvariant => TypeOK
    BY DEF HistoryInvariant
  <1> QED BY <1>1, HistoryHolds, PTL

\* Whatever rests on a sound checkpoint is reconstructed as the user saw it: proved
\* for a stack of any length, by the least entry of which it would not hold.
THEOREM StackStaysFaithful == Spec => []StackIsFaithful
  <1>1. HistoryInvariant => StackIsFaithful
    <2> SUFFICES ASSUME HistoryInvariant, NEW i \in 1..Len(stacks.undo),
                        Grounded(stacks.undo, i)
                 PROVE  Reconstructed(stacks.undo, i) = stacks.undo[i].seen
      BY DEF StackIsFaithful
    <2>1. Based(stacks.undo) /\ Chained(stacks.undo)
      BY InvariantIs, GoodIs DEF Good, Sound
    <2> QED BY <2>1, ReconstructedIsSeen
  <1> QED BY <1>1, HistoryHolds, PTL

\* With no timer set and no untracked write, nothing is left out of the history.
THEOREM EditsStayRecorded == Spec => []EditsAreRecorded
  BY HistoryHolds, PTL

\* An undo that goes down from a recorded document can be taken back.
LEMMA UndoLeadsBack ==
  ASSUME HistoryInvariant, EditsAreRecorded, CheckpointInterval <= MaxHistory,
         NEW after, after = Flushed \/ (CanUndo(Flushed) /\ after = Undone(Flushed)),
         Restores(Flushed, after),
         ~(untracked /\ timer = "none"), Grounded(stacks.undo, Len(stacks.undo)),
         doc' # doc
  PROVE  Applied(doc', stacks'.redo[Len(stacks'.redo)].patch) = doc
  <1>1. /\ Good(stacks) /\ Good(Flushed)
        /\ timer # "none" => Flushed.cache = doc
        /\ timer = "none" \/ doc = stacks.cache => Flushed = stacks
        /\ Flushed # stacks => Flushed = Recorded(stacks, doc) /\ RecordsOnTop(stacks, doc)
    BY FlushKeeps, InvariantIs
  <1>2. CanUndo(Flushed) /\ after = Undone(Flushed) /\ after # Flushed
        /\ doc' = after.cache /\ stacks' = after
    BY DEF Restores
  <1>3. Len(Flushed.undo) > 1 /\ Top(Flushed) \in Entry
        /\ Top(Flushed).type \in {"checkpoint", "patch"}
    BY <1>1, <1>2, GoodIs, EntryTyped DEF Good, CanUndo
  <1>4. Grounded(Flushed.undo, Len(Flushed.undo)) \/ Top(Flushed).type = "checkpoint" =>
          Applied(doc', stacks'.redo[Len(stacks'.redo)].patch) =
            IF Top(Flushed).type = "checkpoint" THEN Top(Flushed).state ELSE Top(Flushed).seen
    BY <1>1, <1>2, UndoKeeps
  <1>5. CASE Flushed # stacks
    BY <1>1, <1>3, <1>4, <1>5 DEF RecordsOnTop
  <1>6. CASE Flushed = stacks
    <2>1. doc = stacks.cache
      BY <1>1, <1>6 DEF EditsAreRecorded
    <2>2. Chained(stacks.undo) /\ stacks.cache = Top(stacks).seen
      BY <1>1 DEF Good, Sound, LeadsOn
    <2>3. Top(stacks).type = "checkpoint" => Top(stacks).state = Top(stacks).seen
      <3>1. Len(stacks.undo) \in 1..Len(stacks.undo)
        BY <1>1, GoodIs DEF Good
      <3> QED BY <2>2, <3>1 DEF Chained, Top
    <2> QED BY <1>4, <1>6, <2>1, <2>2, <2>3
  <1> QED BY <1>5, <1>6

\* What an undo takes away a redo gives back, if checkpoints are not further apart
\* than the history is long: as it is configured, every tenth of a hundred.
THEOREM UndoStaysReversible ==
  CheckpointInterval <= MaxHistory => (Spec => UndoIsReversible)
  <1> SUFFICES ASSUME CheckpointInterval <= MaxHistory PROVE Spec => UndoIsReversible
    OBVIOUS
  <1> DEFINE Reversible ==
        \/ Undo \/ ToastUndo
        => \/ doc' = doc \/ (untracked /\ timer = "none")
           \/ ~Grounded(stacks.undo, Len(stacks.undo))
           \/ Applied(doc', stacks'.redo[Len(stacks'.redo)].patch) = doc
  <1>1. ASSUME HistoryInvariant, EditsAreRecorded, Undo \/ ToastUndo,
               ~(untracked /\ timer = "none"), Grounded(stacks.undo, Len(stacks.undo)),
               doc' # doc
        PROVE  Applied(doc', stacks'.redo[Len(stacks'.redo)].patch) = doc
    <2>1. CASE Undo
      <3> DEFINE after == IF CanUndo(Flushed) THEN Undone(Flushed) ELSE Flushed
      <3>1. after = Flushed \/ (CanUndo(Flushed) /\ after = Undone(Flushed))
        OBVIOUS
      <3>2. Restores(Flushed, after)
        BY <2>1 DEF Undo
      <3> HIDE DEF after
      <3> QED BY <1>1, <3>1, <3>2, UndoLeadsBack
    <2>2. CASE ToastUndo
      <3> DEFINE after == IF CanUndo(Flushed) /\ Top(Flushed).toast
                          THEN Undone(Flushed) ELSE Flushed
      <3>1. after = Flushed \/ (CanUndo(Flushed) /\ after = Undone(Flushed))
        OBVIOUS
      <3>2. Restores(Flushed, after)
        BY <2>2 DEF ToastUndo
      <3> HIDE DEF after
      <3> QED BY <1>1, <3>1, <3>2, UndoLeadsBack
    <2> QED BY <1>1, <2>1, <2>2
  <1>2. HistoryInvariant /\ EditsAreRecorded => [Reversible]_vars
    BY <1>1
  <1> QED BY <1>2, HistoryHolds, PTL DEF UndoIsReversible

\* A toast undoes its own action or nothing.
THEOREM ToastsUndoTheirOwn == Spec => ToastUndoesItsOwn
  <1> DEFINE Own == ToastUndo /\ Len(stacks'.undo) < Len(Flushed.undo) =>
                      Top(stacks).toast /\ (timer = "none" \/ doc = stacks.cache)
  <1>1. ASSUME HistoryInvariant, ToastUndo, Len(stacks'.undo) < Len(Flushed.undo)
        PROVE  Top(stacks).toast /\ (timer = "none" \/ doc = stacks.cache)
    <2>1. /\ Good(Flushed)
          /\ timer # "none" => Flushed.cache = doc
          /\ Flushed # stacks => RecordsOnTop(stacks, doc) /\ Flushed = Recorded(stacks, doc)
      BY <1>1, FlushKeeps
    <2>2. CanUndo(Flushed) /\ Top(Flushed).toast
      <3> SUFFICES ASSUME ~(CanUndo(Flushed) /\ Top(Flushed).toast) PROVE FALSE
        OBVIOUS
      <3>1. stacks' = Flushed
        BY <1>1 DEF ToastUndo, Restores
      <3>2. Len(Flushed.undo) \in Nat
        BY <2>1, GoodIs DEF Good
      <3> QED BY <1>1, <3>1, <3>2
    <2>3. Flushed = stacks
      <3> SUFFICES ASSUME Flushed # stacks PROVE FALSE
        OBVIOUS
      <3>1. Len(Flushed.undo) > 1
        BY <2>2 DEF CanUndo
      <3> QED BY <2>1, <2>2, <3>1 DEF RecordsOnTop
    <2> QED BY <2>1, <2>2, <2>3
  <1>2. HistoryInvariant => [Own]_vars
    BY <1>1
  <1> QED BY <1>2, HistoryHolds, PTL DEF ToastUndoesItsOwn

=============================================================================
