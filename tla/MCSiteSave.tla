------------------------------ MODULE MCSiteSave ------------------------------
(* Saving on small instances: the bounds of each question.                 *)
EXTENDS SiteSaveProperties, TLC

Symmetry == Permutations(Edits)

OneBrowser == [t \in Tabs |-> CHOOSE b \in Browsers : TRUE]
OwnBrowser ==
  CHOOSE f \in [Tabs -> Browsers] :
    \A t, u \in Tabs : t # u => f[t] # f[u]

Bound(manual, publishes, outside, reload, fault, refusal) ==
  [r \in Rare |-> CASE r = "manual" -> manual
                    [] r = "publish" -> publishes
                    [] r = "outside" -> outside
                    [] r = "reload" -> reload
                    [] r = "fault" -> fault
                    [] r = "refusal" -> refusal]

\*                 manual publish outside reload fault refusal
RaceBound     == Bound(0,     0,      0,      1,     1,    0)
EachOnce      == Bound(1,     1,      1,      1,     1,    1)

\* One of each is enough to disprove what a comment says.
NoneBound     == Bound(0,     0,      0,      0,     0,    0)
ManualBound   == Bound(1,     0,      0,      0,     0,    0)
FaultBound    == Bound(0,     0,      0,      0,     1,    0)

=============================================================================
