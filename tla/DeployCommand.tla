-------------------------- MODULE DeployCommand --------------------------
(***************************************************************************)
(* What `sf-operator deploy` promises: it makes passes over the cluster    *)
(* until the cluster matches the resource or the passes are used up.       *)
(***************************************************************************)
EXTENDS Naturals

CONSTANT MaxPasses

VARIABLES
    phase,   \* "idle" or "running"
    passes,  \* passes made by the current or last command
    result,  \* how the last command ended
    matched  \* the cluster matches the resource

vars == <<phase, passes, result, matched>>

Init == /\ phase = "idle" /\ result = "none"
        /\ passes = 0
        /\ matched \in BOOLEAN

Begin == /\ phase = "idle" /\ result = "none"
         /\ phase' = "running"
         /\ passes' = 0
         /\ UNCHANGED <<result, matched>>

\* The resource is refused before anything is done with it.
Refuse == /\ phase = "idle" /\ result = "none"
          /\ result' = "exit"
          /\ passes' = 0
          /\ UNCHANGED <<phase, matched>>

\* Work on the cluster, by the command or around it.
Work == /\ phase = "running"
        /\ passes' \in {passes, passes + 1} /\ passes' < MaxPasses
        /\ matched' \in BOOLEAN
        /\ UNCHANGED <<phase, result>>

Succeed == /\ phase = "running" /\ matched /\ passes > 0
           /\ phase' = "idle" /\ result' = "ok"
           /\ UNCHANGED <<passes, matched>>

GiveUp == /\ phase = "running"
          /\ passes + 1 = MaxPasses
          /\ phase' = "idle" /\ result' = "failed"
          /\ passes' = MaxPasses
          /\ UNCHANGED matched

Break == /\ phase = "running"
         /\ phase' = "idle" /\ result' \in {"crashed", "dry-run"}
         /\ UNCHANGED <<passes, matched>>

\* The cluster lives on; what was seen to match stays so, but for what the
\* environment breaks.
Drift == /\ phase = "idle"
         /\ matched' \in BOOLEAN
         /\ result = "ok" => matched'
         /\ UNCHANGED <<phase, passes, result>>

Again == /\ phase = "idle" /\ result # "none"
         /\ result' = "none"
         /\ matched' \in BOOLEAN
         /\ UNCHANGED <<phase, passes>>

Next == Begin \/ Refuse \/ Work \/ Succeed \/ GiveUp \/ Break \/ Drift \/ Again

Spec == Init /\ [][Next]_vars

===========================================================================
