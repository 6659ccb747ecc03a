---------------------------- MODULE ReplacerSpec ----------------------------
(***************************************************************************)
(* The replacer without its policy: the abstract specification that module *)
(* Replacer implements.                                                    *)
(***************************************************************************)
EXTENDS PinTable

VARIABLES pins,    \* pin counter of every frame, or Untracked
          victim   \* what the last evict() returned

vars == <<pins, victim>>

Init == /\ pins = [i \in Frames |-> Untracked]
        /\ victim = NoVictim

RecordAccess(i) == /\ pins' = RecordAccessPins(pins, i)
                   /\ UNCHANGED victim

Pin(i) == /\ pins' = PinPins(pins, i)
          /\ UNCHANGED victim

Unpin(i) == /\ pins' = UnpinPins(pins, i)
            /\ UNCHANGED victim

Remove(i) == /\ pins' = RemovePins(pins, i)
             /\ UNCHANGED victim

Evict == /\ victim' \in EvictChoices(pins)
         /\ UNCHANGED pins

Next == \/ \E i \in Frames : RecordAccess(i) \/ Pin(i) \/ Unpin(i) \/ Remove(i)
        \/ Evict

Spec == Init /\ [][Next]_vars
=============================================================================
