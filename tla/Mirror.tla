-------------------------------- MODULE Mirror --------------------------------
(***************************************************************************)
(* What an incremental merge load promises of a table, without drivers,    *)
(* windows or statements: Bronze only ever moves towards the source, and   *)
(* the mark is a promise about the past.  Every row a window starting at   *)
(* the mark (less the overlap) would not return is mirrored, now and for   *)
(* as long as the mark stands, because the source adds nothing there.      *)
(***************************************************************************)
EXTENDS Watermark

CONSTANT Keys

VARIABLES source, target, mark

mirrorVars == <<source, target, mark>>

NoRow == [wm |-> 0, ver |-> 0]

Init == /\ source = [k \in Keys |-> NoRow]
        /\ target = [k \in Keys |-> NoRow]
        /\ mark = None

\* The source is mirrored below a bound, as far as it is wanted at all.
MirroredBefore(bound) ==
  \A k \in Keys : /\ AtOrAfter(source[k].wm, LowerBoundDefault)
                  /\ ~AtOrAfter(source[k].wm, bound)
                  => target[k] = source[k]

\* A row gets a newer version, and one that the next window returns.
Write(k) == /\ source' = [source EXCEPT ![k] = source'[k]]
            /\ source'[k] \in [wm : Nat, ver : Nat]
            /\ source'[k].ver = source[k].ver + 1
            /\ AtOrAfter(source'[k].wm, LowerBoundDefault)
                 => AtOrAfter(source'[k].wm, ComputeWindow(mark))
            /\ UNCHANGED <<target, mark>>

\* The target catches up, on any keys, and never falls back.
Load == /\ target' \in [Keys -> [wm : Nat, ver : Nat]]
        /\ \A k \in Keys : /\ target[k].ver <= target'[k].ver
                           /\ target'[k].ver <= source[k].ver
                           /\ target'[k].ver = target[k].ver
                                => target'[k] = target[k]
                           /\ target'[k].ver = source[k].ver
                                => target'[k] = source[k]
        /\ UNCHANGED <<source, mark>>

\* The mark moves forward, over rows that are mirrored.
Advance == /\ mark' \in Nat
           /\ AdvanceGuard(mark, mark')
           /\ MirroredBefore(ComputeWindow(mark'))
           /\ UNCHANGED <<source, target>>

\* The mark moves backward: more will be read again.
Rewind == /\ mark # None
          /\ mark' \in Nat
          /\ mark' <= mark
          /\ UNCHANGED <<source, target>>

Next == \/ \E k \in Keys : Write(k)
        \/ Load \/ Advance \/ Rewind

Spec == Init /\ [][Next]_mirrorVars
=============================================================================
