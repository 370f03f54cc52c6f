------------------------- MODULE PatternRefinement -------------------------
(***************************************************************************)
(* PatternScheduler implements SheetPlan.  The plan of a gun is computed   *)
(* from the whole pattern (AllEvents, a definition of its own) and from    *)
(* where each sheet of the ring stands.                                    *)
(***************************************************************************)
EXTENDS PatternScheduler

\* Spacings are positive (parsePatternElements) and whole pulses, so that no more
\* than AgeMax dots follow the first.
AllEvents(v, g) ==
    LET es == Elems(v, g) IN
    CASE Type(v, g) = "lines" -> (DOMAIN es) \X {0} \X {"open", "close"}
      [] Type(v, g) = "dots"  ->
            {e \in (DOMAIN es) \X (0 .. AgeMax) \X {"dot"} :
                es[e[1]].start + e[2] * es[e[1]].spacing <= es[e[1]].end}
      [] OTHER -> {}

Past(s, e) ==
    \/ e[1] < s.elem
    \/ e[1] = s.elem /\ (e[2] < s.dot \/ (e[3] = "open" /\ s.open))

Remaining(v, g, s) == {e \in AllEvents(v, g) : ~Past(s, e)}

\* The task has asked for the head's next event and not yet written that back.
Asked(g) ==
    /\ task.g = g /\ task.act \notin {"none", "resume"}
    /\ task.pc \in {"fire", "firing", "watch", "advance"}

AskedFor(g) == IF Asked(g) THEN <<task.peek.elem, task.peek.dot, task.act>> ELSE <<>>

PlanOf(g) ==
    [i \in DOMAIN ring[g] |->
        IF i = 1 /\ Asked(g) THEN Remaining(cfgv, g, ring[g][i]) \ {AskedFor(g)}
        ELSE Remaining(cfgv, g, ring[g][i])]

\* The pattern that sheets of gun g stand in is the published one, and the task,
\* if it is comparing patterns, finds no other.
Undisturbed(g) ==
    /\ SameGeometry(cfgv, seen, g)
    /\ task.pc = "edits" => SameGeometry(task.v, seen, g)

Calm == active /\ stop = "no" /\ task.was /\ \A g \in Guns : Undisturbed(g)

Plan == INSTANCE SheetPlan WITH
           pattern <- [g \in Guns |-> AllEvents(cfgv, g)],
           plan <- [g \in Guns |-> PlanOf(g)],
           asked <- [g \in Guns |-> AskedFor(g)],
           calm <- Calm

\* Every event of an accepted sheet is asked for once and in order.
PlanSpec == Plan!PlanSpec
=============================================================================
