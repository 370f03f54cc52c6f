----------------------------- MODULE SheetPlan -----------------------------
(***************************************************************************)
(* What rt/PatternScheduler.cpp promises for the sheets of each gun: every *)
(* event of a sheet that was accepted is performed once, in the order of   *)
(* the pattern, sheet after sheet.  A stop or an edit of the pattern may   *)
(* take the sheets in flight away; nothing is promised until it is over.   *)
(*                                                                         *)
(* An event is <<element, dot, what>>, a sheet the set of its events still *)
(* to come.                                                                *)
(***************************************************************************)
EXTENDS Naturals, Sequences

CONSTANT Guns

VARIABLES
    pattern,    \* events that a sheet asks of each gun
    plan,       \* sheets of each gun, oldest first
    asked,      \* the event a gun is being asked for, <<>> for none
    calm        \* no stop and no edit is under way

planVars == <<pattern, plan, asked, calm>>

\* Element after element, dot after dot; a line is opened before it is closed.
Earlier(e, f) ==
    \/ e[1] < f[1]
    \/ e[1] = f[1] /\ e[2] < f[2]
    \/ e[1] = f[1] /\ e[2] = f[2] /\ e[3] = "open" /\ f[3] = "close"

\* The photocell: a gun whose queue is full lets the sheet pass.
Accept ==
    /\ \E takes \in SUBSET Guns :
          plan' = [g \in Guns |-> IF g \in takes THEN Append(plan[g], pattern[g]) ELSE plan[g]]
    /\ UNCHANGED asked

\* A gun is asked for the next event; no event leaves the plan in any other way.
Perform(g) ==
    /\ asked[g] = <<>> /\ plan[g] # <<>>
    /\ \E e \in Head(plan[g]) :
          /\ \A f \in Head(plan[g]) \ {e} : Earlier(e, f)
          /\ asked' = [asked EXCEPT ![g] = e]
          /\ plan' = [plan EXCEPT ![g] = <<Head(@) \ {e}>> \o Tail(@)]

Performed(g) ==
    /\ asked' = [asked EXCEPT ![g] = <<>>]
    /\ UNCHANGED plan

\* A sheet is done when nothing of it is left.
Leave(g) ==
    /\ asked[g] = <<>> /\ plan[g] # <<>> /\ Head(plan[g]) = {}
    /\ plan' = [plan EXCEPT ![g] = Tail(@)]
    /\ UNCHANGED asked

InCalm ==
    /\ calm /\ calm' /\ pattern' = pattern
    /\ Accept \/ \E g \in Guns : Perform(g) \/ Performed(g) \/ Leave(g)

Disturbed == ~(calm /\ calm')

PlanSpec == ~calm /\ [][InCalm \/ Disturbed]_planVars
=============================================================================
