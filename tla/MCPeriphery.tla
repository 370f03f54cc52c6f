---------------------------- MODULE MCPeriphery ----------------------------
\* The parts around the scheduler and the sequencer that share no state, checked
\* in one run: a behaviour belongs to one part and leaves the others at rest.
EXTENDS Dac, Encoder, ConfigBuffer, LiveSync

VARIABLE part

MCCallers == {"pattern"}
MCCodes   == {"safe", "pick", "hold"}
MCFields  == {"pick", "hold"}
MCValid(c) == c["hold"] < c["pick"]

AllParts == {"dac", "counter", "eye", "buffer", "pc", "page"}

MCInit ==
    /\ part \in AllParts
    /\ DacInit /\ EncInit /\ BufInit /\ LinkInit
    /\ part = "dac" \/ ~chipReady

MCNext ==
    /\ UNCHANGED part
    /\ \/ part = "dac"     /\ DacNext     /\ UNCHANGED <<encVars, bufVars, linkVars>>
       \/ part = "counter" /\ CounterNext /\ UNCHANGED <<dacVars, bufVars, linkVars>>
       \/ part = "eye"     /\ EyeNext     /\ UNCHANGED <<dacVars, bufVars, linkVars>>
       \/ part = "buffer"  /\ BufNext     /\ UNCHANGED <<dacVars, encVars, linkVars>>
       \/ part = "pc"      /\ PcNext      /\ UNCHANGED <<dacVars, encVars, bufVars>>
       \/ part = "page"    /\ PageNext    /\ UNCHANGED <<dacVars, encVars, bufVars>>

MCSpec ==
    /\ MCInit /\ [][MCNext]_<<part, dacVars, encVars, bufVars, linkVars>>
    /\ DacFairness /\ LinkFairness

\* Each part is well typed.
PeripheryTypeOK == DacTypeOK /\ EncTypeOK /\ BufTypeOK /\ LinkTypeOK
=============================================================================
