--------------------------- MODULE MCGunSequencer ---------------------------
\* Model values for GunSequencer.  The unit of time is the supervisor period;
\* the limits keep the order they have in the firmware (grace < checker grace,
\* pick limit < decay limit, stall > checker period) at the smallest size that
\* lets each of them expire before and after the others.
EXTENDS GunSequencer

MCCodes  == {"safe", "pick1", "pick2", "hold1", "hold2"}
MCPickOf == <<"pick1", "pick2">>
MCHoldOf == <<"hold1", "hold2">>
MCPickOf1 == <<"pick1">>
MCHoldOf1 == <<"hold1">>

\* One code for every threshold: a DAC that is always up to date.
MCSafeOnly == {"safe"}
MCAllSafe  == <<"safe">>
=============================================================================
