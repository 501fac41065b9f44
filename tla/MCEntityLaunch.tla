--------------------------- MODULE MCEntityLaunch ---------------------------
(* An instance of EntityLaunch for TLC.                                     *)
EXTENDS EntityLaunch, TLC

CONSTANTS spot, onDemand, other

\* No chain, chains that name a rung once, and one that names a rung twice, to
\* which spec.LoadPartitions does not object.
MCChains == {<< >>, <<spot>>, <<spot, onDemand>>, <<spot, onDemand, other>>,
             <<spot, spot, onDemand>>}
=============================================================================
