---------------------------- MODULE MCCommandTable ----------------------------
(* Instances of CommandTable for TLC. *)
EXTENDS CommandTable

CONSTANTS C, D  \* letters

\* Four names that branch at every place; a SITE name that continues a command.
Names     == {<<C, C>>, <<C, D, C>>, <<C, D, D>>, <<D>>}
SiteNames == {<<C, C, D>>, <<D>>}

===============================================================================
