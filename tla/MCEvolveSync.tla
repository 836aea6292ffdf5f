----------------------------- MODULE MCEvolveSync -----------------------------
EXTENDS EvolveSync

\* With one change to come, of either kind: a complete card of a known customer, which may come to
\* have two ROs, and a vehicle that has another card's RO, with each thing a card may lack.  With two
\* changes to come, a complete card.
MCSeeds ==
  [customer : {1}, gap : {"none"}, other : {FALSE}, data : {2}]
    \cup [customer : {1}, gap : Gap, other : {TRUE}, data : {2}]
    \cup [customer : {NoId}, gap : {"none"}, other : {TRUE}, data : {2}]
    \cup [customer : {1}, gap : {"none"}, other : {TRUE}, data : {1}]
=============================================================================
