--------------------------- MODULE MCStatusPages ---------------------------
(* One page, subscribed to by one person with two phones.                  *)
EXTENDS StatusPages

CONSTANTS m1

Slugs == [p \in Pages |-> p]
SomeOrAll == {{}, {m1}}
=============================================================================
