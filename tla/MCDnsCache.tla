------------------------------ MODULE MCDnsCache -----------------------------
(* Constants for the model-checking runs of DnsCache. *)
EXTENDS DnsCache, TLC

CONSTANTS t1, t2, cl, x, y

\* As in the proxy, every lookup is made for a client ...
MCTagged == [t \in Caller |-> Client]

\* ... or one caller may also come without a tag.
MCTags == [t \in Caller |-> IF t = t1 THEN Client ELSE Client \cup {NoClient}]

\* Names are interchangeable.
MCSymmetry == Permutations(Key)
=============================================================================
