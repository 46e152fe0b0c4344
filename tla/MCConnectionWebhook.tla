------------------------- MODULE MCConnectionWebhook -------------------------
(* Instances of ConnectionWebhook for TLC. *)
EXTENDS ConnectionWebhook, TLC

MCSymmetry == Permutations(Users)

Home(s) == [ns |-> "home", name |-> s]

Away(s) == [ns |-> "elsewhere", name |-> s]

\* No connection, one, two of which one is repeated, a namesake in another
\* namespace, three (the limit is two), and one that does not parse.
MCAnnotations ==
    {<<>>, <<Home("s1")>>, <<Home("s1"), Home("s1"), Home("s2")>>, <<Away("s1")>>,
     <<Home("s1"), Away("s1"), Home("s2")>>, <<Malformed>>}

\* No entry of the user's own, or one that names the Secret of a connection.
MCOwnEntries == {[s \in Secrets |-> 0], [s \in Secrets |-> IF s = "s1" THEN 1 ELSE 0]}
=============================================================================
