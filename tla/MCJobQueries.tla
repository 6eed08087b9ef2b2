---------------------------- MODULE MCJobQueries ----------------------------
(***************************************************************************)
(* JobQueries for TLC, and before it Migrations: the two share nothing but *)
(* that crawls and queries come after the migrations of their commands.    *)
(***************************************************************************)
EXTENDS JobQueries, Migrations, TLC

Migrated == \A p \in Commands : pc[p] = "ready"

MCInit == Init /\ MigrateInit

MCNext ==
    \/ MigrateNext /\ UNCHANGED vars
    \/ Migrated /\ Next /\ UNCHANGED migratevars

MCSpec == MCInit /\ [][MCNext]_<<vars, migratevars>> /\ Fairness
-----------------------------------------------------------------------------

P(s, j, c, t, l, p) ==
    [source |-> s, job |-> j, company |-> c, title |-> t, location |-> l, posted |-> p]

(* Texts by their place in the database's order: "ACME", "Acme ", "Dev",   *)
(* "Lyon", " lyon" and a blank.                                            *)
MCPart == <<"acme", "acme", "dev", "lyon", "lyon", "">> @@ (None :> "")

MCPostings ==
    {P(1, 1, 1, 3, 4, 1), P(1, 1, 2, 3, None, 2), P(2, 1, 2, 3, 5, None),
     P(2, 2, 1, 3, None, 2), P(1, 2, 2, 3, None, 1)}

(* The route's default is is_active = TRUE, and None asks for all.         *)
MCQueries ==
    {[source |-> None, active |-> TRUE, sort |-> "company", size |-> 1],
     [source |-> None, active |-> TRUE, sort |-> "newest", size |-> 2],
     [source |-> None, active |-> None, sort |-> "newest", size |-> 1],
     [source |-> 2, active |-> FALSE, sort |-> "oldest", size |-> 1]}
=============================================================================
