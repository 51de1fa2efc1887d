------------------------------ MODULE MCBrowser ------------------------------
EXTENDS DocumentsPage

Scenario(mishaps, people, logins, operations) ==
  [may |-> mishaps, people |-> people, logins |-> logins, ops |-> operations]

\* One session that uploads, reindexes and deletes, without mishap and, with one
\* operation, while calls fail and documents are indexed again; sessions of two
\* users that end and begin, with and without haste; a session that expires while
\* the page polls; a network that fails; and a user that cannot always be looked up.
Users == {"logout", "reload"}
MCScenarios ==
  {Scenario({}, {"ann"}, 1, 2), Scenario({"flaky", "again"}, {"ann"}, 1, 1),
   Scenario(Users \cup {"expire"}, Person, 2, 0), Scenario(Users \cup {"hasty"}, Person, 2, 0),
   Scenario(Users \cup {"expire"}, {"ann"}, 1, 1), Scenario(Users \cup {"net"}, {"ann"}, 1, 1),
   Scenario({"lookup"}, {"ann"}, 2, 1)}
=============================================================================
