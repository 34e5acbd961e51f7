---- MODULE MCClients ----
\* A browser, or two goroutines of one client.
EXTENDS Clients

CONSTANTS w, i, s

\* Requests, and what belongs to the second of them.
Family2 == {<<"exact", {}>>, <<"other", {2}>>}
====
