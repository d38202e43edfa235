---------------------------- MODULE Subscription ----------------------------
(***************************************************************************)
(* A subscription describes a web site to be watched (subscription.go).    *)
(* It is a record with the fields URL, Filter, ContentType, UseChrome and  *)
(* Interval; the three text fields are sequences of characters, of which   *)
(* a model needs only a few.  Parts of the program decide with different   *)
(* keys whether two subscriptions are the same site; PostgreSQL with the   *)
(* three texts (see PostgresStorage).                                      *)
(***************************************************************************)
EXTENDS Sequences

\* The in-memory storage and both services: Interval is not part of the key.
Equals(s1, s2) ==
    /\ s1.URL = s2.URL
    /\ s1.Filter = s2.Filter
    /\ s1.ContentType = s2.ContentType
    /\ s1.UseChrome = s2.UseChrome

\* Mutant: the filter is forgotten.
DedupKeyUnfiltered(s) == s.URL \o s.ContentType

\* The watcher's scrape list: the three texts are joined without a separator.
DedupKey(s) == s.URL \o s.Filter \o s.ContentType
=============================================================================
