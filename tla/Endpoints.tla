----------------------------- MODULE Endpoints -----------------------------
(***************************************************************************)
(* The endpoints (endpoint/...) the HTTP transport routes requests to       *)
(* (http/api.go), and the status of their answers (http/json.go).           *)
(*                                                                         *)
(* An endpoint is what the transport needs to know of it: whether a request *)
(* is empty, or else must hold an object besides the e-mail; the errors of   *)
(* the service it calls; and the status of success.                         *)
(***************************************************************************)
EXTENDS Integers

\* An error is the one errors.Is finds in it, "other", or "nil".
Errors == {"nil", "ErrNotExist", "ErrAlreadyExists", "ErrLimit", "other"}

Endpoint(name, pointer, errors, code) ==
    [name |-> name, empty |-> FALSE, pointer |-> pointer,
     errors |-> errors \cup {"nil", "other"}, code |-> code]

AddSubscriber == Endpoint("AddSubscriber", TRUE, {"ErrAlreadyExists", "ErrLimit"}, 204)

Subscribe == Endpoint("Subscribe", TRUE, {"ErrNotExist", "ErrAlreadyExists", "ErrLimit"}, 204)

GetSubscriptionsBySubscriber ==
    Endpoint("GetSubscriptionsBySubscriber", FALSE, {"ErrNotExist"}, 200)

GetSubscribersBySubscription == Endpoint("GetSubscribersBySubscription", TRUE, {}, 200)

GetSubscribers == [Endpoint("GetSubscribers", FALSE, {}, 200) EXCEPT !.empty = TRUE]

Unsubscribe == Endpoint("Unsubscribe", TRUE, {"ErrNotExist"}, 204)

DeleteSubscriber == Endpoint("DeleteSubscriber", FALSE, {"ErrNotExist"}, 204)

Get == Endpoint("sitearchive_Get", TRUE, {"ErrNotExist"}, 200)

\* The endpoint that updates the archive has no route.
Routes == {AddSubscriber, Subscribe, GetSubscriptionsBySubscriber, GetSubscribersBySubscription,
           GetSubscribers, Unsubscribe, DeleteSubscriber, Get}

Failure(err) ==
    CASE err = "ErrNotExist"      -> 404
      [] err = "ErrAlreadyExists" -> 409
      [] OTHER                    -> 500

Status(endpoint, err) == IF err = "nil" THEN endpoint.code ELSE Failure(err)
=============================================================================
