------------------------------ MODULE OndcService ------------------------------
(***************************************************************************)
(* integrations/ondc/ondc.service.ts, the methods a merchant's call ends   *)
(* in and those that answer a webhook.  Each builds a request, signs it,   *)
(* posts it and turns what comes of that into a result.  What differs      *)
(* between them, and what the others can see, is                           *)
(*   action   the action in the request's context,                         *)
(*   context  the key of the body under which the context is sent,         *)
(*   host     the service the request is posted to,                        *)
(*   path     the path it is posted to,                                    *)
(*   success  what the method gives when the post succeeds: the "data" of  *)
(*            the response, or the "response" object of axios itself,      *)
(*   failure  what it gives when the post fails.                           *)
(* The bodies are fixed sample data and are left out.                      *)
(***************************************************************************)

Send(action, context, host, path, success, failure) ==
  [action |-> action, context |-> context, host |-> host, path |-> path,
   success |-> success, failure |-> failure]

searchEntities == Send("search", "context", "gateway", "search", "data", "notSuccess")
selectEntities == Send("select", "context", "registry", "select", "response", "empty")
init    == Send("init", "requestContext", "gateway", "init", "response", "echo")
confirm == Send("confirm", "context", "gateway", "init", "response", "echo")
track   == Send("track", "context", "gateway", "track", "response", "echo")
cancel  == Send("cancel", "context", "gateway", "cancel", "response", "echo")
update  == Send("update", "context", "gateway", "update", "response", "echo")
rating  == Send("rating", "context", "gateway", "rating", "data", "echo")
support == Send("support", "context", "gateway", "support", "data", "notSuccess")

(* SellerController: the route of each method.                             *)
Routes ==
  [search |-> searchEntities, select |-> selectEntities, init |-> init,
   confirm |-> confirm, track |-> track, cancel |-> cancel,
   update |-> update, rating |-> rating, support |-> support]

Route == DOMAIN Routes

-----------------------------------------------------------------------------
(* The answers.  createOndcRequestContext names the action and makes a new *)
(* transaction and message; a failing post is logged and given up.         *)
Respond(action, path, failure) ==
  Send(action, "context", "gateway", path, "data", failure)

onSearch  == Respond("on_search", "on_search", "notSuccess")
onSelect  == Respond("on_search", "on_select", "nothing")
onInit    == Respond("on_search", "on_init", "nothing")
onConfirm == Respond("on_search", "on_confirm", "nothing")
onTrack   == Respond("on_search", "on_track", "nothing")
onCancel  == Respond("on_cancel", "on_cancel", "nothing")
onUpdate  == Respond("on_cancel", "on_update", "nothing")
onStatus  == Respond("on_status", "on_status", "nothing")
onRating  == Respond("on_search", "on_rating", "nothing")
onSupport == Respond("on_search", "on_support", "nothing")
================================================================================
