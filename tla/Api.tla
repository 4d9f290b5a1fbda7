-------------------------------- MODULE Api --------------------------------
(***************************************************************************)
(* The wire vocabulary every corner of the matrix speaks: the requests a   *)
(* client can send and the responses it can observe (spec/s_obs/types.go,  *)
(* encode.go and the constants of step.go).  JSON and percent-encoding are *)
(* abstracted away: a body or a query that does not decode is the request  *)
(* "malformed", an unrouted method and path is "unrouted", a handle or a   *)
(* text that fails its syntax check is one of the model values below.      *)
(***************************************************************************)
EXTENDS Integers, Sequences

CONSTANTS
    Handles,       \* handles that pass the handle syntax check
    BadHandle,     \* stands for every handle that fails it
    Texts,         \* tweet texts that pass the text check
    BadText,       \* stands for every text that fails it
    DefaultLimit,  \* page size when the query has no limit (50 in the code)
    MaxLimit,      \* largest page size (100 in the code)
    Absent         \* an optional query parameter or response field left out

ASSUME WireAssumption ==
    /\ BadHandle \notin Handles
    /\ BadText \notin Texts
    /\ Absent \notin Int
    /\ MaxLimit \in Nat
    /\ DefaultLimit \in 1..MaxLimit

-----------------------------------------------------------------------------
(* Domain records (types.go) *)

Tweet == [id : Nat, author : Handles, text : Texts, createdAt : Nat]

Edge == Handles \X Handles

-----------------------------------------------------------------------------
(* Requests (types.go Request, once routed and decoded) *)

AnyHandle == Handles \cup {BadHandle}

CreateRequest == [op : {"create"}, handle : AnyHandle]
EdgeRequest == [op : {"follow", "unfollow"}, from : AnyHandle, to : AnyHandle]
PostRequest == [op : {"post"}, author : AnyHandle, text : Texts \cup {BadText}]
TickRequest == [op : {"tick"}]
TimelineRequest == [op : {"timeline"}, user : AnyHandle,
                    limit : Int \cup {Absent}, cursor : Int \cup {Absent}]
OtherRequest == [op : {"malformed", "unrouted"}]

Request == CreateRequest \cup EdgeRequest \cup PostRequest
             \cup TickRequest \cup TimelineRequest \cup OtherRequest

-----------------------------------------------------------------------------
(* Responses (encode.go) *)

ErrorBody(status, code) == [status |-> status, error |-> code]
UserBody(handle, id) == [status |-> 201, handle |-> handle, id |-> id]
TweetBody(t) == [status |-> 201, tweet |-> t]
NoContent == [status |-> 204]
ClockBody(n) == [status |-> 200, clock |-> n]
TimelineBody(page, next) == [status |-> 200, page |-> page, next |-> next]

ErrorCode == {"malformed_request", "not_found", "invalid_handle", "invalid_text",
              "invalid_limit", "invalid_cursor", "unknown_user", "handle_taken",
              "self_follow_forbidden", "internal_error"}

Response ==
    [status : {400, 404, 409, 500}, error : ErrorCode]
      \cup [status : {201}, handle : Handles, id : Nat]
      \cup [status : {201}, tweet : Tweet]
      \cup [status : {204}]
      \cup [status : {200}, clock : Nat]
      \cup [status : {200}, page : Seq(Tweet), next : Nat \cup {Absent}]
=============================================================================
