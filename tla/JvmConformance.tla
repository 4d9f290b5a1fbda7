--------------------------- MODULE JvmConformance ---------------------------
(***************************************************************************)
(* The core of the Java and Kotlin corners against S_obs, request by       *)
(* request: what the differential tests of the repository sample, over     *)
(* every state S_obs reaches within the bounds.                            *)
(***************************************************************************)
EXTENDS SObsMachine

Jvm == INSTANCE JvmService

JvmStore(s) ==
    [users |-> s.users, follows |-> s.follows, log |-> s.tweets, clock |-> s.clock,
     nextUserId |-> s.nextUserID, nextTweetId |-> s.nextTweetID]

(* Whatever came before, the next request gets from the JVM core           *)
(* (Service.java, Store.java, Server.route) the answer of S_obs and leaves *)
(* the state of S_obs (step.go Step): the page is the one S_obs cuts       *)
(* although the scan stops early, the guard of the log refuses no post,    *)
(* and every rejection has the code and the precedence of the contract.    *)
JvmAgrees ==
    \A r \in Requests :
        LET here == Jvm!route(JvmStore(st), r)
            there == Step(st, r)
        IN  here = << there[1], JvmStore(there[2]) >>
=============================================================================
