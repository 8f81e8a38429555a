------------------------------ MODULE StreamClient ------------------------------
(***************************************************************************)
(* SdkStream under names that can stand beside those of its server,        *)
(* HttpServer, and of the calls, ApiContract.                               *)
(***************************************************************************)
CONSTANTS
    Sdks, Policies, InitialBackoff, MaxBackoff, ConnectTimeout, IdleTimeout, KeepAlive,
    StreamMax,        \* SseMax, on the server of this client
    Unread, MaxFaults

VARIABLES
    sdk, policy, state, timer, backoff, link, cut, frames, quiet, server, others, held,
    ghosts, failures, faults

Client == INSTANCE SdkStream WITH conn <- link, unread <- frames, SseMax <- StreamMax

ASSUME ClientAssumption == Client!StreamAssumption

clientVars ==
    <<sdk, policy, state, timer, backoff, link, cut, frames, quiet, server, others, held,
      ghosts, failures, faults>>

(* A live connection is never given up, however late the caller polls:      *)
(* GivesUpForCause of SdkStream.                                             *)
GivesUpForCause == Client!GivesUpForCause

(* The delay before an attempt is fixed by the failures since a connection  *)
(* last opened: DelayFitsFailures of SdkStream.                              *)
DelayFitsFailures == Client!DelayFitsFailures
=============================================================================
